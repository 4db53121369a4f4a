-------------------------------- MODULE MIText --------------------------------
(***************************************************************************)
(* The MI codec (internal/mi/parse.go, escape.go, record.go, value.go): a  *)
(* line of gdb's output becomes a record, and a record a line.             *)
(*                                                                         *)
(* A byte is its number and a line a sequence of bytes, without NUL.  What *)
(* a line goes through on its way is the state: gdb writes it whole; gdb   *)
(* may die half-way (the client parses what is left, readLoop); a prompt   *)
(* without a newline may be glued to its front; and the program's own      *)
(* output may fall into it.                                                *)
(***************************************************************************)
EXTENDS Naturals, SequencesExt

CONSTANTS
    Lines,      \* lines gdb writes
    Noise,      \* what the program writes in between
    MaxToken    \* bound: the largest token, for 2^64 - 1

VARIABLES
    whole,      \* the line as gdb wrote it
    line,       \* the line the client reads
    how         \* what happened to it

textVars == <<whole, line, how>>

-----------------------------------------------------------------------------
(* Bytes.                                                                  *)

Tab == 9
Newline == 10
Return == 13
Blank == 32
DoubleQuote == 34
Comma == 44
Hyphen == 45
Equals == 61
Backslash == 92
Digits == 48..57
Octals == 48..55

\* isNameStart, isNameByte.
NameStart == (97..122) \cup (65..90) \cup {95}
NameBytes == NameStart \cup Digits \cup {Hyphen}

\* isHexDigit, hexVal.
HexVal ==
    [c \in Digits \cup (97..102) \cup (65..70) |->
        IF c \in Digits THEN c - 48 ELSE IF c >= 97 THEN c - 87 ELSE c - 55]

\* The first position from i on that holds no byte of C.
After(s, i, C) ==
    CHOOSE j \in i..Len(s) + 1 :
        (\A k \in i..j - 1 : s[k] \in C) /\ (j > Len(s) \/ s[j] \notin C)

Holds(s, i, c) == i <= Len(s) /\ s[i] = c

\* The number a run of digits spells.
NumberOf(s, base) == FoldLeft(LAMBDA n, c : base * n + HexVal[c], 0, s)

-----------------------------------------------------------------------------
(* sanitizeUTF8.                                                           *)

\* The continuation bytes that may follow a lead byte directly.
Second(c) ==
    CASE c = 224 -> 160..191 [] c = 237 -> 128..159
      [] c = 240 -> 144..191 [] c = 244 -> 128..143 [] OTHER -> 128..191

\* The length of the character at i, 0 if there is none.
CharLength(s, i) ==
    LET c == s[i]
        n == IF c < 128 THEN 1 ELSE IF c \in 194..223 THEN 2
             ELSE IF c \in 224..239 THEN 3 ELSE IF c \in 240..244 THEN 4 ELSE 0
        Valid == /\ i + n - 1 <= Len(s)
                 /\ n > 1 => s[i + 1] \in Second(c)
                 /\ \A k \in 2..n - 1 : s[i + k] \in 128..191
    IN  IF Valid THEN n ELSE 0

\* U+FFFD.
Replacement == <<239, 191, 189>>

\* Each run of invalid bytes becomes one U+FFFD.
RECURSIVE SanitizeFrom(_, _, _)
SanitizeFrom(s, i, replaced) ==
    IF i > Len(s) THEN <<>>
    ELSE LET n == CharLength(s, i)
         IN  IF n > 0 THEN SubSeq(s, i, i + n - 1) \o SanitizeFrom(s, i + n, FALSE)
             ELSE (IF replaced THEN <<>> ELSE Replacement) \o SanitizeFrom(s, i + 1, TRUE)

Sanitize(s) == SanitizeFrom(s, 1, FALSE)

-----------------------------------------------------------------------------
(* unescape and writeEscaped.                                              *)

\* n r t a b f v, and what they stand for; unescape also knows e.
Written == (110 :> 10) @@ (114 :> 13) @@ (116 :> 9) @@ (97 :> 7) @@ (98 :> 8) @@ (102 :> 12)
           @@ (118 :> 11)
Known == Written @@ (101 :> 27)

\* The byte the escape at i stands for, and what follows it; i is after the backslash.
EscapeAt(s, i) ==
    LET c == s[i]
        octal == SubSeq(s, i, Min({After(s, i, Octals) - 1, i + 2}))
        hex == SubSeq(s, i + 1, Min({After(s, i + 1, DOMAIN HexVal) - 1, i + 2}))
    IN  CASE c \in DOMAIN Known -> [byte |-> Known[c], next |-> i + 1]
          [] c \in Octals -> [byte |-> NumberOf(octal, 8) % 256, next |-> i + Len(octal)]
          [] c = 120 /\ hex # <<>> -> [byte |-> NumberOf(hex, 16), next |-> i + 1 + Len(hex)]
          [] OTHER -> [byte |-> c, next |-> i + 1]

RECURSIVE Decode(_, _)
Decode(s, i) ==
    IF i > Len(s) THEN <<>>
    ELSE IF s[i] # Backslash THEN <<s[i]>> \o Decode(s, i + 1)
    ELSE IF i = Len(s) THEN <<Backslash>>
    ELSE LET e == EscapeAt(s, i + 1) IN <<e.byte>> \o Decode(s, e.next)

Unescape(s) == Sanitize(Decode(s, 1))

\* The letter that stands for a byte, if one does.
LetterOf(c) == {l \in DOMAIN Written : Written[l] = c}

\* Mutant: the shortest octal escape, which a digit after it lengthens.
EscapeByteShort(c) ==
    IF c \in {DoubleQuote, Backslash} THEN <<Backslash, c>>
    ELSE IF LetterOf(c) # {} THEN <<Backslash>> \o SetToSeq(LetterOf(c))
    ELSE IF c < 8 THEN <<Backslash, 48 + c>>
    ELSE IF c < 32 \/ c = 127
    THEN <<Backslash, 48 + (c \div 64), 48 + ((c \div 8) % 8), 48 + (c % 8)>>
    ELSE <<c>>

\* writeEscaped, for one byte: an octal escape always has three digits.
EscapeByte(c) ==
    IF c \in {DoubleQuote, Backslash} THEN <<Backslash, c>>
    ELSE IF LetterOf(c) # {} THEN <<Backslash>> \o SetToSeq(LetterOf(c))
    ELSE IF c < 32 \/ c = 127
    THEN <<Backslash, 48 + (c \div 64), 48 + ((c \div 8) % 8), 48 + (c % 8)>>
    ELSE <<c>>

Quoted(text) ==
    <<DoubleQuote>> \o FlattenSeq([i \in DOMAIN text |-> EscapeByte(text[i])]) \o <<DoubleQuote>>

-----------------------------------------------------------------------------
(* The parser.  A part of a line parses to what it holds and the position  *)
(* after it, or not at all.                                                *)

Failed == [ok |-> FALSE, val |-> <<>>, next |-> 0]
Parsed(val, next) == [ok |-> TRUE, val |-> val, next |-> next]

Const(text) == [kind |-> "const", text |-> text, items |-> <<>>]
Group(kind, items) == [kind |-> kind, text |-> <<>>, items |-> items]
NoName == <<>>
Named(name, value) == [name |-> name, value |-> value]

\* The closing quote of a string whose body starts at i, 0 if there is none.
RECURSIVE ClosingQuote(_, _)
ClosingQuote(s, i) ==
    IF i > Len(s) THEN 0
    ELSE IF s[i] = DoubleQuote THEN i
    ELSE ClosingQuote(s, IF s[i] = Backslash THEN i + 2 ELSE i + 1)

\* Mutant: a string the line ends in is taken for what there is of it.
CStringUnclosed(s, i) ==
    LET q == ClosingQuote(s, i + 1)
    IN  IF ~Holds(s, i, DoubleQuote) THEN Failed
        ELSE IF q = 0 THEN Parsed(Unescape(SubSeq(s, i + 1, Len(s))), Len(s) + 1)
        ELSE Parsed(Unescape(SubSeq(s, i + 1, q - 1)), q + 1)

CString(s, i) ==
    LET q == ClosingQuote(s, i + 1)
    IN  IF ~Holds(s, i, DoubleQuote) \/ q = 0 THEN Failed
        ELSE Parsed(Unescape(SubSeq(s, i + 1, q - 1)), q + 1)

\* The brackets of a tuple and of a list.
Opening == [tuple |-> 123, list |-> 91]
Closing == [tuple |-> 125, list |-> 93]

RECURSIVE Value(_, _), Items(_, _, _, _)

\* What a part parsed to, as the value of a result or as a constant.
AsResult(name, v) == IF v.ok THEN Parsed(Named(name, v.val), v.next) ELSE Failed
AsConst(c) == IF c.ok THEN Parsed(Const(c.val), c.next) ELSE Failed

\* A name only counts as one if an equals sign follows it.
Result(s, i) ==
    LET named == i <= Len(s) /\ s[i] \in NameStart
        e == After(s, i, NameBytes)
    IN  IF named /\ ~Holds(s, e, Equals) THEN Failed
        ELSE AsResult(IF named THEN SubSeq(s, i, e - 1) ELSE NoName,
                      Value(s, IF named THEN e + 1 ELSE i))

\* The group once one more item has been read.
AfterItem(s, kind, read, r) ==
    LET items == Append(read, r.val)
    IN  IF ~r.ok THEN Failed
        ELSE IF Holds(s, r.next, Comma) THEN Items(s, r.next + 1, kind, items)
        ELSE IF Holds(s, r.next, Closing[kind]) THEN Parsed(Group(kind, items), r.next + 1)
        ELSE Failed

\* The items of a group from i on, after those already read.
Items(s, i, kind, read) == AfterItem(s, kind, read, Result(s, i))

Value(s, i) ==
    IF Holds(s, i, DoubleQuote)
    THEN AsConst(CString(s, i))
    ELSE IF \E kind \in DOMAIN Opening : Holds(s, i, Opening[kind])
    THEN LET kind == CHOOSE k \in DOMAIN Opening : Holds(s, i, Opening[k])
         IN  IF Holds(s, i + 1, Closing[kind]) THEN Parsed(Group(kind, <<>>), i + 2)
             ELSE Items(s, i + 1, kind, <<>>)
    ELSE Failed

-----------------------------------------------------------------------------
(* Records.                                                                *)

\* The character of each type.
Classifier ==
    [result |-> 94, exec |-> 42, notify |-> 61, status |-> 43,
     console |-> 126, target |-> 64, log |-> 38]
Streams == {"console", "target", "log"}
NoToken == MaxToken + 1

Record(type, token, class, results, text, err) ==
    [type |-> type, token |-> token, class |-> class, results |-> results, text |-> text, err |-> err]

\* garbage and malformed.
Garbage(raw, err) == Record("garbage", NoToken, <<>>, <<>>, raw, err)

PromptText == <<40, 103, 100, 98, 41>>

SkipBlanks(s) == SubSeq(s, After(s, 1, {Blank, Tab}), Len(s))

\* The line without the prompts in front of it.
RECURSIVE WithoutPrompts(_)
WithoutPrompts(s) ==
    LET t == SkipBlanks(s)
    IN  IF IsPrefix(PromptText, t) THEN WithoutPrompts(SubSeq(t, Len(PromptText) + 1, Len(t)))
        ELSE s

\* TrimRight(line, "\r\n").
RECURSIVE WithoutNewline(_)
WithoutNewline(s) ==
    IF s # <<>> /\ Last(s) \in {Newline, Return} THEN WithoutNewline(Front(s)) ELSE s

\* The results of a record from i on, each after a comma.
RECURSIVE Results(_, _, _)
AfterResult(s, read, r) == IF r.ok THEN Results(s, r.next, Append(read, r.val)) ELSE Failed

Results(s, i, read) ==
    IF i > Len(s) THEN Parsed(read, i)
    ELSE IF s[i] # Comma THEN Failed
    ELSE AfterResult(s, read, Result(s, i + 1))

\* What the rest of a line makes of it: its string, or its class and results.
StreamRecord(raw, type, token, c) ==
    IF c.ok THEN Record(type, token, <<>>, <<>>, c.val, FALSE) ELSE Garbage(raw, TRUE)

ClassRecord(raw, type, token, class, rs) ==
    IF class # <<>> /\ rs.ok THEN Record(type, token, class, rs.val, <<>>, FALSE)
    ELSE Garbage(raw, TRUE)

\* A string and nothing after it.
OnlyString(s, c) == IF c.next > Len(s) THEN c ELSE Failed

\* The record in s, whose classifier is at e, after the token.
RecordAt(raw, s, e) ==
    LET number == NumberOf(SubSeq(s, 1, e - 1), 10)
        token == IF e = 1 THEN NoToken ELSE number
        types == {t \in DOMAIN Classifier : Holds(s, e, Classifier[t])}
        type == CHOOSE t \in types : TRUE
        end == After(s, e + 1, NameBytes)
    IN  IF types = {} \/ (e > 1 /\ number > MaxToken) THEN Garbage(raw, FALSE)
        ELSE IF type \in Streams
        THEN StreamRecord(raw, type, token, OnlyString(s, CString(s, e + 1)))
        ELSE ClassRecord(raw, type, token, SubSeq(s, e + 1, end - 1), Results(s, end, <<>>))

ParseRecord(input) ==
    LET raw == WithoutNewline(input)
        bare == WithoutPrompts(raw)
        s == IF bare = raw THEN raw ELSE SkipBlanks(bare)
    IN  IF bare # raw /\ s = <<>> THEN Record("prompt", NoToken, <<>>, <<>>, <<>>, FALSE)
        ELSE RecordAt(raw, s, After(s, 1, Digits))

-----------------------------------------------------------------------------
(* Record.MI and Value.appendMI.                                           *)

RECURSIVE Decimal(_)
Decimal(n) == IF n < 10 THEN <<48 + n>> ELSE Append(Decimal(n \div 10), 48 + (n % 10))

RECURSIVE ValueMI(_)
ResultMI(r) == (IF r.name = NoName THEN <<>> ELSE Append(r.name, Equals)) \o ValueMI(r.value)

Separated(items) ==
    FlattenSeq([i \in DOMAIN items |-> (IF i > 1 THEN <<Comma>> ELSE <<>>) \o ResultMI(items[i])])

ValueMI(v) ==
    IF v.kind = "const" THEN Quoted(v.text)
    ELSE <<Opening[v.kind]>> \o Separated(v.items) \o <<Closing[v.kind]>>

MI(r) ==
    IF r.type = "garbage" THEN r.text
    ELSE IF r.type = "prompt" THEN PromptText
    ELSE (IF r.token = NoToken THEN <<>> ELSE Decimal(r.token)) \o <<Classifier[r.type]>>
         \o IF r.type \in Streams THEN Quoted(r.text)
            ELSE r.class \o FlattenSeq([i \in DOMAIN r.results |-> <<Comma>> \o ResultMI(r.results[i])])

-----------------------------------------------------------------------------
(* The way of a line.                                                      *)

TextInit == whole \in Lines /\ line = whole /\ how = "whole"

\* gdb dies, and what it had written is all there is.
DiesHalfway ==
    /\ how = "whole"
    /\ \E n \in 1..Len(whole) - 1 : line' = SubSeq(whole, 1, n)
    /\ how' = "cut"
    /\ UNCHANGED whole

\* gdb wrote a prompt and no newline before it.
GluesPrompt ==
    /\ how = "whole"
    /\ \E gap \in {<<>>, <<Blank>>, <<Blank>> \o PromptText \o <<Tab>>} :
            line' = PromptText \o gap \o whole
    /\ how' = "glued"
    /\ UNCHANGED whole

\* The program writes to the same stream.
ProgramWrites ==
    /\ how = "whole"
    /\ \E n \in 0..Len(whole), b \in Noise : line' = InsertAt(whole, n + 1, b)
    /\ how' = "mixed"
    /\ UNCHANGED whole

TextNext == DiesHalfway \/ GluesPrompt \/ ProgramWrites

TextSpec == TextInit /\ [][TextNext]_textVars

-----------------------------------------------------------------------------
(* Properties.                                                             *)

Rereads(r) == ParseRecord(MI(r)) = r

\* Parsing is the inverse of writing: whatever a line becomes, the record
\* written out and read again is the record (parse.go, escape.go: every byte
\* of a string, whatever follows it; record.go: MI).
RoundTrip == Rereads(ParseRecord(line))

SaysNoMore(cut, full) ==
    full.type # "garbage" /\ cut.type \notin {"garbage", "prompt"} =>
        /\ cut.type = full.type /\ cut.token = full.token /\ cut.text = full.text
        /\ IsPrefix(cut.class, full.class) /\ IsPrefix(cut.results, full.results)
        /\ cut.results # <<>> => cut.class = full.class

\* A line gdb did not finish says nothing the whole line does not say: it is
\* garbage, or its class is the beginning of the class, and a value it has is
\* a value of the whole line, in full (cstring, group and ParseRecord refuse
\* what is not closed).
CutNeverLies == how = "cut" => SaysNoMore(ParseRecord(line), ParseRecord(whole))
===============================================================================
