------------------------------ MODULE Streams ------------------------------
(***************************************************************************)
(* Words and strings in the file (lib/SPIRV/libSPIRV/SPIRVStream.cpp): the *)
(* encoder, and the decoder, which has to find the next instruction behind *)
(* the one it has read.  In a binary file the only help is the word count, *)
(* 16 bits of the first word, and most instructions do not look at it.     *)
(***************************************************************************)
EXTENDS Integers, Sequences, SequencesExt, FiniteSetsExt

CONSTANTS
  Base,          \* a byte is a digit to this base; 256 in the code
  Modules,       \* the modules that are written first
  Conversions    \* how often a file is read and written again by ConvertSPIRV

Letter    == 1
Blank     == 2
Quote     == 3
Backslash == 4
Half == Base * Base       \* a word count has half a word: 2^16

ASSUME StreamAssumption == Base \in Nat /\ Backslash < Base /\ Conversions \in Nat

(***************************************************************************)
(* An entry has its op code, the words that are always there but the first *)
(* (ids), and a string or a list of more ids.                              *)
(***************************************************************************)
Name      == 1
Struct    == 2
Composite == 3
OpCodes == {Name, Struct, Composite}
\* The words of an instruction without the list or string.
FixedWC == (Name :> 2) @@ (Struct :> 2) @@ (Composite :> 3)

VARIABLES
  entries,   \* the module in memory
  source,    \* the module the file was written from
  text,      \* SPIRVUseTextFormat
  stream,    \* the file, or what is left of it
  header,    \* WordCount and OpCode of the decoder
  rounds,    \* how often a file was read
  phase      \* "made", "header", "entry", "read" or "failed"

vars == <<entries, source, text, stream, header, rounds, phase>>

-----------------------------------------------------------------------------
(***************************************************************************)
(* The encoder.  In a text a word, an op code and a character of a string  *)
(* are tokens of their own; the blanks between tokens are left out.        *)
(***************************************************************************)
Encoded(asText, w) ==
  IF asText THEN << <<"word", w>> >>
  ELSE <<w % Base, (w \div Base) % Base, (w \div Half) % Base, (w \div (Half * Base)) % Base>>
EncodedAll(asText, ws) == FlattenSeq([k \in DOMAIN ws |-> Encoded(asText, ws[k])])

\* mkWord: what does not fit into 32 bits is gone.
MkWord(wc, op) == (wc * Half + op) % (Half * Half)
EncodedHeader(asText, wc, op) ==
  IF asText THEN << <<"word", wc>>, <<"op", op>> >> ELSE Encoded(FALSE, MkWord(wc, op))

\* writeQuotedString
Chars(str)  == [k \in DOMAIN str |-> <<"char", str[k]>>]
Quoted(str) ==
  Chars(<<Quote>> \o FlattenSeq([k \in DOMAIN str |->
                       IF str[k] = Quote THEN <<Backslash, Quote>> ELSE <<str[k]>>])
        \o <<Quote>>)

\* A bug in operator<<: no zero behind a string that fills its words.
PaddedToWords(str) == str \o [k \in 1 .. (4 - (Len(str) % 4)) % 4 |-> 0]
Padded(str)        == str \o [k \in 1 .. 4 - (Len(str) % 4) |-> 0]

\* A name is made when it is written; a list has the word count it was made with.
GetSizeInWords(str) == Len(str) \div 4 + 1
WordCount(e) == IF e.op = Name THEN FixedWC[Name] + GetSizeInWords(e.str) ELSE e.wc

EncodedEntry(asText, e) ==
  EncodedHeader(asText, WordCount(e), e.op) \o EncodedAll(asText, e.ids)
    \o (IF e.op # Name THEN EncodedAll(asText, e.list)
        ELSE IF asText THEN Quoted(e.str) ELSE Padded(e.str))

Init ==
  /\ entries \in Modules
  /\ source = << >> /\ stream = << >> /\ header = <<0, 0>> /\ rounds = 0
  /\ text = FALSE /\ phase = "made"

\* operator<<(SPIRVModule), and operator>> begins.
Write ==
  /\ phase \in {"made", "read"} /\ rounds <= Conversions
  /\ text' \in BOOLEAN
  /\ stream' = FlattenSeq([k \in DOMAIN entries |-> EncodedEntry(text', entries[k])])
  /\ source' = entries
  /\ entries' = << >>
  /\ rounds' = rounds + 1
  /\ phase' = "header"
  /\ UNCHANGED header
-----------------------------------------------------------------------------
(***************************************************************************)
(* The decoder.                                                            *)
(***************************************************************************)
Size == IF text THEN 1 ELSE 4
Drop(s, n) == SubSeq(s, n + 1, Len(s))
\* n words can be read from s; otherwise the stream fails.
HasWords(s, n) ==
  /\ n * Size <= Len(s)
  /\ text => \A k \in 1 .. n : s[k][1] = "word"
Words(s, n) ==
  [k \in 1 .. n |->
     IF text THEN s[k][2]
     ELSE s[4 * k - 3] + Base * s[4 * k - 2] + Half * s[4 * k - 1] + Half * Base * s[4 * k]]

\* getWordCountAndOpCode: the end of the file, and what is no word count, end the
\* module.
ReadHeader ==
  /\ phase = "header" /\ HasWords(stream, 1)
  /\ text => Len(stream) > 1 /\ stream[2][1] = "op"
  /\ LET w == Words(stream, 1)[1]
     IN header' = IF text THEN <<w, stream[2][2]>> ELSE <<w \div Half, w % Half>>
  /\ stream' = Drop(stream, IF text THEN 2 ELSE 4)
  /\ phase' = "entry"
  /\ UNCHANGED <<entries, source, text, rounds>>

\* "Invalid key": the text has no op code where one should be.
InvalidKey ==
  /\ phase = "header" /\ text /\ HasWords(stream, 1)
  /\ Len(stream) = 1 \/ stream[2][1] # "op"
  /\ phase' = "failed"
  /\ UNCHANGED <<entries, source, text, stream, header, rounds>>

EndReading ==
  /\ phase = "header" /\ ~HasWords(stream, 1)
  /\ phase' = "read"
  /\ UNCHANGED <<entries, source, text, stream, header, rounds>>

\* getEntry: an instruction of no words is passed over.
EmptyEntry == header[1] = 0 \/ header[2] = 0

PassOver ==
  /\ phase = "entry" /\ EmptyEntry
  /\ phase' = "header"
  /\ UNCHANGED <<entries, source, text, stream, header, rounds>>

(***************************************************************************)
(* Strings.  ">>" for a character skips blanks, also in a binary file, and *)
(* also where the padding is read.                                         *)
(***************************************************************************)
Visible(s) == SelectSeq(s, LAMBDA c : c # Blank)
\* s behind its n-th byte that is no blank
Behind(s, n) ==
  IF n = 0 THEN s
  ELSE Drop(s, CHOOSE i \in DOMAIN s : s[i] # Blank /\ Len(Visible(SubSeq(s, 1, i))) = n)

\* The padding is counted from the characters that were read.
Padding(str) == IF (Len(str) + 1) % 4 = 0 THEN 0 ELSE 4 - ((Len(str) + 1) % 4)
\* The result of reading a string: << >> if the stream or an assertion fails.
ReadPadded(s) ==
  IF 0 \notin Range(s) THEN << >>
  ELSE LET z   == Min({i \in DOMAIN s : s[i] = 0})
           str == Visible(SubSeq(s, 1, z - 1))
           pad == Visible(Drop(s, z))
       IN IF Padding(str) > Len(pad) \/ \E i \in 1 .. Padding(str) : pad[i] # 0 THEN << >>
          ELSE << <<str, Behind(Drop(s, z), Padding(str))>> >>

\* readQuotedString: up to the first quote without a backslash in front of it; a
\* backslash in front of a quote is left out.
ReadQuoted(s) ==
  LET seen == SelectSeq(s, LAMBDA c : c # <<"char", Blank>>)
      IsQuote(i) == seen[i] = <<"char", Quote>>
      Escaped(i) == i > 2 /\ seen[i - 1] = <<"char", Backslash>>
      ends == {i \in DOMAIN seen : i > 1 /\ IsQuote(i) /\ ~Escaped(i)}
      last == Min(ends)
      kept == {i \in 2 .. last - 1 : ~(IsQuote(i + 1) /\ Escaped(i + 1))}
      str  == [k \in 1 .. Cardinality(kept) |->
                 seen[CHOOSE i \in kept : Cardinality({j \in kept : j <= i}) = k][2]]
  IN IF ends = {} THEN << >>
     ELSE << <<str, Drop(s, CHOOSE i \in DOMAIN s :
                Len(SelectSeq(SubSeq(s, 1, i), LAMBDA c : c # <<"char", Blank>>)) = last)>> >>

ReadString(s) == IF text THEN ReadQuoted(s) ELSE ReadPadded(s)

Entry(op, ids, str, list, wc) ==
  [op |-> op, ids |-> ids, str |-> str, list |-> list, wc |-> wc]

Ids      == FixedWC[header[2]] - 1
HasIds   == header[2] \in OpCodes /\ HasWords(stream, Ids)
AfterIds == Drop(stream, Ids * Size)

ReadName ==
  /\ phase = "entry" /\ ~EmptyEntry /\ header[2] = Name /\ HasIds
  /\ \E result \in Range(ReadString(AfterIds)) :
       /\ entries' = Append(entries, Entry(Name, Words(stream, Ids), result[1], << >>, 0))
       /\ stream' = result[2]
  /\ phase' = "header"
  /\ UNCHANGED <<source, text, header, rounds>>

\* setWordCount: the list gets the rest of the words.  That of a composite does not
\* store the word count.
ListLength == header[1] - FixedWC[header[2]]
HasList    == HasIds /\ ListLength >= 0 /\ HasWords(AfterIds, ListLength)

ReadList ==
  /\ phase = "entry" /\ ~EmptyEntry /\ header[2] \in {Struct, Composite} /\ HasList
  /\ entries' = Append(entries,
       Entry(header[2], Words(stream, Ids), << >>, Words(AfterIds, ListLength),
             IF header[2] = Composite THEN 0 ELSE header[1]))
  /\ stream' = Drop(AfterIds, ListLength * Size)
  /\ phase' = "header"
  /\ UNCHANGED <<source, text, header, rounds>>

\* "Not implemented", "SPIRV stream fails", "Invalid string in SPIRV", or a vector of
\* more elements than there is memory for.
ReadFails ==
  /\ phase = "entry" /\ ~EmptyEntry
  /\ ~HasIds \/ (IF header[2] = Name THEN ReadString(AfterIds) = << >> ELSE ~HasList)
  /\ phase' = "failed"
  /\ UNCHANGED <<entries, source, text, stream, header, rounds>>

Next ==
  \/ Write
  \/ ReadHeader \/ InvalidKey \/ EndReading
  \/ PassOver \/ ReadName \/ ReadList \/ ReadFails

Spec == Init /\ [][Next]_vars
-----------------------------------------------------------------------------
(***************************************************************************)
(* Properties.                                                             *)
(***************************************************************************)
\* The decoder keeps step with the encoder when the blanks of a name fill words, the
\* word count of a name is no multiple of 2^16, and that of a list is one or leaves a
\* length; in a text, when a name does not end in a backslash and a word count is not
\* 0, as it is for a composite that was read.
KeepsStep(e) ==
  IF text
  THEN IF e.op = Name THEN Visible(e.str) = << >> \/ Last(Visible(e.str)) # Backslash
       ELSE e.wc # 0
  ELSE LET wc == WordCount(e) % Half
       IN IF e.op = Name THEN wc # 0 /\ (Len(e.str) - Len(Visible(e.str))) % 4 = 0
          ELSE wc = 0 \/ wc >= FixedWC[e.op]

\* What is read of an entry then: a name without its blanks, a list as it is, or cut
\* down to its word count modulo 2^16, or nothing.
Same(e) == <<e.op, e.ids, e.str, e.list>>
AsRead(e) ==
  IF e.op = Name THEN << <<Name, e.ids, Visible(e.str), << >> >> >>
  ELSE IF text THEN <<Same(e)>>
  ELSE IF e.wc % Half = 0 THEN << >>
  ELSE << <<e.op, e.ids, << >>, SubSeq(e.list, 1, (e.wc % Half) - FixedWC[e.op])>> >>

\* "Read a string with padded 0's at the end so that they form a stream of words":
\* whatever the lengths of strings and lists, an instruction is read from where it was
\* written, and as it was written; nothing fails but where KeepsStep names it.
ReadAsWritten ==
  (\A k \in DOMAIN source : KeepsStep(source[k])) =>
    /\ phase # "failed"
    /\ phase = "read" =>
         [k \in DOMAIN entries |-> Same(entries[k])]
           = FlattenSeq([k \in DOMAIN source |-> AsRead(source[k])])
=============================================================================
