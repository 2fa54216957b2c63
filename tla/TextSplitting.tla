---------------------------- MODULE TextSplitting -----------------------------
(***************************************************************************)
(* How text is cut to fit where that is not into messages: Truncate and    *)
(* HardSplit (internal/discordfmt), and chunkNotes of the worker (passages *)
(* to embed).  A text is a sequence of characters; the size of a piece     *)
(* counts characters, as the code counts runes, but where the code takes   *)
(* an index into a string it counts bytes.                                 *)
(***************************************************************************)
EXTENDS Integers, Sequences, FiniteSets, FiniteSetsExt

CONSTANTS
    Chars,       \* characters: " " is a blank and "\n" ends a line
    Bytes        \* Bytes[c]: bytes of a character in UTF-8

Space == " "
Newline == "\n"

ASSUME TextAssumption == {Space, Newline} \subseteq Chars /\ Bytes \in [Chars -> 1..4]

Stop == "."
Ellipsis == "~"
White == {Space, Newline}
Blank(s) == \A i \in 1..Len(s) : s[i] \in White
Half(n) == n \div 2

UpTo(s, i) == SubSeq(s, 1, i)
ByteLen(s) == Cardinality({at \in (1..Len(s)) \X (1..4) : at[2] <= Bytes[s[at[1]]]})
From(s, i) == SubSeq(s, i, Len(s))
Inked(s) == {i \in 1..Len(s) : s[i] \notin White}
TrimRight(s) == UpTo(s, Max({0} \cup Inked(s)))
TrimLeft(s) == From(s, Min({Len(s) + 1} \cup Inked(s)))
TrimSpace(s) == TrimLeft(TrimRight(s))
-----------------------------------------------------------------------------
(* Truncate: cut after the last sentence of what fits, or at its last white *)
(* space, unless that would give up too much: but what is left is counted   *)
(* in bytes (LastIndex), and what fits in characters.  lastSentenceEnd sees *)
(* only an end with something after it: its loop never leaves -1 behind.    *)
SentenceEnd(s) == Max({0} \cup {i \in 1..(Len(s) - 1) : s[i] = Stop /\ s[i + 1] \in White})
LastWhite(s) == Max({0} \cup {i \in 1..Len(s) : s[i] \in White})
Truncate(s, max) ==
    IF max = 0 THEN <<>>
    ELSE IF Len(s) <= max THEN s
    ELSE LET cut == UpTo(s, max - 1)
             toSentence == UpTo(cut, SentenceEnd(cut))
             toWhite == UpTo(cut, LastWhite(cut) - 1)
             minKeep == Half(max - 1)
         IN  IF ByteLen(toSentence) > minKeep THEN toSentence \o <<Ellipsis>>
             ELSE IF ByteLen(toWhite) > minKeep THEN TrimRight(toWhite) \o <<Ellipsis>>
             ELSE cut \o <<Ellipsis>>

HardSplit(s, size) ==
    [i \in 1..((Len(s) + size - 1) \div size) |->
        SubSeq(s, (i - 1) * size + 1, Min({i * size, Len(s)}))]
-----------------------------------------------------------------------------
(* chunkNotes packs paragraphs; one that fits no passage is split anywhere. *)
(* A paragraph ends at the next two newlines: at is where the next begins,  *)
(* cur the passage being packed.                                            *)
ParagraphEnd(s, a) ==
    Min({Len(s)} \cup {e \in (a - 1)..(Len(s) - 2) : s[e + 1] = Newline /\ s[e + 2] = Newline})

FlushedNotes(b) ==
    IF b.cur = <<>> THEN b
    ELSE [at |-> b.at, out |-> Append(b.out, TrimSpace(b.cur)), cur |-> <<>>]
(* Variant: the blank line between two paragraphs is not counted. *)
CrowdsNotes(b, para, max) == b.cur # <<>> /\ Len(b.cur) + Len(para) > max
NotesFull(b, para, max) == b.cur # <<>> /\ Len(b.cur) + Len(para) + 2 > max
AddParagraph(b, para, max) ==
    IF para = <<>> THEN b
    ELSE IF Len(para) > max
    THEN LET f == FlushedNotes(b)
             pieces == HardSplit(para, max)
         IN  [f EXCEPT !.out = @ \o [i \in 1..Len(pieces) |-> TrimSpace(pieces[i])]]
    ELSE LET f == IF NotesFull(b, para, max) THEN FlushedNotes(b) ELSE b
         IN  [f EXCEPT !.cur = IF @ = <<>> THEN para ELSE @ \o <<Newline, Newline>> \o para]

NextParagraph(b, s, max) ==
    IF b.at > Len(s) + 1 THEN b
    ELSE LET e == ParagraphEnd(s, b.at)
         IN  [AddParagraph(b, TrimSpace(SubSeq(s, b.at, e)), max) EXCEPT !.at = e + 3]
ChunkNotes(notes, max) ==
    LET s == TrimSpace(notes)
        packed[n \in 0..(Len(s) + 1)] ==
            IF n = 0 THEN [at |-> 1, out |-> <<>>, cur |-> <<>>]
            ELSE NextParagraph(packed[n - 1], s, max)
    IN  FlushedNotes(packed[Len(s) + 1]).out
-----------------------------------------------------------------------------
Flat(parts) ==
    LET all[n \in 0..Len(parts)] == IF n = 0 THEN <<>> ELSE all[n - 1] \o parts[n]
    IN  all[Len(parts)]
Letters(s) == Flat([i \in 1..Len(s) |-> IF s[i] \in White THEN <<>> ELSE <<s[i]>>])
AllLetters(pieces) == Flat([i \in 1..Len(pieces) |-> Letters(pieces[i])])

(* The passages of a session's notes hold every letter, in order, and fit. *)
NotesWhole(s, max) ==
    LET out == ChunkNotes(s, max)
    IN  AllLetters(out) = Letters(s) /\ \A i \in 1..Len(out) : Len(out[i]) <= max

(* A truncated text fits, is marked, and is a beginning; but for the white  *)
(* space at its end, its bytes outnumber half of the characters that fit;   *)
(* and it ends at the end of a word, if that leaves as much.                *)
TruncatedFits(s, max) ==
    LET t == Truncate(s, max)
        kept == Len(t) - 1
        Enough(i) == ByteLen(UpTo(s, i)) > Half(max - 1)
    IN  \/ t = s
        \/ /\ Len(t) <= max /\ t = UpTo(s, kept) \o <<Ellipsis>>
           /\ \E end \in kept..(max - 1) :
                 /\ \A i \in (kept + 1)..end : s[i] \in White
                 /\ end = max - 1 \/ Enough(end)
           /\ (\E i \in 1..(max - 1) : s[i] \in White /\ Enough(i - 1)) => s[kept + 1] \in White

(* What the comment at discordfmt.go:58 promises, and the code keeps of     *)
(* texts of one byte a character only: of the characters that fit, at least *)
(* half are kept or are white space.                                        *)
KeepsHalf(s, max) ==
    LET t == Truncate(s, max)
    IN  t = s \/ \A i \in Len(t)..Half(max - 1) : s[i] \in White
=============================================================================
