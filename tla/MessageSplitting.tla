--------------------------- MODULE MessageSplitting ---------------------------
(***************************************************************************)
(* From a text of any length to pieces that Discord takes: ChunkMarkdown   *)
(* and SplitWords (internal/discordfmt), and splitForShow, which puts the  *)
(* first piece into an embed and the rest into messages after it.  A text  *)
(* is a sequence of characters; sizes count them, as the code counts runes.*)
(* How many of the pieces are sent is the subject of Replies.              *)
(***************************************************************************)
EXTENDS TextSplitting

CONSTANTS
    Contents,    \* texts to be shown
    Sizes        \* what a message, and an embed, may hold

ASSUME SplittingAssumption ==
    /\ Contents \subseteq Seq(Chars) /\ Sizes \subseteq Nat \ {0}

VARIABLES
    pass,        \* message, embed, or overflow: what the pieces are for
    mode,        \* idle, lines, words (within a long line), join, done
    body, size,  \* the arguments of ChunkMarkdown
    next,        \* where the next line begins; in join, the next piece
    cur,         \* the piece being packed, or joined
    rest,        \* what is left of a long line
    out          \* the pieces

VARIABLES        \* history
    asked,       \* the text to be shown
    embed,       \* its beginning, in an embed
    from,        \* where in body cur, or rest, begins
    cuts         \* where in body each piece begins and ends

splitVars == <<pass, mode, body, size, next, cur, rest, out, asked, embed, from, cuts>>
-----------------------------------------------------------------------------
SplitInit ==
    /\ pass = "message" /\ mode = "idle" /\ body = <<>> /\ size = 1 /\ next = 1
    /\ cur = <<>> /\ rest = <<>> /\ out = <<>>
    /\ asked = <<>> /\ embed = <<>> /\ from = 1 /\ cuts = <<>>

(* ChunkMarkdown is called: what is between a and b is s without the white  *)
(* space around it.                                                         *)
ChunkMarkdown(s, n) ==
    /\ \E a \in 1..(Len(s) + 1) : \E b \in (a - 1)..Len(s) :
          /\ \A i \in 1..Len(s) : i < a \/ i > b => s[i] \in White
          /\ a <= b => s[a] \notin White /\ s[b] \notin White
          /\ body' = SubSeq(s, a, b)
    /\ size' = n /\ next' = 1 /\ cur' = <<>> /\ rest' = <<>> /\ out' = <<>>
    /\ from' = 1 /\ cuts' = <<>>
    /\ mode' = IF body' = <<>> THEN "done" ELSE "lines"

Post ==
    /\ mode = "idle"
    /\ \E s \in Contents, n \in Sizes : ChunkMarkdown(s, n) /\ asked' = s
    /\ UNCHANGED <<pass, embed>>

Deliver(piece, first) ==
    /\ out' = Append(out, piece)
    /\ cuts' = Append(cuts, <<first, first + Len(piece) - 1>>)

(* The line at next ends at e. *)
LineEnds(e) ==
    /\ next <= Len(body) + 1 /\ e \in (next - 1)..Len(body)
    /\ \A k \in next..e : body[k] # Newline
    /\ e < Len(body) => body[e + 1] = Newline
(* Variant: the newline that joins the line to the piece is not counted. *)
FitsBare(e) == cur = <<>> \/ Len(cur) + (e - next + 1) <= size
Fits(e) == cur = <<>> \/ Len(cur) + 1 + (e - next + 1) <= size

(* The line at next no longer fits, or there is none. *)
Flush ==
    /\ mode = "lines" /\ cur # <<>>
    /\ next > Len(body) + 1 \/ \E e \in (next - 1)..Len(body) : LineEnds(e) /\ ~Fits(e)
    /\ \E k \in 0..Len(cur) :
          /\ k > 0 => cur[k] # Newline
          /\ \A i \in (k + 1)..Len(cur) : cur[i] = Newline
          /\ IF Blank(SubSeq(cur, 1, k)) THEN UNCHANGED <<out, cuts>>
             ELSE Deliver(SubSeq(cur, 1, k), from)
    /\ cur' = <<>>
    /\ UNCHANGED <<pass, mode, body, size, next, rest, asked, embed, from>>

AddLine ==
    /\ mode = "lines"
    /\ \E e \in (next - 1)..Len(body) :
          /\ LineEnds(e) /\ e - next + 1 <= size /\ Fits(e)
          /\ cur' = IF cur = <<>> THEN SubSeq(body, next, e)
                    ELSE cur \o <<Newline>> \o SubSeq(body, next, e)
          /\ next' = e + 2
    /\ from' = IF cur = <<>> THEN next ELSE from
    /\ UNCHANGED <<pass, mode, body, size, rest, out, asked, embed, cuts>>

(* A line longer than a piece goes to SplitWords. *)
BreakLine ==
    /\ mode = "lines" /\ cur = <<>>
    /\ \E e \in (next - 1)..Len(body) :
          /\ LineEnds(e) /\ e - next + 1 > size
          /\ rest' = SubSeq(body, next, e) /\ next' = e + 2
    /\ from' = next /\ mode' = "words"
    /\ UNCHANGED <<pass, body, size, cur, out, asked, embed, cuts>>

(* The last blank of the first window characters, if in its second half. *)
LastBlank(i, window) ==
    /\ i \in 1..window /\ rest[i] = Space /\ \A j \in (i + 1)..window : rest[j] # Space
    /\ i - 1 >= Half(size)

(* The piece ends at k, before the blanks up to skip. *)
SplitAround(i) ==
    /\ \E k \in 0..(i - 1) :
          /\ k > 0 => rest[k] # Space
          /\ \A j \in (k + 1)..(i - 1) : rest[j] = Space
          /\ Deliver(SubSeq(rest, 1, k), from)
    /\ \E skip \in i..Len(rest) :
          /\ \A j \in i..skip : rest[j] = Space
          /\ skip < Len(rest) => rest[skip + 1] # Space
          /\ rest' = SubSeq(rest, skip + 1, Len(rest)) /\ from' = from + skip
    /\ UNCHANGED <<pass, mode, body, size, next, cur, asked, embed>>

SplitAtBlank ==
    /\ mode = "words" /\ Len(rest) > size
    /\ \E i \in 1..size : LastBlank(i, size) /\ SplitAround(i)

SplitAnywhere ==
    /\ mode = "words" /\ Len(rest) > size
    /\ \A i \in 1..size : rest[i] = Space => i - 1 < Half(size)
    /\ Deliver(SubSeq(rest, 1, size), from)
    /\ rest' = SubSeq(rest, size + 1, Len(rest)) /\ from' = from + size
    /\ UNCHANGED <<pass, mode, body, size, next, cur, asked, embed>>

EndLine ==
    /\ mode = "words" /\ Len(rest) <= size
    /\ IF Blank(rest) THEN UNCHANGED <<out, cuts>> ELSE Deliver(rest, from)
    /\ rest' = <<>> /\ mode' = "lines"
    /\ UNCHANGED <<pass, body, size, next, cur, asked, embed, from>>

Finish ==
    /\ mode = "lines" /\ cur = <<>> /\ next > Len(body) + 1
    /\ mode' = "done"
    /\ UNCHANGED <<pass, body, size, next, cur, rest, out, asked, embed, from, cuts>>
-----------------------------------------------------------------------------
(* splitForShow: what does not fit into the embed goes into messages. *)
ShowRecord ==
    /\ mode = "idle" /\ pass' = "embed"
    /\ \E s \in Contents, budget \in Sizes :
          /\ asked' = s
          /\ \/ /\ Len(s) <= budget /\ embed' = s /\ mode' = "done"
                /\ UNCHANGED <<body, size, next, cur, rest, out, from, cuts>>
             \/ Len(s) > budget /\ ChunkMarkdown(s, budget) /\ embed' = <<>>

(* The first piece is the embed's, all of it if there is none; the others   *)
(* are joined.                                                              *)
ShowFirst ==
    /\ mode = "done" /\ pass = "embed"
    /\ embed' = IF out = <<>> THEN asked ELSE Head(out)
    /\ mode' = IF out = <<>> THEN mode ELSE "join"
    /\ next' = 2
    /\ UNCHANGED <<pass, body, size, cur, rest, out, asked, from, cuts>>

Join ==
    /\ mode = "join" /\ next <= Len(out)
    /\ cur' = IF next = 2 THEN out[next] ELSE cur \o <<Newline>> \o out[next]
    /\ next' = next + 1
    /\ UNCHANGED <<pass, mode, body, size, rest, out, asked, embed, from, cuts>>

Overflow ==
    /\ mode = "join" /\ next > Len(out)
    /\ pass' = "overflow" /\ \E n \in Sizes : ChunkMarkdown(cur, n)
    /\ UNCHANGED <<asked, embed>>

SplitNext ==
    \/ Post \/ ShowRecord \/ Flush \/ AddLine \/ BreakLine \/ SplitAtBlank \/ SplitAnywhere
    \/ EndLine \/ Finish \/ ShowFirst \/ Join \/ Overflow
SplitSpec == SplitInit /\ [][SplitNext]_splitVars
-----------------------------------------------------------------------------
(* A run of characters none of which is in ends, between two that are. *)
IsRun(t, a, b, ends) ==
    /\ \A k \in a..b : t[k] \notin ends
    /\ a > 1 => t[a - 1] \in ends
    /\ b < Len(t) => t[b + 1] \in ends

(* What may not be cut: a letter; a line that fits a piece, but for a blank *)
(* one; a word no longer than the half of one that is not searched.         *)
Uncut(t, n, a, b) ==
    \/ a = b /\ t[a] \notin White
    \/ IsRun(t, a, b, {Newline}) /\ b - a + 1 <= n /\ ~Blank(SubSeq(t, a, b))
    \/ IsRun(t, a, b, White) /\ b - a + 1 <= n - Half(n)

(* Each piece fits and is a part of the text, after the one before it; it   *)
(* is not blank, but at a run of white space as long as half a piece.       *)
PiecesFit(pieces, spans, t, n) ==
    /\ Len(spans) = Len(pieces)
    /\ \A i \in 1..Len(pieces) :
          /\ Len(pieces[i]) <= n /\ pieces[i] = SubSeq(t, spans[i][1], spans[i][2])
          /\ Blank(pieces[i]) => \A p \in spans[i][1]..(spans[i][1] + Half(n)) : t[p] \in White
          /\ \A j \in (i + 1)..Len(pieces) : spans[i][2] < spans[j][1]

(* What may not be cut and begins before h is in one of the pieces. *)
KeptBefore(h, spans, t, n) ==
    \A a \in 1..(h - 1) : \A b \in a..Len(t) :
       Uncut(t, n, a, b) => \E i \in 1..Len(spans) : spans[i][1] <= a /\ b <= spans[i][2]

(* "DISCARDS NOTHING", "WITHOUT cutting a line in half", "so words stay     *)
(* intact" (discordfmt.go:87-93, 140-145): whatever the text and the size,  *)
(* the pieces fit and are parts of the text in its order, none is blank,    *)
(* which Discord would refuse, but at a long run of white space, and in the *)
(* end every letter, and every line and word that may not be cut, is in one.*)
MessagesWhole ==
    /\ PiecesFit(out, cuts, body, size)
    /\ mode = "done" => KeptBefore(Len(body) + 1, cuts, body, size)

(* Every letter of a text arrives, in order, in its messages, or in the     *)
(* embed of /world show and /prep and the messages after it                 *)
(* (handlers_show.go:238-245).  The same of the passages of a session's     *)
(* notes; a truncated text fits, is marked and keeps what it can.           *)
TextArrives ==
    mode = "done" =>
        /\ AllLetters(<<embed>> \o out) = Letters(asked)
        /\ pass = "message" => NotesWhole(asked, size) /\ TruncatedFits(asked, size)
=============================================================================
