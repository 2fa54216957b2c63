----------------------------- MODULE MCAlgorithms -----------------------------
(***************************************************************************)
(* The inputs TLC gives to the algorithms: every text up to a length, the  *)
(* chunks of a track, and every reply up to a length.                      *)
(***************************************************************************)
EXTENDS TrackSegments, MessageSplitting

CONSTANTS MaxText, MaxWritten,
          MaxContinuationRounds, MaxProposals, MaxConfidence

VARIABLE raws

Extracting == INSTANCE Extraction

Init == SplitInit /\ TrackInit /\ raws = <<>>
-----------------------------------------------------------------------------
(* No two letters of a text are equal, so that none can stand for another. *)
Glyphs == <<"a", "b", "c", "d", "e", "f", "g", "h">>
Alphabet == {Glyphs[i] : i \in 1..MaxText} \cup {" ", "\n", "."}
Utf8 == [c \in Alphabet |-> IF c \in {Glyphs[i] : i \in {1, 3, 5}} THEN 4 ELSE 1]
Texts ==
    {[i \in 1..Len(s) |-> IF s[i] = "a" THEN Glyphs[i] ELSE s[i]] :
        s \in UNION {[1..n -> {"a", " ", "\n", "."}] : n \in 0..MaxText}}
Split == stage = "idle" /\ raws = <<>> /\ SplitNext /\ UNCHANGED <<raws, trackVars>>

(* A loud frame is like no other, and its instants are told apart. *)
Frame(loud, n) ==
    [i \in 1..FrameSamples |->
        IF ~loud THEN 1
        ELSE (8 + 4 * n + 2 * ((i - 1) \div Channels)) * (IF n % 2 = 0 THEN -1 ELSE 1)]
Shapes == {<<TRUE>>, <<FALSE>>, <<TRUE, FALSE, TRUE>>, <<TRUE, TRUE, TRUE>>}
TrackChunks ==
    [n \in 1..MaxChunks |->
        {FlattenSeq([j \in 1..Len(shape) |-> Frame(shape[j], 3 * n + j)]) : shape \in Shapes}]

(* The records the model was shown, and what it may write of them: under    *)
(* another case, with an id it was shown or made up, of an entity that is   *)
(* new, of a character that is known or not, without evidence, of no kind,  *)
(* with a field of a wrong type.                                            *)
Name(folded, form) == [folded |-> folded, form |-> form]
Existing == {[id |-> "a", kind |-> "npc", name |-> Name("aria", "Aria")]}
Characters == {[kind |-> "character", name |-> Name("dara", "Dara")]}
Raw(kind, name, id, patch, explanation, evidence, confidence) ==
    [kind |-> kind, name |-> name, id |-> id, patch |-> patch,
     explanation |-> explanation, evidence |-> evidence, confidence |-> confidence,
     wrong |-> "none"]
Mistyped(raw, field) == [raw EXCEPT !.wrong = field]
Written == {
    Raw("npc", Name("aria", "Aria"), "null", [description |-> "d1"], "why", "e1", 9),
    Raw("npc", Name("aria", "aria"), "null", [role |-> "r1"], "why", "e2", 12),
    Raw("npc", Name("boro", "Boro"), "a", [description |-> "d2", members |-> "m1"], "", "e1", 1),
    Raw("npc", Name("boro", "Boro"), "z", [role |-> "r2", members |-> "m2"], "how", "e3", -1),
    Raw("npc", Name("boro", "boro"), "null", [role |-> "r2"], "", "e3", 5),
    Mistyped(Raw("npc", Name("boro", "Boro"), "null", [role |-> "r2"], "", "e3", 5), "name"),
    Mistyped(Raw("npc", Name("aria", "Aria"), "null", [role |-> "r1"], "", "e2", 5), "confidence"),
    Raw("character", Name("dara", "dara"), "a",
        [description |-> "d3", role |-> "r3", members |-> "m3"], "", "e4", 3),
    Raw("character", Name("aria", "Aria"), "null", [description |-> "d4"], "", "e4", 3),
    Raw("npc", Name("cleo", "Cleo"), "null", [description |-> "d4"], "", "", 3),
    Raw("item", Name("cleo", "Cleo"), "null", [description |-> "d4"], "", "e1", 3)}
GrowReply ==
    /\ Len(raws) < MaxWritten /\ mode = "idle" /\ stage = "idle"
    /\ \E raw \in Written : raws' = Append(raws, raw)
    /\ UNCHANGED <<splitVars, trackVars>>

Transcribe == mode = "idle" /\ raws = <<>> /\ TrackNext /\ UNCHANGED <<raws, splitVars>>

Next == Split \/ GrowReply \/ Transcribe
Spec == Init /\ [][Next]_<<splitVars, raws, trackVars>>
-----------------------------------------------------------------------------
(* A reply that is cut anywhere yields exactly the proposals it finished,   *)
(* unless a field of a wrong type loses all of them; what a batch says      *)
(* under one kind and name becomes one proposal that keeps all of it (one   *)
(* id under two names stays two), and the gates drop only what they mean to *)
(* (extract.go:75-397, filter.go:11-83, chat.go:22-72).  A cut before the   *)
(* last proposal begins is one of a shorter reply.                          *)
Prose == <<"x", "[">>
Answer == Prose \o Extracting!Document(raws) \o <<"}", "x">>
ExtractionKeeps ==
    mode = "idle" /\ stage = "idle" =>
    /\ \A cut \in (IF raws = <<>> THEN 0 ELSE Len(Extracting!Document(Front(raws))))..Len(Answer) :
          Extracting!Salvaged(SubSeq(Answer, 1, cut), Prose, raws, Existing, Characters)
    /\ \A maxTokens \in 1..10 : Extracting!Continued(Answer, maxTokens)
    /\ (\A i \in DOMAIN raws : Extracting!WellTyped(raws[i])) =>
       /\ Extracting!BatchSound(raws, Existing, Characters)
       /\ \A min \in {0, 3}, critic, parsed \in BOOLEAN, keep \in SUBSET (1..(MaxProposals + 1)) :
             Extracting!GatesFailOpen(raws, Existing, Characters, min, critic, parsed, keep)
=============================================================================
