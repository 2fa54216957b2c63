------------------------------ MODULE Extraction ------------------------------
(***************************************************************************)
(* From the model's reply to the proposals of a session: chatComplete      *)
(* (internal/worker/chat.go), Parse and the filters of internal/extract.   *)
(* A reply is a sequence of the characters that structure JSON and of      *)
(* others; a name is a record of its case-folded form and of its form.     *)
(***************************************************************************)
EXTENDS Integers, FiniteSets, Sequences, SequencesExt, FiniteSetsExt, Functions

CONSTANTS MaxContinuationRounds, MaxProposals, MaxConfidence

Missing == "" \* an absent text, or one that is blank
NoId == "null"
EntityKinds == {"npc", "location", "faction", "quest", "hook"}
From(s, i) == SubSeq(s, i, Len(s))
UpTo(s, i) == SubSeq(s, 1, i)
-----------------------------------------------------------------------------
(* The document the model is asked for (prompts.go:390-407): in each        *)
(* proposal the patch comes before the explanation, the evidence and the    *)
(* confidence.  Strings hold braces and escaped quotes; a field may be a    *)
(* list.                                                                    *)
Text(inside) == <<"quote">> \o inside \o <<"quote">>
Comma(parts) == FoldLeft(LAMBDA s, t : IF s = <<>> THEN t ELSE s \o <<",">> \o t, <<>>, parts)
FieldText(field) ==
    CASE field = "description" -> Text(<<"x">>)
      [] field = "role"        -> Text(<<"}", "escape", "quote", "{", "]">>)
      [] field = "members"     -> <<"[">> \o Text(<<"escape", "escape">>) \o <<"]">>
Fields(raw) == SelectSeq(<<"description", "role", "members">>, LAMBDA f : f \in DOMAIN raw.patch)
ObjectText(raw) ==
    <<"{">> \o Comma(
        <<Text(<<"x">>),
          <<"{">> \o Comma([i \in 1..Len(Fields(raw)) |-> FieldText(Fields(raw)[i])])
            \o <<"}">>>>
        \o IF raw.evidence = Missing THEN <<>> ELSE <<Text(<<"x">>)>>) \o <<"}">>
Document(raws) ==
    <<"{">> \o Text(<<"x">>) \o <<"[">> \o Comma([i \in 1..Len(raws) |-> ObjectText(raws[i])]) \o <<"]", "}">>

(* A field may be of a JSON type that rawProposal does not have: one before *)
(* the patch, as the name, or one after it, as the confidence.              *)
WellTyped(raw) == raw.wrong = "none"

(* What is left of a proposal whose text ends with its patch. *)
PatchOnly(raw) ==
    [raw EXCEPT !.evidence = Missing, !.explanation = Missing, !.confidence = 0,
                !.wrong = IF @ = "confidence" THEN "none" ELSE @]

(* json.Decoder: the proposals a text is the document of; a text that is no *)
(* document is an error, and so is one field of another type, whatever else *)
(* the document holds.                                                      *)
Readings(written) ==
    {UpTo(written, k) : k \in 0..Len(written)}
    \cup {Append(UpTo(written, k), PatchOnly(written[k + 1])) : k \in 0..(Len(written) - 1)}
Decodes(body, written) ==
    {raws \in Readings(written) :
        Document(raws) = body /\ \A i \in DOMAIN raws : WellTyped(raws[i])}

(* chatComplete: a reply cut at the token limit is continued; {} is an      *)
(* error, of the round fails, whatever was written before.                  *)
RECURSIVE ChatComplete(_, _, _, _, _)
ChatComplete(full, round, answer, maxTokens, fails) ==
    LET got == full \o SubSeq(answer, Len(full) + 1, Min({Len(full) + maxTokens, Len(answer)}))
    IN  IF round = fails THEN {}
        ELSE IF got = answer \/ round >= MaxContinuationRounds THEN {got}
        ELSE ChatComplete(got, round + 1, answer, maxTokens, fails)
-----------------------------------------------------------------------------
(* The delimiters outside strings, from the first brace on. *)
Scan(st, c) ==
    LET next == [st EXCEPT !.at = @ + 1]
    IN  IF st.inString
        THEN IF st.escaped THEN [next EXCEPT !.escaped = FALSE]
             ELSE [next EXCEPT !.escaped = c = "escape", !.inString = c # "quote"]
        ELSE IF c = "quote" THEN [next EXCEPT !.inString = TRUE]
        ELSE IF c \in {"{", "}", "[", "]"} THEN [next EXCEPT !.marks = Append(@, <<next.at, c>>)]
        ELSE next
Start(s) == Min({Len(s) + 1} \cup {i \in 1..Len(s) : s[i] = "{"})
Marks(s) ==
    LET scanned[i \in (Start(s) - 1)..Len(s)] ==
            IF i < Start(s) THEN [at |-> i, inString |-> FALSE, escaped |-> FALSE, marks |-> <<>>]
            ELSE Scan(scanned[i - 1], s[i])
    IN  scanned[Len(s)].marks

(* extractJSONObject: up to the brace that closes the first one. *)
Depth(marks) == Len(SelectSeq(marks, LAMBDA m : m[2] = "{")) - Len(SelectSeq(marks, LAMBDA m : m[2] = "}"))
ExtractJSONObject(s) ==
    LET marks == Marks(s)
        closing == {k \in 1..Len(marks) : marks[k][2] = "}" /\ Depth(UpTo(marks, k)) = 0}
    IN  IF closing = {} THEN {} ELSE {SubSeq(s, Start(s), marks[Min(closing)][1])}

(* repairTruncatedJSON: cut after the last nested value that was finished,  *)
(* and close what was open there.                                           *)
Opened(marks) ==
    FoldLeft(LAMBDA open, m : IF m[2] \in {"{", "["} THEN Append(open, m[2])
                              ELSE IF open = <<>> THEN open ELSE Front(open), <<>>, marks)
Closed(open) == [i \in 1..Len(open) |-> IF open[Len(open) + 1 - i] = "{" THEN "}" ELSE "]"]
Cuts(marks) == {k \in 1..Len(marks) : marks[k][2] \in {"}", "]"}}

(* Variant: what is closed is what was open at the end of the text. *)
RepairAtEnd(s) ==
    LET marks == Marks(s)
        cut == Max(Cuts(marks))
    IN  IF Cuts(marks) = {} \/ \E k \in Cuts(marks) : Opened(UpTo(marks, k)) = <<>> THEN {}
        ELSE {SubSeq(s, Start(s), marks[cut][1]) \o Closed(Opened(marks))}
RepairTruncatedJSON(s) ==
    LET marks == Marks(s)
        cut == Max(Cuts(marks))
    IN  IF Cuts(marks) = {} \/ \E k \in Cuts(marks) : Opened(UpTo(marks, k)) = <<>> THEN {}
        ELSE {SubSeq(s, Start(s), marks[cut][1]) \o Closed(Opened(UpTo(marks, cut)))}
-----------------------------------------------------------------------------
(* normalize: no proposal, or what becomes of one.  The action the model    *)
(* gave is not read.                                                        *)
WithDescription(raw) ==
    IF "description" \in DOMAIN raw.patch \/ raw.explanation = Missing THEN raw.patch
    ELSE [f \in DOMAIN raw.patch \cup {"description"} |->
             IF f = "description" THEN raw.explanation ELSE raw.patch[f]]
Named(known, kind, name) == {e \in known : e.kind = kind /\ e.name.folded = name.folded}

Normalize(raw, existing, characters) ==
    LET as(action, id, name) ==
            {[kind |-> raw.kind, name |-> name, action |-> action, id |-> id,
              patch |-> WithDescription(raw), evidence |-> <<raw.evidence>>,
              confidence |-> Min({MaxConfidence, Max({0, raw.confidence})})]}
        named == Named(existing, raw.kind, raw.name)
    IN  IF raw.evidence = Missing \/ raw.name.folded = Missing THEN {}
        ELSE IF raw.kind = "character"
        THEN UNION {as("update", NoId, pc.name) : pc \in Named(characters, "character", raw.name)}
        ELSE IF raw.kind \notin EntityKinds THEN {}
        ELSE IF \E e \in existing : e.id = raw.id THEN as("update", raw.id, raw.name)
        ELSE IF named # {} THEN UNION {as("update", e.id, e.name) : e \in named}
        ELSE as("create", NoId, raw.name)

(* mergeProposals: the more confident one, with what the other one adds. *)
Quotes(texts, others) == \E i \in 0..(Len(texts) - Len(others)) :
                               SubSeq(texts, i + 1, i + Len(others)) = others
Merged(a, b) ==
    LET base == IF b.confidence > a.confidence THEN b ELSE a
        other == IF b.confidence > a.confidence THEN a ELSE b
        both == [base EXCEPT
                   !.patch = [f \in DOMAIN base.patch \cup DOMAIN other.patch |->
                                 IF f \in DOMAIN base.patch THEN base.patch[f] ELSE other.patch[f]],
                   !.evidence = IF Quotes(@, other.evidence) THEN @ ELSE @ \o other.evidence]
    IN  IF other.action = "update" /\ base.action = "create"
        THEN [both EXCEPT !.action = "update", !.id = other.id, !.name = other.name] ELSE both

Key(p) == <<p.kind, p.name.folded>>
AddProposal(out, p) ==
    LET same == {i \in 1..Len(out) : Key(out[i]) = Key(p)}
    IN  IF same = {} THEN Append(out, p)
        ELSE [out EXCEPT ![Min(same)] = Merged(@, p)]
Proposed(raws, existing, characters) ==
    FoldLeft(LAMBDA out, raw :
                 IF Len(out) >= MaxProposals THEN out
                 ELSE FoldLeft(AddProposal, out, SetToSeq(Normalize(raw, existing, characters))),
             <<>>, raws)

(* Parse: {} is an error. *)
Bodies(reply) == IF ExtractJSONObject(reply) # {} THEN ExtractJSONObject(reply)
                 ELSE RepairTruncatedJSON(reply)
Parse(reply, written, existing, characters) ==
    {Proposed(raws, existing, characters) :
        raws \in UNION {Decodes(body, written) : body \in Bodies(reply)}}

FilterByConfidence(proposals, min) == SelectSeq(proposals, LAMBDA p : p.confidence >= min)

(* ApplyCriticKeep: the places the critic names, those that exist; an       *)
(* answer that is no object keeps all.                                      *)
ApplyCriticKeep(proposals, parsed, keep) ==
    IF ~parsed THEN proposals
    ELSE LET kept == SetToSortSeq(keep \cap 1..Len(proposals), <)
         IN  [i \in 1..Len(kept) |-> proposals[kept[i]]]

(* handleExtractState: the floor, and the critic on what it leaves, if the  *)
(* critic is on and answers; an unreadable answer is not parsed.            *)
Gated(proposals, min, critic, parsed, keep) ==
    LET floored == FilterByConfidence(proposals, min)
    IN  IF critic /\ floored # <<>> THEN ApplyCriticKeep(floored, parsed, keep) ELSE floored
-----------------------------------------------------------------------------
(* "Salvages output that was CUT OFF at the model's token limit by keeping  *)
(* the proposals that were fully written" (extract.go:82-84): wherever the  *)
(* reply ends, the proposals are those of the objects it closes, and it is  *)
(* an error only if it closes none, or if a field of them, or of the next   *)
(* one, is of a wrong type.                                                 *)
FullyWritten(reply, prose, raws) ==
    Max({0} \cup {k \in 1..Len(raws) :
        LET through == prose \o Front(Front(Document(UpTo(raws, k))))
        IN  IsPrefix(through, reply)})
Salvaged(reply, prose, raws, existing, characters) ==
    LET found == Parse(reply, raws, existing, characters)
        kept == UpTo(raws, FullyWritten(reply, prose, raws))
    IN  /\ found \subseteq {Proposed(kept, existing, characters)}
        /\ found = {} =>
              kept = <<>> \/ \E i \in 1..Min({Len(kept) + 1, Len(raws)}) : ~WellTyped(raws[i])

(* chatComplete gives the answer, or its beginning in all the rounds'       *)
(* tokens; if the call of a round it needs fails, it gives nothing, though  *)
(* earlier rounds were answered.                                            *)
Continued(answer, maxTokens) ==
    LET needed == Min({MaxContinuationRounds + 1, (Len(answer) + maxTokens - 1) \div maxTokens})
    IN  \A fails \in 0..(MaxContinuationRounds + 1) :
           ChatComplete(<<>>, 0, answer, maxTokens, fails)
               = IF fails < needed THEN {} ELSE {UpTo(answer, Min({Len(answer), needed * maxTokens}))}

(* What a batch promises (extract.go:77-96, 264): one proposal of a kind    *)
(* and a name, whatever its case; none creates what exists, or is about an  *)
(* entity the model was not shown; a character is only updated, under its   *)
(* own name.  Of each usable one, within the cap, the evidence and the      *)
(* fields arrive, the highest confidence counts, and of the most confident  *)
(* one every field.                                                         *)
BatchSound(raws, existing, characters) ==
    LET out == Proposed(raws, existing, characters)
        usable == {i \in 1..Len(raws) :
                     /\ Normalize(raws[i], existing, characters) # {}
                     /\ Len(Proposed(UpTo(raws, i - 1), existing, characters)) < MaxProposals}
        of(i) == CHOOSE p \in Normalize(raws[i], existing, characters) : TRUE
        about(p) == {i \in usable : Key(of(i)) = Key(p)}
        Best(p) == Max({of(i).confidence : i \in about(p)})
    IN  /\ Len(out) <= MaxProposals
        /\ \A i, j \in 1..Len(out) : Key(out[i]) = Key(out[j]) => i = j
        /\ \A k \in 1..Len(out) :
              LET p == out[k]
              IN  /\ p.kind = "character" => p.action = "update" /\ p.id = NoId
                                              /\ \E pc \in characters : pc.name = p.name
                  /\ p.id # NoId => \E e \in existing : e.id = p.id
                  /\ p.action = "create" => p.id = NoId /\ Named(existing, p.kind, p.name) = {}
        /\ \A i \in usable : \E k \in 1..Len(out) : i \in about(out[k])
        /\ \A k \in 1..Len(out) :
              LET p == out[k]
                  first == Min({i \in about(p) : of(i).confidence = Best(p)})
              IN  /\ p.confidence = Best(p)
                  /\ \A i \in about(p) : /\ Quotes(p.evidence, of(i).evidence)
                                        /\ DOMAIN of(i).patch \subseteq DOMAIN p.patch
                  /\ \A f \in DOMAIN of(first).patch : p.patch[f] = of(first).patch[f]

(* "Fail-open" (worker/extract.go:127, 184; filter.go:56): a proposal is     *)
(* missing only if it is below the floor, or if the critic was shown it and *)
(* an answer that could be read leaves its place out; the others keep their *)
(* order.                                                                   *)
GatesFailOpen(raws, existing, characters, min, critic, parsed, keep) ==
    LET all == Proposed(raws, existing, characters)
        shown == {i \in 1..Len(all) : all[i].confidence >= min}
        place(i) == Cardinality({j \in shown : j <= i})
        through == {i \in shown : critic /\ parsed => place(i) \in keep}
        out == Gated(all, min, critic, parsed, keep)
    IN  /\ Len(out) = Cardinality(through)
        /\ \A i \in through : out[Cardinality({j \in through : j <= i})] = all[i]
=============================================================================
