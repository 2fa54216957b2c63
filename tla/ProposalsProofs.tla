--------------------------- MODULE ProposalsProofs ---------------------------
(***************************************************************************)
(* Theorems about Proposals, for any number of records, proposals,         *)
(* reviewers, members and extraction jobs: what is canon was approved, a   *)
(* decision is applied once and final, what waits for review is of one     *)
(* extraction, and nothing written is lost but to a stale reader.          *)
(***************************************************************************)
EXTENDS Proposals, TLAPS

Reviewing ==
    [pc : {"claimed"}, p : ProposalIds]
    \cup [pc : {"resolved"}, p : ProposalIds, name : Names, seen : Record]
Writing ==
    [pc : {"open"}, name : Names, seen : Record]
    \cup [pc : {"saving"}, name : Names, seen : Record, facts : SUBSET Fact]
Known == [Names -> Ids \cup {NoId}]
Extracting ==
    [pc : {"asking"}, known : Known]
    \cup [pc : {"replacing"}, known : Known, doomed : SUBSET ProposalIds]

Canon == canon \in [Names -> Record] /\ rows \in 0..MaxRows
Table == proposal \in [ProposalIds -> Row \cup {NoRow}] /\ applied \in [ProposalIds -> Nat]
Places ==
    /\ review \in [Reviewers -> {Idle} \cup Reviewing]
    /\ form \in [Members -> {Idle} \cup Writing]
    /\ extraction \in [Extractions -> {Idle} \cup Extracting]
Noted == crowded \subseteq Extractions /\ fresh \subseteq ProposalIds
ForeignKey == \A p \in ProposalIds : proposal[p] # NoRow => Exists(proposal[p].link)

(* A row that an approval has claimed is pending, and no other has it. *)
Locks ==
    /\ \A r \in Reviewers : review[r] # Idle => proposal[review[r].p].status = "pending"
    /\ \A r, s \in Reviewers : review[r] # Idle /\ review[s] # Idle /\ review[r].p = review[s].p => r = s

(* What was approved vouches for the details in a description, also in one  *)
(* that a reviewer or a member has read.                                    *)
VouchedIn(prop, facts) ==
    \A d \in facts \cap Detail : prop[d[1]].status = "approved" /\ prop[d[1]].text = d[2]
Vouched(facts) == VouchedIn(proposal, facts)
SeenVouched ==
    /\ \A r \in Reviewers : review[r].pc = "resolved" => Vouched(review[r].seen.facts)
    /\ \A m \in Members : form[m].pc \in {"open", "saving"} => Vouched(form[m].seen.facts)
    /\ \A m \in Members : form[m].pc = "saving" => Vouched(form[m].facts)

(* What is not there says nothing, and a form keeps what it was filled in   *)
(* with.                                                                    *)
RecordsKept ==
    /\ \A n \in Names : canon[n].id = NoId => canon[n] = Missing
    /\ written \subseteq [fact : Fact, name : Names] /\ raced \subseteq Names
FormsKept ==
    \A m \in Members : form[m].pc = "saving" =>
        form[m].seen.facts \subseteq form[m].facts /\ m \in form[m].facts

(* A job that replaces alone deletes everything that is pending. *)
Batches ==
    /\ \A x \in Extractions : extraction[x].pc = "replacing" /\ x \notin crowded =>
          Pending \subseteq extraction[x].doomed
    /\ \A x, y \in Extractions :
          extraction[x].pc = "replacing" /\ extraction[y].pc = "replacing" /\ x # y =>
              x \in crowded /\ y \in crowded

IInv ==
    /\ Canon /\ Table /\ Places /\ Noted /\ ForeignKey
    /\ Locks /\ AppliedOnce /\ CanonIsApproved /\ SeenVouched
    /\ RecordsKept /\ FormsKept /\ KeptUnlessStale /\ Batches /\ OneBatch
-----------------------------------------------------------------------------
LEMMA InitInv == Init => IInv
<1> SUFFICES ASSUME Init PROVE IInv
  OBVIOUS
<1>1. Canon /\ Table /\ Places /\ Noted
  BY BoundsAssumption DEF Init, Canon, Table, Places, Noted, Missing, Record
<1>2. ForeignKey /\ AppliedOnce /\ OneBatch
  BY DEF Init, ForeignKey, AppliedOnce, OneBatch, Pending, NoRow
<1>3. Locks /\ SeenVouched /\ Batches
  BY DEF Init, Locks, SeenVouched, Batches, Idle, Vouched, VouchedIn
<1>4. CanonIsApproved /\ RecordsKept /\ FormsKept /\ KeptUnlessStale
  BY DEF Init, CanonIsApproved, RecordsKept, FormsKept, KeptUnlessStale, Missing, Idle
<1> QED BY <1>1, <1>2, <1>3, <1>4 DEF IInv
-----------------------------------------------------------------------------
(* What a goroutine in a given place knows. *)
LEMMA ReviewPlace ==
    ASSUME Places, NEW r \in Reviewers
    PROVE  /\ review[r] # Idle => review[r].p \in ProposalIds
           /\ review[r].pc = "claimed" => review[r] # Idle
           /\ review[r].pc = "resolved" =>
                review[r] # Idle /\ review[r].name \in Names /\ review[r].seen \in Record
<1>1. \/ review[r] = Idle \/ review[r] \in [pc : {"claimed"}, p : ProposalIds]
      \/ review[r] \in [pc : {"resolved"}, p : ProposalIds, name : Names, seen : Record]
  BY DEF Places, Reviewing
<1>2. CASE review[r] = Idle
  BY <1>2 DEF Idle
<1>3. CASE review[r] \in [pc : {"claimed"}, p : ProposalIds]
  BY <1>3 DEF Idle
<1>4. CASE review[r] \in [pc : {"resolved"}, p : ProposalIds, name : Names, seen : Record]
  BY <1>4 DEF Idle
<1> QED BY <1>1, <1>2, <1>3, <1>4

LEMMA FormPlace ==
    ASSUME Places, NEW m \in Members
    PROVE  /\ form[m].pc \in {"open", "saving"} => form[m].name \in Names /\ form[m].seen \in Record
           /\ form[m].pc = "saving" => form[m].facts \in SUBSET Fact
           /\ form[m] # Idle => form[m].pc \in {"open", "saving"}
<1>1. \/ form[m] = Idle \/ form[m] \in [pc : {"open"}, name : Names, seen : Record]
      \/ form[m] \in [pc : {"saving"}, name : Names, seen : Record, facts : SUBSET Fact]
  BY DEF Places, Writing
<1>2. CASE form[m] = Idle
  BY <1>2 DEF Idle
<1>3. CASE form[m] \in [pc : {"open"}, name : Names, seen : Record]
  BY <1>3
<1>4. CASE form[m] \in [pc : {"saving"}, name : Names, seen : Record, facts : SUBSET Fact]
  BY <1>4
<1> QED BY <1>1, <1>2, <1>3, <1>4

LEMMA ExtractionPlace ==
    ASSUME Places, NEW x \in Extractions
    PROVE  /\ extraction[x].pc \in {"asking", "replacing"} => extraction[x].known \in Known
           /\ extraction[x].pc = "replacing" => extraction[x].doomed \in SUBSET ProposalIds
           /\ extraction[x] # Idle => extraction[x].pc \in {"asking", "replacing"}
<1>1. \/ extraction[x] = Idle \/ extraction[x] \in [pc : {"asking"}, known : Known]
      \/ extraction[x] \in [pc : {"replacing"}, known : Known, doomed : SUBSET ProposalIds]
  BY DEF Places, Extracting
<1>2. CASE extraction[x] = Idle
  BY <1>2 DEF Idle
<1>3. CASE extraction[x] \in [pc : {"asking"}, known : Known]
  BY <1>3
<1>4. CASE extraction[x] \in [pc : {"replacing"}, known : Known, doomed : SUBSET ProposalIds]
  BY <1>4
<1> QED BY <1>1, <1>2, <1>3, <1>4

(* A row with a status is a row. *)
LEMMA HasStatus ==
    ASSUME Table, NEW p \in ProposalIds,
           proposal[p].status \in Statuses \/ proposal[p] # NoRow
    PROVE  proposal[p] \in Row
BY DEF Table, NoRow, Statuses
-----------------------------------------------------------------------------
(* Decisions.  Each change of the proposals keeps their types, decides a    *)
(* row at most once and leaves decided ones as they are.                    *)
Decisions == Table /\ Locks /\ AppliedOnce
DecidedStay == \A p \in Decided : Final(p)

LEMMA RecordsStay ==
    ASSUME IInv, UNCHANGED <<proposal, review, applied>>
    PROVE  Decisions' /\ DecidedStay
BY DEF IInv, Decisions, Table, Locks, AppliedOnce, DecidedStay, Final

LEMMA ApprovedDecides ==
    ASSUME IInv, NEW r \in Reviewers, review[r] # Idle, Approved(r)
    PROVE  Decisions' /\ DecidedStay
<1>0. PICK p \in ProposalIds : p = review[r].p
  BY ReviewPlace DEF IInv
<1>1. /\ proposal' = [proposal EXCEPT ![p].status = "approved"]
      /\ applied' = [applied EXCEPT ![p] = @ + 1] /\ review' = [review EXCEPT ![r] = Idle]
  BY <1>0 DEF Approved
<1>2. proposal[p].status = "pending" /\ applied[p] = 0
  BY <1>0 DEF IInv, Locks, AppliedOnce
<1>3. proposal[p] \in Row
  BY <1>2, HasStatus DEF IInv, Statuses
<1>4. /\ proposal'[p] \in Row /\ proposal'[p].status = "approved"
      /\ \A q \in ProposalIds \ {p} : proposal'[q] = proposal[q]
  BY <1>1, <1>3 DEF IInv, Table, Row, Statuses
<1>5. applied'[p] = 1 /\ \A q \in ProposalIds \ {p} : applied'[q] = applied[q]
  BY <1>1, <1>2 DEF IInv, Table
<1>6. Table'
  BY <1>1, <1>4, <1>5 DEF IInv, Table
<1>7. AppliedOnce'
  BY <1>4, <1>5 DEF IInv, AppliedOnce
<1>8. Locks'
  <2>1. review'[r] = Idle /\ \A s \in Reviewers \ {r} : review'[s] = review[s]
    BY <1>1 DEF IInv, Places
  <2>2. ASSUME NEW s \in Reviewers, review'[s] # Idle
        PROVE  proposal'[review[s].p].status = "pending"
    <3>1. s # r /\ review[s] # Idle /\ review[s].p # p
      BY <1>0, <2>1, <2>2 DEF IInv, Locks
    <3>2. review[s].p \in ProposalIds
      BY <3>1, ReviewPlace DEF IInv
    <3> QED BY <1>4, <3>1, <3>2 DEF IInv, Locks
  <2> QED BY <2>1, <2>2 DEF IInv, Locks
<1>9. DecidedStay
  BY <1>2, <1>4 DEF DecidedStay, Final, Decided
<1> QED BY <1>6, <1>7, <1>8, <1>9 DEF Decisions

LEMMA ClaimDecides ==
    ASSUME IInv, NEW r \in Reviewers,
           \/ \E p \in ProposalIds : Claim(r, p)
           \/ Resolve(r) \/ ApproveRollsBack(r)
    PROVE  Decisions' /\ DecidedStay
<1>1. UNCHANGED <<proposal, applied>> /\ \A s \in Reviewers \ {r} : review'[s] = review[s]
  BY DEF Claim, ClaimRow, Resolve, ApproveRollsBack, shared, history, IInv, Places
<1>2. Table' /\ AppliedOnce' /\ DecidedStay
  BY <1>1 DEF IInv, Table, AppliedOnce, DecidedStay, Final
<1>3. \/ review'[r] = Idle
      \/ review[r] # Idle /\ review'[r].p = review[r].p
      \/ \E p \in ProposalIds : review'[r].p = p /\ ~Locked(p) /\ proposal[p].status = "pending"
  <2>1. CASE \E p \in ProposalIds : Claim(r, p)
    BY <2>1 DEF Claim, ClaimRow, IInv, Places
  <2>2. CASE Resolve(r)
    BY <2>2, ReviewPlace DEF Resolve, IInv, Places
  <2>3. CASE ApproveRollsBack(r)
    BY <2>3 DEF ApproveRollsBack, IInv, Places
  <2> QED BY <2>1, <2>2, <2>3
<1>4. Locks'
  BY <1>1, <1>3 DEF IInv, Locks, Locked
<1> QED BY <1>2, <1>4 DEF Decisions

LEMMA RowDecides ==
    ASSUME IInv, NEW p \in ProposalIds, RejectProposal(p) \/ UpdateProposalPatch(p)
    PROVE  Decisions' /\ DecidedStay
<1>1. /\ proposal[p].status = "pending" /\ ~Locked(p) /\ UNCHANGED <<review, applied>>
      /\ \/ proposal' = [proposal EXCEPT ![p].status = "rejected"]
         \/ \E n \in Names : proposal' = [proposal EXCEPT ![p].name = n, ![p].text = "edited"]
  BY DEF RejectProposal, UpdateProposalPatch, EditRow, Kind, Names, history
<1>2. proposal[p] \in Row
  BY <1>1, HasStatus DEF IInv, Statuses
<1>3. /\ proposal'[p] \in Row /\ proposal'[p].status # "approved"
      /\ \A q \in ProposalIds \ {p} : proposal'[q] = proposal[q]
  <2>1. CASE proposal' = [proposal EXCEPT ![p].status = "rejected"]
    BY <1>2, <2>1 DEF IInv, Table, Row, Statuses
  <2>2. CASE \E n \in Names : proposal' = [proposal EXCEPT ![p].name = n, ![p].text = "edited"]
    <3>1. PICK n \in Names : proposal' = [proposal EXCEPT ![p].name = n, ![p].text = "edited"]
      BY <2>2
    <3>2. proposal'[p] = [proposal[p] EXCEPT !.name = n, !.text = "edited"]
      BY <3>1 DEF IInv, Table
    <3>3. \A q \in ProposalIds \ {p} : proposal'[q] = proposal[q]
      BY <3>1 DEF IInv, Table
    <3> QED BY <1>1, <1>2, <3>2, <3>3 DEF Row, Texts
  <2> QED BY <1>1, <2>1, <2>2
<1>4. Table'
  <2>1. proposal' = [q \in ProposalIds |-> proposal'[q]]
    BY <1>1 DEF IInv, Table
  <2> QED BY <1>1, <1>3, <2>1 DEF IInv, Table
<1>5. AppliedOnce'
  BY <1>1, <1>3 DEF IInv, AppliedOnce
<1>6. Locks'
  <2>1. ASSUME NEW r \in Reviewers, review[r] # Idle
        PROVE  proposal'[review[r].p].status = "pending"
    <3>1. review[r].p \in ProposalIds \ {p}
      BY <1>1, <2>1, ReviewPlace DEF IInv, Locked
    <3> QED BY <1>3, <2>1, <3>1 DEF IInv, Locks
  <2> QED BY <1>1, <2>1 DEF IInv, Locks
<1>7. DecidedStay
  BY <1>1, <1>3 DEF DecidedStay, Final, Decided
<1> QED BY <1>4, <1>5, <1>6, <1>7 DEF Decisions

(* What a replacement does to each row. *)
LEMMA ReplaceRows ==
    ASSUME IInv, NEW x \in Extractions, ReplaceCommits(x)
    PROVE  \E batch \in SUBSET ProposalIds :
              /\ proposal' = [p \in ProposalIds |-> proposal'[p]]
              /\ fresh' = IF x \in crowded THEN fresh \cup batch ELSE batch
              /\ \A p \in batch :
                    /\ proposal[p] = NoRow \/ proposal[p].status = "pending"
                    /\ ~Locked(p) /\ proposal'[p] \in Row /\ proposal'[p].status = "pending"
                    /\ Exists(proposal'[p].link)
              /\ \A p \in ProposalIds \ batch :
                    \/ proposal'[p] = proposal[p] /\ p \notin extraction[x].doomed \cap Pending
                    \/ proposal'[p] = NoRow /\ proposal[p].status = "pending" /\ ~Locked(p)
<1> DEFINE gone == extraction[x].doomed \cap Pending
<1>1. /\ \A p \in extraction[x].doomed : ~Locked(p)
      /\ \E batch \in SUBSET ({p \in ProposalIds : proposal[p] = NoRow} \cup gone) :
           \E new \in [batch -> Proposed(x)] :
              /\ \A p \in batch : Exists(new[p].link)
              /\ proposal' = [p \in ProposalIds |->
                                IF p \in batch THEN new[p]
                                ELSE IF p \in gone THEN NoRow ELSE proposal[p]]
              /\ fresh' = IF x \in crowded THEN fresh \cup batch ELSE batch
  BY DEF ReplaceCommits, Replace
<1>2. PICK batch \in SUBSET ({p \in ProposalIds : proposal[p] = NoRow} \cup gone) :
           \E new \in [batch -> Proposed(x)] :
              /\ \A p \in batch : Exists(new[p].link)
              /\ proposal' = [p \in ProposalIds |->
                                IF p \in batch THEN new[p]
                                ELSE IF p \in gone THEN NoRow ELSE proposal[p]]
              /\ fresh' = IF x \in crowded THEN fresh \cup batch ELSE batch
  BY <1>1
<1>3. PICK new \in [batch -> Proposed(x)] :
              /\ \A p \in batch : Exists(new[p].link)
              /\ proposal' = [p \in ProposalIds |->
                                IF p \in batch THEN new[p]
                                ELSE IF p \in gone THEN NoRow ELSE proposal[p]]
              /\ fresh' = IF x \in crowded THEN fresh \cup batch ELSE batch
  BY <1>2
<1>4. \A row \in Proposed(x) : row \in Row /\ row.status = "pending"
  BY DEF Proposed
<1>5. gone \subseteq ProposalIds /\ \A p \in gone : proposal[p].status = "pending" /\ ~Locked(p)
  BY <1>1 DEF Pending
<1>6. \A p \in ProposalIds : proposal[p] = NoRow => ~Locked(p)
  BY DEF Locked, IInv, Locks, NoRow
<1> HIDE DEF gone
<1>7. batch \in SUBSET ProposalIds
  BY <1>5
<1>8. \A p \in batch :
         /\ proposal[p] = NoRow \/ proposal[p].status = "pending"
         /\ ~Locked(p) /\ proposal'[p] \in Row /\ proposal'[p].status = "pending"
         /\ Exists(proposal'[p].link)
  <2> SUFFICES ASSUME NEW p \in batch
               PROVE  /\ proposal[p] = NoRow \/ proposal[p].status = "pending"
                      /\ ~Locked(p) /\ proposal'[p] \in Row /\ proposal'[p].status = "pending"
                      /\ Exists(proposal'[p].link)
    OBVIOUS
  <2>1. proposal'[p] = new[p] /\ new[p] \in Proposed(x)
    BY <1>3, <1>7
  <2>2. (proposal[p] = NoRow \/ p \in gone) /\ p \in ProposalIds
    BY <1>7
  <2> QED BY <1>3, <1>4, <1>5, <1>6, <2>1, <2>2
<1>9. \A p \in ProposalIds \ batch :
         \/ proposal'[p] = proposal[p] /\ p \notin gone
         \/ proposal'[p] = NoRow /\ proposal[p].status = "pending" /\ ~Locked(p)
  BY <1>3, <1>5
<1>10. proposal' = [p \in ProposalIds |-> proposal'[p]]
  BY <1>3
<1> QED BY <1>3, <1>7, <1>8, <1>9, <1>10 DEF gone

LEMMA ReplaceDecides ==
    ASSUME IInv, NEW x \in Extractions, ReplaceCommits(x)
    PROVE  Decisions' /\ DecidedStay
<1>1. UNCHANGED <<review, applied>>
  BY DEF ReplaceCommits, Replace
<1>2. /\ proposal' = [p \in ProposalIds |-> proposal'[p]]
      /\ \A p \in ProposalIds :
            \/ proposal'[p] = proposal[p]
            \/ /\ proposal[p] = NoRow \/ proposal[p].status = "pending"
               /\ ~Locked(p)
               /\ proposal'[p] = NoRow \/ (proposal'[p] \in Row /\ proposal'[p].status = "pending")
  BY ReplaceRows
<1>3. Table'
  BY <1>1, <1>2 DEF IInv, Table
<1>4. AppliedOnce'
  BY <1>1, <1>2 DEF IInv, AppliedOnce, NoRow
<1>5. Locks'
  <2>1. ASSUME NEW r \in Reviewers, review[r] # Idle
        PROVE  proposal'[review[r].p].status = "pending"
    <3>1. review[r].p \in ProposalIds /\ Locked(review[r].p)
      BY <2>1, ReviewPlace DEF IInv, Locked
    <3> QED BY <1>2, <2>1, <3>1 DEF IInv, Locks
  <2> QED BY <1>1, <2>1 DEF IInv, Locks
<1>6. DecidedStay
  BY <1>2 DEF DecidedStay, Final, Decided, NoRow
<1> QED BY <1>3, <1>4, <1>5, <1>6 DEF Decisions

LEMMA DeleteDecides ==
    ASSUME IInv, NEW n \in Names, Delete(n)
    PROVE  Decisions' /\ DecidedStay
<1>1. /\ UNCHANGED <<review, applied>>
      /\ proposal' = [p \in ProposalIds |->
                         IF p \in Linked(canon[n].id) THEN [proposal[p] EXCEPT !.link = NoId]
                                                      ELSE proposal[p]]
  BY DEF Delete, Remove
<1>2. ASSUME NEW p \in ProposalIds
      PROVE  \/ proposal'[p] = proposal[p]
             \/ /\ proposal'[p] = [proposal[p] EXCEPT !.link = NoId]
                /\ proposal[p] \in Row /\ proposal'[p] \in Row
                /\ proposal'[p].status = proposal[p].status
  <2>1. CASE p \in Linked(canon[n].id)
    <3>1. proposal[p] \in Row
      BY <2>1, HasStatus DEF Linked, IInv
    <3> QED BY <1>1, <2>1, <3>1 DEF Row
  <2>2. CASE p \notin Linked(canon[n].id)
    BY <1>1, <2>2
  <2> QED BY <2>1, <2>2
<1>3. Table'
  <2>1. \A p \in ProposalIds : proposal'[p] \in Row \cup {NoRow}
    BY <1>2 DEF IInv, Table
  <2> QED BY <1>1, <2>1 DEF IInv, Table
<1>4. AppliedOnce'
  BY <1>1, <1>2 DEF IInv, AppliedOnce
<1>5. Locks'
  <2>1. ASSUME NEW r \in Reviewers, review[r] # Idle
        PROVE  proposal'[review[r].p].status = "pending"
    BY <1>2, <2>1, ReviewPlace DEF IInv, Locks
  <2> QED BY <1>1, <2>1 DEF IInv, Locks
<1>6. DecidedStay
  BY <1>2 DEF DecidedStay, Final, Decided
<1> QED BY <1>3, <1>4, <1>5, <1>6 DEF Decisions

LEMMA DecisionsStep ==
    ASSUME IInv, Next
    PROVE  Decisions' /\ DecidedStay
<1>1. ASSUME NEW r \in Reviewers, ApproveAppends(r) \/ ApproveCreates(r) \/ ApproveAttachesNothing(r)
      PROVE  Decisions' /\ DecidedStay
  <2>1. review[r].pc = "resolved" /\ Approved(r)
    BY <1>1 DEF ApproveAppends, ApproveUpdates, ApproveCreates, ApproveAttachesNothing
  <2> QED BY <2>1, ReviewPlace, ApprovedDecides DEF IInv
<1>2. ASSUME NEW x \in Extractions, ExtractBegin(x) \/ ReplaceStarts(x) \/ ExtractFails(x)
      PROVE  Decisions' /\ DecidedStay
  BY <1>2, RecordsStay DEF ExtractBegin, ReplaceStarts, ExtractFails, shared, history
<1>3. ASSUME NEW m \in Members,
             (\E n \in Names : OpenForm(m, n) \/ SubmitAdd(m, n)) \/ SubmitForm(m) \/ Save(m)
      PROVE  Decisions' /\ DecidedStay
  BY <1>3, RecordsStay DEF OpenForm, SubmitAdd, SubmitForm, Save, shared, history
<1> QED BY <1>1, <1>2, <1>3, ClaimDecides, RowDecides, ReplaceDecides, DeleteDecides DEF Next
-----------------------------------------------------------------------------
(* Records.  What a step does to canon, and to what was noted of it.        *)
Records == Canon /\ RecordsKept /\ CanonIsApproved /\ KeptUnlessStale
ExistsIn(c, id) == id = NoId \/ \E n \in Entities : c[n].id = id
ExistsStay == \A id : Exists(id) => Exists(id)'

(* Whatever the decided rows vouch for, they vouch for ever. *)
LEMMA StaysVouched ==
    ASSUME IInv, DecidedStay
    PROVE  \A facts : VouchedIn(proposal, facts) => VouchedIn(proposal', facts)
<1> SUFFICES ASSUME NEW facts, VouchedIn(proposal, facts), NEW d \in facts \cap Detail
             PROVE  proposal'[d[1]].status = "approved" /\ proposal'[d[1]].text = d[2]
  BY DEF VouchedIn
<1>1. d[1] \in ProposalIds /\ proposal[d[1]].status = "approved" /\ proposal[d[1]].text = d[2]
  BY DEF VouchedIn, Detail
<1>2. proposal[d[1]] \in Row
  BY <1>1, HasStatus DEF IInv, Statuses
<1>3. proposal'[d[1]] \in {proposal[d[1]], [proposal[d[1]] EXCEPT !.link = NoId]}
  BY <1>1 DEF DecidedStay, Decided, Final
<1> QED BY <1>1, <1>2, <1>3 DEF Row

LEMMA CanonStays ==
    ASSUME IInv, DecidedStay, UNCHANGED <<canon, rows, written, raced>>
    PROVE  Records' /\ ExistsStay
<1>1. CanonIsApproved'
  <2>1. \A n \in Names : VouchedIn(proposal, canon[n].facts)
    BY DEF IInv, CanonIsApproved, VouchedIn
  <2>2. \A n \in Names : VouchedIn(proposal', canon[n].facts)
    BY <2>1, StaysVouched
  <2> QED BY <2>2 DEF CanonIsApproved, VouchedIn
<1> QED BY <1>1 DEF IInv, Records, Canon, RecordsKept, KeptUnlessStale, ExistsStay, Exists

(* A record is written, by one who had read seen. *)
LEMMA CanonWritten ==
    ASSUME IInv, DecidedStay, NEW n \in Names, NEW record \in Record, NEW seen, NEW fact \in Fact,
           Put(n, record), NoteRace(n, seen), NoteWritten(fact, n), rows' \in 0..MaxRows,
           record.id # NoId, canon[n].id # NoId => record.id = canon[n].id,
           fact \in record.facts, canon[n] = seen => seen.facts \subseteq record.facts,
           VouchedIn(proposal', record.facts)
    PROVE  Records' /\ ExistsStay
<1>1. canon' = [canon EXCEPT ![n] = record] /\ canon \in [Names -> Record]
  BY DEF Put, IInv, Canon
<1>2. canon'[n] = record /\ \A k \in Names \ {n} : canon'[k] = canon[k]
  BY <1>1
<1>3. Canon'
  BY <1>1 DEF Canon
<1>4. RecordsKept'
  BY <1>2 DEF IInv, RecordsKept, NoteRace, NoteWritten
<1>5. CanonIsApproved'
  <2>1. \A k \in Names : VouchedIn(proposal, canon[k].facts)
    BY DEF IInv, CanonIsApproved, VouchedIn
  <2>2. \A k \in Names : VouchedIn(proposal', canon[k].facts)
    BY <2>1, StaysVouched
  <2>3. \A k \in Names : VouchedIn(proposal', canon'[k].facts)
    BY <1>2, <2>2
  <2> QED BY <2>3 DEF CanonIsApproved, VouchedIn
<1>6. KeptUnlessStale'
  <2>1. ASSUME NEW w \in written', w.name \notin raced'
        PROVE  w.fact \in canon'[w.name].facts
    <3>1. CASE w = [fact |-> fact, name |-> n]
      BY <1>2, <3>1
    <3>2. CASE w # [fact |-> fact, name |-> n]
      <4>1. w \in written /\ w.name \in Names /\ w.name \notin raced
        BY <2>1, <3>2 DEF NoteWritten, NoteRace, IInv, RecordsKept
      <4>2. w.fact \in canon[w.name].facts
        BY <4>1 DEF IInv, KeptUnlessStale
      <4>3. w.name = n => canon[n] = seen
        BY <2>1 DEF NoteRace
      <4> QED BY <1>2, <4>1, <4>2, <4>3
    <3> QED BY <3>1, <3>2
  <2> QED BY <2>1 DEF KeptUnlessStale
<1>7. ExistsStay
  <2>1. \A k \in Names : canon[k].id # NoId => canon'[k].id = canon[k].id
    BY <1>2
  <2> QED BY <2>1 DEF ExistsStay, Exists, Names
<1> QED BY <1>3, <1>4, <1>5, <1>6, <1>7 DEF Records

(* An approval adds its detail. *)
LEMMA DetailApproved ==
    ASSUME IInv, DecidedStay, NEW r \in Reviewers, review[r] # Idle, Approved(r)
    PROVE  /\ DetailOf(review[r].p) \in Fact
           /\ VouchedIn(proposal', {DetailOf(review[r].p)})
           /\ \A facts : VouchedIn(proposal, facts) =>
                 VouchedIn(proposal', facts \cup {DetailOf(review[r].p)})
<1>0. PICK p \in ProposalIds : p = review[r].p
  BY ReviewPlace DEF IInv
<1>1. proposal[p].status = "pending"
  BY <1>0 DEF IInv, Locks
<1>2. proposal[p] \in Row
  BY <1>1, HasStatus DEF IInv, Statuses
<1>3. proposal'[p].status = "approved" /\ proposal'[p].text = proposal[p].text
  BY <1>0, <1>2 DEF Approved, IInv, Table, Row
<1>4. DetailOf(p) = <<p, proposal[p].text>> /\ DetailOf(p) \in Fact
  BY <1>2 DEF DetailOf, Fact, Detail, Row
<1>5. VouchedIn(proposal', {DetailOf(p)})
  BY <1>3, <1>4 DEF VouchedIn
<1>6. \A facts : VouchedIn(proposal, facts) => VouchedIn(proposal', facts \cup {DetailOf(p)})
  <2>1. ASSUME NEW facts, VouchedIn(proposal, facts)
        PROVE  VouchedIn(proposal', facts \cup {DetailOf(p)})
    <3>1. VouchedIn(proposal', facts)
      BY <2>1, StaysVouched
    <3> QED BY <1>5, <3>1 DEF VouchedIn
  <2> QED BY <2>1
<1> QED BY <1>0, <1>4, <1>5, <1>6

LEMMA AppendsWrites ==
    ASSUME IInv, DecidedStay, NEW r \in Reviewers, ApproveAppends(r)
    PROVE  Records' /\ ExistsStay
<1> DEFINE n == review[r].name
           seen == review[r].seen
           detail == DetailOf(review[r].p)
           record == [seen EXCEPT !.facts = seen.facts \cup {detail}]
<1>1. /\ review[r].pc = "resolved" /\ seen.id # NoId /\ canon[n].id = seen.id
      /\ Put(n, record) /\ NoteRace(n, seen) /\ NoteWritten(detail, n)
      /\ Approved(r) /\ UNCHANGED rows
  BY DEF ApproveAppends, ApproveUpdates
<1>2. n \in Names /\ seen \in Record /\ review[r] # Idle
  BY <1>1, ReviewPlace DEF IInv
<1>3. /\ detail \in Fact
      /\ VouchedIn(proposal', seen.facts \cup {detail})
  <2>1. VouchedIn(proposal, seen.facts)
    BY <1>1 DEF IInv, SeenVouched, Vouched
  <2> QED BY <1>1, <1>2, <2>1, DetailApproved
<1>4. record \in Record /\ record.id = seen.id /\ record.facts = seen.facts \cup {detail}
  BY <1>2, <1>3 DEF Record
<1>5. rows' \in 0..MaxRows
  BY <1>1 DEF IInv, Canon
<1> HIDE DEF n, seen, detail, record
<1> QED BY <1>1, <1>2, <1>3, <1>4, <1>5, CanonWritten

LEMMA CreatesWrites ==
    ASSUME IInv, DecidedStay, NEW r \in Reviewers, ApproveCreates(r)
    PROVE  Records' /\ ExistsStay
<1> DEFINE n == review[r].name
           seen == review[r].seen
           detail == DetailOf(review[r].p)
           record == IF canon[n].id = NoId THEN [id |-> rows + 1, facts |-> {detail}]
                     ELSE [canon[n] EXCEPT !.facts = {detail}]
<1>1. /\ review[r].pc = "resolved" /\ seen.id = NoId /\ n \in Entities /\ Approved(r)
      /\ IF canon[n].id = NoId THEN Create(n, {detail}) ELSE Put(n, record) /\ UNCHANGED rows
      /\ NoteRace(n, seen) /\ NoteWritten(detail, n)
  BY DEF ApproveCreates
<1>2. n \in Names /\ seen \in Record /\ review[r] # Idle
  BY <1>1, ReviewPlace DEF IInv
<1>3. detail \in Fact /\ VouchedIn(proposal', {detail})
  BY <1>1, <1>2, DetailApproved
<1>4. rows \in Nat /\ MaxRows \in Nat /\ canon[n] \in Record
  BY <1>2, BoundsAssumption DEF IInv, Canon
<1>5. Put(n, record) /\ rows' \in 0..MaxRows /\ (canon[n].id = NoId => rows + 1 \in Ids)
  BY <1>1, <1>4 DEF Create, Ids, IInv, Canon
<1>6. /\ record \in Record /\ record.facts = {detail} /\ record.id # NoId
      /\ canon[n].id # NoId => record.id = canon[n].id
  BY <1>3, <1>4, <1>5 DEF Record, NoId
<1>7. canon[n] = seen => seen.facts = {}
  BY <1>1, <1>2 DEF IInv, RecordsKept, Missing
<1> HIDE DEF n, seen, detail, record
<1> QED BY <1>1, <1>2, <1>3, <1>5, <1>6, <1>7, CanonWritten

LEMMA SaveWrites ==
    ASSUME IInv, DecidedStay, NEW m \in Members, Save(m)
    PROVE  Records' /\ ExistsStay
<1> DEFINE n == form[m].name
           seen == form[m].seen
           facts == form[m].facts
           record == IF seen.id = NoId THEN [id |-> rows + 1, facts |-> facts]
                     ELSE [id |-> seen.id, facts |-> facts]
<1>1. CASE canon[n].id # seen.id
  BY <1>1, CanonStays DEF Save
<1>2. CASE canon[n].id = seen.id
  <2>1. /\ form[m].pc = "saving" /\ UNCHANGED proposal
        /\ IF seen.id = NoId THEN Create(n, facts) ELSE Put(n, record) /\ UNCHANGED rows
        /\ NoteRace(n, seen) /\ NoteWritten(m, n)
    BY <1>2 DEF Save
  <2>2. n \in Names /\ seen \in Record /\ facts \in SUBSET Fact
    BY <2>1, FormPlace DEF IInv
  <2>3. seen.facts \subseteq facts /\ m \in facts /\ m \in Fact
    BY <2>1 DEF IInv, FormsKept, Fact
  <2>4. VouchedIn(proposal', facts)
    BY <2>1 DEF IInv, SeenVouched, Vouched
  <2>5. rows \in Nat /\ MaxRows \in Nat
    BY BoundsAssumption DEF IInv, Canon
  <2>6. Put(n, record) /\ rows' \in 0..MaxRows /\ (seen.id = NoId => rows + 1 \in Ids)
    BY <2>1, <2>5 DEF Create, Ids, IInv, Canon
  <2>7. record \in Record /\ record.facts = facts /\ record.id # NoId
        /\ (canon[n].id # NoId => record.id = canon[n].id)
    BY <1>2, <2>2, <2>5, <2>6 DEF Record, NoId
  <2> HIDE DEF n, seen, facts, record
  <2> QED BY <2>1, <2>2, <2>3, <2>4, <2>6, <2>7, CanonWritten
<1> QED BY <1>1, <1>2

(* A record is deleted, with what was noted of it. *)
LEMMA DeleteWrites ==
    ASSUME IInv, DecidedStay, NEW n \in Names, Delete(n)
    PROVE  /\ Records'
           /\ \A id \in Ids \cup {NoId} : id # canon[n].id /\ Exists(id) => Exists(id)'
<1>1. /\ canon' = [canon EXCEPT ![n] = Missing] /\ UNCHANGED rows /\ canon[n].id # NoId
      /\ raced' = raced \ {n} /\ written' = {w \in written : w.name # n}
  BY DEF Delete, Remove, Put
<1>2. canon'[n] = Missing /\ \A k \in Names \ {n} : canon'[k] = canon[k]
  BY <1>1 DEF IInv, Canon
<1>3. Missing \in Record
  BY DEF Missing, Record
<1>4. Canon' /\ RecordsKept'
  BY <1>1, <1>2, <1>3 DEF IInv, Canon, RecordsKept
<1>5. CanonIsApproved'
  <2>1. \A k \in Names : VouchedIn(proposal, canon[k].facts)
    BY DEF IInv, CanonIsApproved, VouchedIn
  <2>2. \A k \in Names : VouchedIn(proposal', canon[k].facts)
    BY <2>1, StaysVouched
  <2>3. \A k \in Names : VouchedIn(proposal', canon'[k].facts)
    BY <1>2, <2>2 DEF Missing, VouchedIn
  <2> QED BY <2>3 DEF CanonIsApproved, VouchedIn
<1>6. KeptUnlessStale'
  BY <1>1, <1>2 DEF IInv, KeptUnlessStale, RecordsKept
<1>7. \A id \in Ids \cup {NoId} : id # canon[n].id /\ Exists(id) => Exists(id)'
  BY <1>2 DEF Exists, Names
<1> QED BY <1>4, <1>5, <1>6, <1>7 DEF Records

(* The references of the proposals to entities hold. *)
LEMMA ForeignKeyStep ==
    ASSUME IInv, Next, Table', DecidedStay
    PROVE  Records' /\ ForeignKey'
<1>1. ASSUME ExistsStay,
             \A p \in ProposalIds : proposal'[p] # NoRow =>
                 Exists(proposal'[p].link) \/ (proposal[p] # NoRow /\ proposal'[p].link = proposal[p].link)
      PROVE  ForeignKey'
  <2>1. ASSUME NEW p \in ProposalIds, proposal'[p] # NoRow PROVE ExistsIn(canon', proposal'[p].link)
    <3>1. Exists(proposal'[p].link)
      BY <1>1, <2>1 DEF IInv, ForeignKey
    <3>2. PICK id : id = proposal'[p].link
      OBVIOUS
    <3>3. Exists(id)'
      BY <1>1, <3>1, <3>2 DEF ExistsStay
    <3> QED BY <3>2, <3>3 DEF Exists, ExistsIn
  <2> QED BY <2>1 DEF ForeignKey, Exists, ExistsIn
<1>2. ASSUME NEW r \in Reviewers, ApproveAppends(r) \/ ApproveCreates(r) \/ ApproveAttachesNothing(r)
      PROVE  Records' /\ ForeignKey'
  <2>1. Records' /\ ExistsStay
    <3>1. CASE ApproveAttachesNothing(r)
      BY <3>1, CanonStays DEF ApproveAttachesNothing
    <3> QED BY <1>2, <3>1, AppendsWrites, CreatesWrites
  <2>2. Approved(r) /\ review[r].pc = "resolved"
    BY <1>2 DEF ApproveAppends, ApproveUpdates, ApproveCreates, ApproveAttachesNothing
  <2>3. PICK p \in ProposalIds : p = review[r].p
    BY <2>2, ReviewPlace DEF IInv
  <2>4. proposal' = [proposal EXCEPT ![p].status = "approved"] /\ proposal[p].status = "pending"
    BY <2>2, <2>3, ReviewPlace DEF Approved, IInv, Locks
  <2>5. proposal[p] \in Row
    BY <2>4, HasStatus DEF IInv, Statuses
  <2>6. \A q \in ProposalIds \ {p} : proposal'[q] = proposal[q]
    BY <2>4 DEF IInv, Table
  <2>7. proposal'[p].link = proposal[p].link /\ proposal[p] # NoRow
    BY <2>4, <2>5 DEF IInv, Table, Row, NoRow
  <2> QED BY <1>1, <2>1, <2>6, <2>7
<1>3. ASSUME UNCHANGED proposal, Records', ExistsStay
      PROVE  ForeignKey'
  BY <1>1, <1>3
<1>4. ASSUME NEW r \in Reviewers,
             (\E p \in ProposalIds : Claim(r, p)) \/ Resolve(r) \/ ApproveRollsBack(r)
      PROVE  Records' /\ ForeignKey'
  <2>1. UNCHANGED <<canon, rows, written, raced, proposal>>
    BY <1>4 DEF Claim, ClaimRow, Resolve, ApproveRollsBack, shared, history
  <2> QED BY <1>3, <2>1, CanonStays
<1>5. ASSUME NEW p \in ProposalIds, RejectProposal(p) \/ UpdateProposalPatch(p)
      PROVE  Records' /\ ForeignKey'
  <2>1. UNCHANGED <<canon, rows, written, raced>> /\ proposal[p].status = "pending"
    BY <1>5 DEF RejectProposal, UpdateProposalPatch, EditRow, history
  <2>2. proposal[p] \in Row
    BY <2>1, HasStatus DEF IInv, Statuses
  <2>3. \A q \in ProposalIds \ {p} : proposal'[q] = proposal[q]
    BY <1>5 DEF RejectProposal, UpdateProposalPatch, EditRow, IInv, Table
  <2>4. proposal[p] # NoRow /\ proposal'[p].link = proposal[p].link
    <3>1. CASE RejectProposal(p)
      BY <2>2, <3>1 DEF RejectProposal, IInv, Table, Row, NoRow
    <3>2. CASE UpdateProposalPatch(p)
      <4>1. PICK n \in Kind(proposal[p].name) :
               proposal' = [proposal EXCEPT ![p].name = n, ![p].text = "edited"]
        BY <3>2 DEF UpdateProposalPatch, EditRow
      <4>2. proposal'[p] = [proposal[p] EXCEPT !.name = n, !.text = "edited"]
        BY <4>1 DEF IInv, Table
      <4> QED BY <2>2, <4>2 DEF Row, NoRow
    <3> QED BY <1>5, <3>1, <3>2
  <2> QED BY <1>1, <2>1, <2>3, <2>4, CanonStays
<1>6. ASSUME NEW x \in Extractions, ExtractBegin(x) \/ ReplaceStarts(x) \/ ExtractFails(x)
      PROVE  Records' /\ ForeignKey'
  <2>1. UNCHANGED <<canon, rows, written, raced, proposal>>
    BY <1>6 DEF ExtractBegin, ReplaceStarts, ExtractFails, shared, history
  <2> QED BY <1>3, <2>1, CanonStays
<1>7. ASSUME NEW x \in Extractions, ReplaceCommits(x)
      PROVE  Records' /\ ForeignKey'
  <2>1. UNCHANGED <<canon, rows, written, raced>>
    BY <1>7 DEF ReplaceCommits, Replace
  <2>2. ASSUME NEW p \in ProposalIds, proposal'[p] # NoRow
        PROVE  Exists(proposal'[p].link) \/ (proposal[p] # NoRow /\ proposal'[p].link = proposal[p].link)
    BY <1>7, <2>2, ReplaceRows
  <2> QED BY <1>1, <2>1, <2>2, CanonStays
<1>8. ASSUME NEW m \in Members,
             (\E n \in Names : OpenForm(m, n) \/ SubmitAdd(m, n)) \/ SubmitForm(m)
      PROVE  Records' /\ ForeignKey'
  <2>1. UNCHANGED <<canon, rows, written, raced, proposal>>
    BY <1>8 DEF OpenForm, SubmitAdd, SubmitForm, shared, history
  <2> QED BY <1>3, <2>1, CanonStays
<1>9. ASSUME NEW m \in Members, Save(m)
      PROVE  Records' /\ ForeignKey'
  <2>1. UNCHANGED proposal
    BY <1>9 DEF Save
  <2> QED BY <1>3, <1>9, <2>1, SaveWrites
<1>10. ASSUME NEW n \in Names, Delete(n)
       PROVE  Records' /\ ForeignKey'
  <2>1. Records' /\ \A id \in Ids \cup {NoId} : id # canon[n].id /\ Exists(id) => Exists(id)'
    BY <1>10, DeleteWrites
  <2>2. proposal' = [p \in ProposalIds |->
                         IF p \in Linked(canon[n].id) THEN [proposal[p] EXCEPT !.link = NoId]
                                                      ELSE proposal[p]]
    BY <1>10 DEF Delete, Remove
  <2>3. ASSUME NEW p \in ProposalIds, proposal'[p] # NoRow PROVE ExistsIn(canon', proposal'[p].link)
    <3>1. CASE p \in Linked(canon[n].id)
      <4>1. proposal[p] \in Row
        BY <3>1, HasStatus DEF Linked, IInv
      <4>2. proposal'[p].link = NoId
        BY <2>2, <3>1, <4>1 DEF Row
      <4> QED BY <4>2 DEF ExistsIn
    <3>2. CASE p \notin Linked(canon[n].id)
      <4>1. proposal'[p] = proposal[p] /\ proposal[p] \in Row
        BY <2>2, <2>3, <3>2, HasStatus DEF IInv
      <4>2. PICK id \in Ids \cup {NoId} : id = proposal[p].link
        BY <4>1 DEF Row
      <4>3. id # canon[n].id /\ Exists(id)
        BY <2>3, <3>2, <4>1, <4>2 DEF Linked, IInv, ForeignKey
      <4>4. Exists(id)'
        BY <2>1, <4>3
      <4> QED BY <4>1, <4>2, <4>4 DEF Exists, ExistsIn
    <3> QED BY <3>1, <3>2
  <2> QED BY <2>1, <2>3 DEF ForeignKey, Exists, ExistsIn
<1> QED BY <1>2, <1>4, <1>5, <1>6, <1>7, <1>8, <1>9, <1>10 DEF Next
-----------------------------------------------------------------------------
(* Goroutines: where they are, and what they have read.                     *)
Hands == Places /\ SeenVouched /\ FormsKept

LEMMA HandsMove ==
    ASSUME IInv, DecidedStay, Places',
           \A r \in Reviewers :
              \/ review'[r] = review[r]
              \/ review'[r].pc = "resolved" => Vouched(review'[r].seen.facts),
           \A m \in Members :
              \/ form'[m] = form[m]
              \/ /\ form'[m].pc \in {"open", "saving"} => Vouched(form'[m].seen.facts)
                 /\ form'[m].pc = "saving" =>
                       /\ Vouched(form'[m].facts)
                       /\ form'[m].seen.facts \subseteq form'[m].facts /\ m \in form'[m].facts
    PROVE  Hands'
<1>1. \A facts : VouchedIn(proposal, facts) => VouchedIn(proposal', facts)
  BY StaysVouched
<1>2. ASSUME NEW r \in Reviewers, review'[r].pc = "resolved"
      PROVE  VouchedIn(proposal', review'[r].seen.facts)
  <2>1. VouchedIn(proposal, review'[r].seen.facts)
    BY <1>2 DEF IInv, SeenVouched, Vouched
  <2> QED BY <1>1, <2>1
<1>3. ASSUME NEW m \in Members, form'[m].pc \in {"open", "saving"}
      PROVE  VouchedIn(proposal', form'[m].seen.facts)
  <2>1. VouchedIn(proposal, form'[m].seen.facts)
    BY <1>3 DEF IInv, SeenVouched, Vouched
  <2> QED BY <1>1, <2>1
<1>4. ASSUME NEW m \in Members, form'[m].pc = "saving"
      PROVE  VouchedIn(proposal', form'[m].facts)
  <2>1. VouchedIn(proposal, form'[m].facts)
    BY <1>4 DEF IInv, SeenVouched, Vouched
  <2> QED BY <1>1, <2>1
<1>5. FormsKept'
  BY DEF IInv, FormsKept
<1> QED BY <1>2, <1>3, <1>4, <1>5 DEF Hands, SeenVouched, Vouched

(* Canon is vouched for, and so is what anyone reads of it. *)
LEMMA CanonVouched ==
    ASSUME IInv, NEW n \in Names
    PROVE  canon[n] \in Record /\ Vouched(canon[n].facts)
BY DEF IInv, Canon, CanonIsApproved, Vouched, VouchedIn

LEMMA TargetNamed ==
    ASSUME IInv, NEW p \in ProposalIds, proposal[p].status = "pending"
    PROVE  Target(p) \in Names
<1>1. proposal[p].name \in Names
  BY HasStatus DEF IInv, Statuses, Row
<1> DEFINE byId == {n \in Entities : canon[n].id # NoId /\ canon[n].id = proposal[p].link}
<1>2. byId # {} => (CHOOSE n \in byId : TRUE) \in Names
  BY DEF Names
<1> QED BY <1>1, <1>2 DEF Target

LEMMA ReviewHands ==
    ASSUME IInv, DecidedStay, NEW r \in Reviewers,
           \/ \E p \in ProposalIds : Claim(r, p)
           \/ Resolve(r) \/ ApproveAppends(r) \/ ApproveCreates(r)
           \/ ApproveAttachesNothing(r) \/ ApproveRollsBack(r)
    PROVE  Hands'
<1>1. /\ UNCHANGED <<form, extraction>> /\ review' = [s \in Reviewers |-> review'[s]]
      /\ \A s \in Reviewers \ {r} : review'[s] = review[s]
  BY DEF Claim, ClaimRow, Resolve, ApproveAppends, ApproveUpdates, ApproveCreates,
         ApproveAttachesNothing, ApproveRollsBack, Approved, IInv, Places
<1>2. /\ review'[r] \in {Idle} \cup Reviewing
      /\ review'[r].pc = "resolved" => Vouched(review'[r].seen.facts)
  <2>1. CASE \E p \in ProposalIds : Claim(r, p)
    <3>1. PICK p \in ProposalIds : review'[r] = [pc |-> "claimed", p |-> p]
      BY <2>1 DEF Claim, ClaimRow, IInv, Places
    <3> QED BY <3>1 DEF Reviewing
  <2>2. CASE Resolve(r)
    <3> DEFINE p == review[r].p
               n == Target(p)
    <3>1. review'[r] = [pc |-> "resolved", p |-> p, name |-> n, seen |-> canon[n]]
      BY <2>2 DEF Resolve, IInv, Places
    <3>2. p \in ProposalIds /\ proposal[p].status = "pending"
      BY <2>2, ReviewPlace DEF Resolve, IInv, Locks
    <3>3. n \in Names
      BY <3>2, TargetNamed
    <3>4. canon[n] \in Record /\ Vouched(canon[n].facts)
      BY <3>3, CanonVouched
    <3> HIDE DEF n, p
    <3> QED BY <3>1, <3>2, <3>3, <3>4 DEF Reviewing
  <2>3. CASE ~ Resolve(r) /\ ~ \E p \in ProposalIds : Claim(r, p)
    <3>1. review'[r] = Idle
      BY <2>3 DEF ApproveAppends, ApproveUpdates, ApproveCreates, ApproveAttachesNothing,
                  ApproveRollsBack, Approved, IInv, Places
    <3> QED BY <3>1 DEF Idle
  <2> QED BY <2>1, <2>2, <2>3
<1>3. Places'
  BY <1>1, <1>2 DEF IInv, Places
<1> QED BY <1>1, <1>2, <1>3, HandsMove

LEMMA FormHands ==
    ASSUME IInv, DecidedStay, NEW m \in Members,
           \/ \E n \in Names : OpenForm(m, n) \/ SubmitAdd(m, n)
           \/ SubmitForm(m) \/ Save(m)
    PROVE  Hands'
<1>1. /\ UNCHANGED <<review, extraction>> /\ form' = [k \in Members |-> form'[k]]
      /\ \A k \in Members \ {m} : form'[k] = form[k]
  BY DEF OpenForm, SubmitAdd, SubmitForm, Save, Saving, IInv, Places
<1>2. /\ form'[m] \in {Idle} \cup Writing
      /\ form'[m].pc \in {"open", "saving"} => Vouched(form'[m].seen.facts)
      /\ form'[m].pc = "saving" =>
            /\ Vouched(form'[m].facts)
            /\ form'[m].seen.facts \subseteq form'[m].facts /\ m \in form'[m].facts
  <2>0. m \in Fact /\ m \notin Detail
    BY MembersAssumption DEF Fact, Detail, Texts
  <2>1. ASSUME NEW n \in Names, OpenForm(m, n) PROVE <1>2!:
    <3>1. form'[m] = [pc |-> "open", name |-> n, seen |-> canon[n]]
      BY <2>1 DEF OpenForm, IInv, Places
    <3>2. canon[n] \in Record /\ Vouched(canon[n].facts)
      BY CanonVouched
    <3> QED BY <3>1, <3>2 DEF Writing
  <2>2. ASSUME NEW n \in Names, NEW seen \in Record, Vouched(seen.facts),
               form'[m] = [pc |-> "saving", name |-> n, seen |-> seen, facts |-> seen.facts \cup {m}]
        PROVE  <1>2!:
    <3>1. Vouched(seen.facts \cup {m})
      BY <2>0, <2>2 DEF Vouched, VouchedIn
    <3>2. seen.facts \cup {m} \in SUBSET Fact
      BY <2>0 DEF Record
    <3> QED BY <2>2, <3>1, <3>2 DEF Writing
  <2>3. ASSUME NEW n \in Names, SubmitAdd(m, n) PROVE <1>2!:
    <3>1. canon[n] \in Record /\ Vouched(canon[n].facts)
      BY CanonVouched
    <3>2. form'[m] = [pc |-> "saving", name |-> n, seen |-> canon[n],
                      facts |-> canon[n].facts \cup {m}]
      BY <2>3 DEF SubmitAdd, Saving, IInv, Places
    <3> QED BY <2>2, <3>1, <3>2
  <2>4. ASSUME SubmitForm(m) PROVE <1>2!:
    <3> DEFINE f == form[m]
               seen == [f.seen EXCEPT !.id = canon[f.name].id]
    <3>1. f.name \in Names /\ f.seen \in Record /\ Vouched(f.seen.facts)
      BY <2>4, FormPlace DEF SubmitForm, IInv, SeenVouched
    <3>2. canon[f.name] \in Record
      BY <3>1, CanonVouched
    <3>3. seen \in Record /\ seen.facts = f.seen.facts
      BY <3>1, <3>2 DEF Record
    <3>4. form'[m] = [pc |-> "saving", name |-> f.name, seen |-> seen,
                      facts |-> seen.facts \cup {m}]
      BY <2>4, <3>3 DEF SubmitForm, Saving, IInv, Places
    <3> HIDE DEF seen
    <3> QED BY <2>2, <3>1, <3>3, <3>4
  <2>5. ASSUME Save(m) PROVE <1>2!:
    <3>1. form'[m] = Idle
      BY <2>5 DEF Save, IInv, Places
    <3> QED BY <3>1 DEF Idle
  <2> QED BY <2>1, <2>3, <2>4, <2>5
<1>3. Places'
  BY <1>1, <1>2 DEF IInv, Places
<1> QED BY <1>1, <1>2, <1>3, HandsMove

LEMMA ExtractionHands ==
    ASSUME IInv, DecidedStay, NEW x \in Extractions,
           ExtractBegin(x) \/ ReplaceStarts(x) \/ ReplaceCommits(x) \/ ExtractFails(x)
    PROVE  Hands'
<1>1. /\ UNCHANGED <<review, form>> /\ extraction' = [y \in Extractions |-> extraction'[y]]
      /\ \A y \in Extractions \ {x} : extraction'[y] = extraction[y]
  BY DEF ExtractBegin, ReplaceStarts, ReplaceCommits, Replace, ExtractFails, IInv, Places
<1>2. extraction'[x] \in {Idle} \cup Extracting
  <2>1. CASE ExtractBegin(x)
    <3>1. [n \in Names |-> canon[n].id] \in Known
      BY CanonVouched DEF Known, Record
    <3>2. extraction'[x] = [pc |-> "asking", known |-> [n \in Names |-> canon[n].id]]
      BY <2>1 DEF ExtractBegin, IInv, Places
    <3> QED BY <3>1, <3>2 DEF Extracting
  <2>2. CASE ReplaceStarts(x)
    <3>1. extraction[x].known \in Known /\ Pending \in SUBSET ProposalIds
      BY <2>2, ExtractionPlace DEF ReplaceStarts, Pending, IInv
    <3>2. extraction'[x] = [pc |-> "replacing", known |-> extraction[x].known, doomed |-> Pending]
      BY <2>2 DEF ReplaceStarts, IInv, Places
    <3> QED BY <3>1, <3>2 DEF Extracting
  <2>3. CASE ReplaceCommits(x) \/ ExtractFails(x)
    BY <2>3 DEF ReplaceCommits, Replace, ExtractFails, IInv, Places
  <2> QED BY <2>1, <2>2, <2>3
<1>3. Places'
  BY <1>1, <1>2 DEF IInv, Places
<1> QED BY <1>1, <1>3, HandsMove

LEMMA HandsStep ==
    ASSUME IInv, Next, DecidedStay
    PROVE  Hands'
<1>1. ASSUME UNCHANGED <<review, form, extraction>> PROVE Hands'
  <2>1. Places'
    BY <1>1 DEF IInv, Places
  <2> QED BY <1>1, <2>1, HandsMove
<1>2. ASSUME NEW p \in ProposalIds, RejectProposal(p) \/ UpdateProposalPatch(p) PROVE Hands'
  BY <1>1, <1>2 DEF RejectProposal, UpdateProposalPatch, EditRow
<1>3. ASSUME NEW n \in Names, Delete(n) PROVE Hands'
  BY <1>1, <1>3 DEF Delete, Remove
<1> QED BY <1>2, <1>3, ReviewHands, FormHands, ExtractionHands DEF Next
-----------------------------------------------------------------------------
(* Batches.  Only a replacement adds to what waits for review.              *)
Replacing == Noted /\ Batches /\ OneBatch

LEMMA PendingShrinks ==
    ASSUME IInv, Pending' \subseteq Pending, UNCHANGED <<crowded, fresh>>,
           \A x \in Extractions : extraction'[x].pc = "replacing" => extraction'[x] = extraction[x]
    PROVE  Replacing'
<1>1. Noted' /\ OneBatch'
  BY DEF IInv, Noted, OneBatch
<1>2. Batches'
  BY DEF IInv, Batches
<1> QED BY <1>1, <1>2 DEF Replacing

LEMMA RowsShrink ==
    ASSUME IInv, NEW p \in ProposalIds, proposal[p].status = "pending",
           \A q \in ProposalIds \ {p} : proposal'[q] = proposal[q]
    PROVE  Pending' \subseteq Pending
BY DEF Pending

LEMMA StartsReplacing ==
    ASSUME IInv, NEW x \in Extractions, ReplaceStarts(x)
    PROVE  Replacing'
<1> DEFINE others == {y \in Extractions : extraction[y].pc = "replacing"}
<1>1. /\ UNCHANGED <<proposal, fresh>> /\ extraction[x].pc = "asking"
      /\ crowded' = IF others = {} THEN crowded ELSE crowded \cup others \cup {x}
  BY DEF ReplaceStarts, shared
<1>2. /\ extraction'[x].pc = "replacing" /\ extraction'[x].doomed = Pending
      /\ \A y \in Extractions \ {x} : extraction'[y] = extraction[y]
  BY DEF ReplaceStarts, IInv, Places
<1>3. Noted' /\ OneBatch' /\ Pending' = Pending
  BY <1>1 DEF IInv, Noted, OneBatch, Pending
<1>4. Batches'
  <2>1. ASSUME NEW y \in Extractions, extraction'[y].pc = "replacing", y \notin crowded'
        PROVE  Pending \subseteq extraction'[y].doomed
    BY <1>1, <1>2, <2>1 DEF IInv, Batches
  <2>2. ASSUME NEW y \in Extractions, NEW z \in Extractions, y # z,
               extraction'[y].pc = "replacing", extraction'[z].pc = "replacing"
        PROVE  y \in crowded' /\ z \in crowded'
    <3>1. others # {} /\ y \in others \cup {x} /\ z \in others \cup {x}
      BY <1>2, <2>2
    <3> QED BY <1>1, <3>1
  <2> QED BY <1>3, <2>1, <2>2 DEF Batches
<1> QED BY <1>3, <1>4 DEF Replacing

LEMMA CommitsReplacing ==
    ASSUME IInv, NEW x \in Extractions, ReplaceCommits(x)
    PROVE  Replacing'
<1>1. extraction[x].pc = "replacing" /\ crowded' = crowded \ {x}
  BY DEF ReplaceCommits, Replace
<1>2. extraction'[x] = Idle /\ \A y \in Extractions \ {x} : extraction'[y] = extraction[y]
  BY DEF ReplaceCommits, Replace, IInv, Places
<1>3. PICK batch \in SUBSET ProposalIds :
         /\ fresh' = IF x \in crowded THEN fresh \cup batch ELSE batch
         /\ \A p \in ProposalIds \ batch :
               \/ proposal'[p] = proposal[p] /\ p \notin extraction[x].doomed \cap Pending
               \/ proposal'[p] = NoRow
  BY ReplaceRows
<1>4. \A p \in Pending' \ batch : p \in Pending /\ p \notin extraction[x].doomed
  BY <1>3 DEF Pending, NoRow
<1>5. Noted' /\ OneBatch'
  <2>1. CASE x \in crowded
    BY <1>1, <1>3, <1>4, <2>1 DEF IInv, Noted, OneBatch
  <2>2. CASE x \notin crowded
    <3>1. Pending \subseteq extraction[x].doomed
      BY <1>1, <2>2 DEF IInv, Batches
    <3> QED BY <1>1, <1>3, <1>4, <2>2, <3>1 DEF IInv, Noted, OneBatch
  <2> QED BY <2>1, <2>2
<1>6. \A y \in Extractions : extraction'[y].pc = "replacing" =>
         y # x /\ extraction[y].pc = "replacing" /\ y \in crowded'
  <2>1. ASSUME NEW y \in Extractions, extraction'[y].pc = "replacing"
        PROVE  y # x /\ extraction[y].pc = "replacing"
    BY <1>2, <2>1 DEF Idle
  <2> QED BY <1>1, <2>1 DEF IInv, Batches
<1>7. Batches'
  BY <1>6 DEF Batches
<1> QED BY <1>5, <1>7 DEF Replacing

LEMMA FailsReplacing ==
    ASSUME IInv, NEW x \in Extractions, ExtractFails(x)
    PROVE  Replacing'
<1>1. UNCHANGED <<proposal, fresh>> /\ crowded' = crowded \ {x}
  BY DEF ExtractFails, shared
<1>2. extraction'[x] = Idle /\ \A y \in Extractions \ {x} : extraction'[y] = extraction[y]
  BY DEF ExtractFails, IInv, Places
<1>3. Noted' /\ OneBatch' /\ Pending' = Pending
  BY <1>1 DEF IInv, Noted, OneBatch, Pending
<1>4. \A y \in Extractions : extraction'[y].pc = "replacing" => y # x /\ extraction'[y] = extraction[y]
  BY <1>2 DEF Idle
<1>5. Batches'
  BY <1>1, <1>3, <1>4 DEF IInv, Batches
<1> QED BY <1>3, <1>5 DEF Replacing

LEMMA ReplacingStep ==
    ASSUME IInv, Next
    PROVE  Replacing'
<1>1. ASSUME UNCHANGED <<proposal, extraction, crowded, fresh>> PROVE Replacing'
  BY <1>1, PendingShrinks DEF Pending
<1>2. ASSUME NEW r \in Reviewers, ApproveAppends(r) \/ ApproveCreates(r) \/ ApproveAttachesNothing(r)
      PROVE  Replacing'
  <2>1. Approved(r) /\ review[r].pc = "resolved"
    BY <1>2 DEF ApproveAppends, ApproveUpdates, ApproveCreates, ApproveAttachesNothing
  <2>2. PICK p \in ProposalIds : p = review[r].p
    BY <2>1, ReviewPlace DEF IInv
  <2>3. proposal[p].status = "pending"
    BY <2>1, <2>2, ReviewPlace DEF IInv, Locks
  <2>4. /\ \A q \in ProposalIds \ {p} : proposal'[q] = proposal[q]
        /\ UNCHANGED <<extraction, crowded, fresh>>
    BY <2>1, <2>2 DEF Approved, IInv, Table
  <2> QED BY <2>3, <2>4, RowsShrink, PendingShrinks
<1>3. ASSUME NEW r \in Reviewers,
             (\E p \in ProposalIds : Claim(r, p)) \/ Resolve(r) \/ ApproveRollsBack(r)
      PROVE  Replacing'
  BY <1>1, <1>3 DEF Claim, ClaimRow, Resolve, ApproveRollsBack, shared, history
<1>4. ASSUME NEW p \in ProposalIds, RejectProposal(p) \/ UpdateProposalPatch(p) PROVE Replacing'
  <2>1. /\ proposal[p].status = "pending" /\ UNCHANGED <<extraction, crowded, fresh>>
        /\ \A q \in ProposalIds \ {p} : proposal'[q] = proposal[q]
    BY <1>4 DEF RejectProposal, UpdateProposalPatch, EditRow, history, IInv, Table
  <2> QED BY <2>1, RowsShrink, PendingShrinks
<1>5. ASSUME NEW x \in Extractions, ExtractBegin(x) PROVE Replacing'
  <2>1. /\ UNCHANGED <<proposal, crowded, fresh>> /\ extraction'[x].pc = "asking"
        /\ \A y \in Extractions \ {x} : extraction'[y] = extraction[y]
    BY <1>5 DEF ExtractBegin, shared, history, IInv, Places
  <2> QED BY <2>1, PendingShrinks DEF Pending
<1>6. ASSUME NEW m \in Members,
             (\E n \in Names : OpenForm(m, n) \/ SubmitAdd(m, n)) \/ SubmitForm(m) \/ Save(m)
      PROVE  Replacing'
  BY <1>1, <1>6 DEF OpenForm, SubmitAdd, SubmitForm, Save, shared, history
<1>7. ASSUME NEW n \in Names, Delete(n) PROVE Replacing'
  <2>1. /\ UNCHANGED <<extraction, crowded, fresh>>
        /\ proposal' = [p \in ProposalIds |->
                           IF p \in Linked(canon[n].id) THEN [proposal[p] EXCEPT !.link = NoId]
                                                        ELSE proposal[p]]
    BY <1>7 DEF Delete, Remove
  <2>2. ASSUME NEW p \in ProposalIds, proposal'[p].status = "pending"
        PROVE  proposal[p].status = "pending"
    <3>1. CASE p \in Linked(canon[n].id)
      <4>1. proposal[p] \in Row
        BY <3>1, HasStatus DEF Linked, IInv
      <4> QED BY <2>1, <2>2, <3>1, <4>1 DEF Row
    <3> QED BY <2>1, <2>2, <3>1
  <2> QED BY <2>1, <2>2, PendingShrinks DEF Pending
<1> QED
  BY <1>2, <1>3, <1>4, <1>5, <1>6, <1>7, StartsReplacing, CommitsReplacing, FailsReplacing DEF Next
-----------------------------------------------------------------------------
LEMMA StepInv ==
    ASSUME IInv, [Next]_vars
    PROVE  IInv' /\ DecidedStay
<1>1. CASE Next
  <2>1. Decisions' /\ DecidedStay
    BY <1>1, DecisionsStep
  <2>2. Records' /\ ForeignKey'
    BY <1>1, <2>1, ForeignKeyStep DEF Decisions
  <2>3. Hands' /\ Replacing'
    BY <1>1, <2>1, HandsStep, ReplacingStep
  <2> QED BY <2>1, <2>2, <2>3 DEF IInv, Decisions, Records, Hands, Replacing
<1>2. CASE UNCHANGED vars
  <2>1. Decisions' /\ DecidedStay
    BY <1>2, RecordsStay DEF vars, shared, history
  <2>2. Records' /\ ForeignKey'
    <3>1. Records'
      BY <1>2, <2>1, CanonStays DEF vars, shared, history
    <3> QED BY <1>2, <3>1 DEF vars, shared, IInv, ForeignKey, Exists
  <2>3. Hands'
    <3>1. Places'
      BY <1>2 DEF vars, IInv, Places
    <3> QED BY <1>2, <2>1, <3>1, HandsMove DEF vars
  <2>4. Replacing'
    BY <1>2, PendingShrinks DEF vars, shared, history, Pending
  <2> QED BY <2>1, <2>2, <2>3, <2>4 DEF IInv, Decisions, Records, Hands, Replacing
<1> QED BY <1>1, <1>2

LEMMA Invariant == Spec => []IInv
<1>1. IInv /\ [Next]_vars => IInv'
  BY StepInv
<1> QED BY <1>1, InitInv, PTL DEF Spec

(* Every variable keeps its type, and no proposal refers to an entity that  *)
(* was deleted: DeleteWorldEntity (store_world.go) sets those references to *)
(* NULL, and a replacement inserts none.                                    *)
THEOREM TypesHold == Spec => []TypeOK
<1>1. IInv => TypeOK
  <2> SUFFICES ASSUME IInv PROVE TypeOK
    OBVIOUS
  <2>1. \A r \in Reviewers : review[r] # Idle =>
          /\ review[r].p \in ProposalIds
          /\ review[r].pc = "resolved" => review[r].name \in Names /\ review[r].seen \in Record
    BY ReviewPlace DEF IInv
  <2>2. \A m \in Members : form[m] # Idle => form[m].name \in Names /\ form[m].seen \in Record
    BY FormPlace DEF IInv
  <2>3. \A x \in Extractions : extraction[x] # Idle =>
          extraction[x].known \in [Names -> Ids \cup {NoId}]
    BY ExtractionPlace DEF IInv, Known
  <2> QED BY <2>1, <2>2, <2>3 DEF IInv, TypeOK, Canon, Table, ForeignKey, Noted, RecordsKept
<1> QED BY <1>1, Invariant, PTL

(* ApproveProposal and the forms together: no detail is canon that a DM did *)
(* not approve, in the text that was approved.                              *)
THEOREM NothingUnapproved == Spec => []CanonIsApproved
<1>1. IInv => CanonIsApproved
  BY DEF IInv
<1> QED BY <1>1, Invariant, PTL

(* The conditional UPDATE of ApproveProposal lets one of many approvals     *)
(* through, and a row it marks approved was applied.                        *)
THEOREM AppliedExactlyOnce == Spec => []AppliedOnce
<1>1. IInv => AppliedOnce
  BY DEF IInv
<1> QED BY <1>1, Invariant, PTL

(* Whoever reads, edits, replaces or deletes: a decided row stays decided,  *)
(* with the name and the text it was decided with.                          *)
THEOREM DecisionsAreFinal == Spec => DecisionFinal
<1>1. IInv /\ [Next]_vars => [\A p \in Decided : Final(p)]_vars
  BY StepInv DEF DecidedStay
<1> QED BY <1>1, Invariant, PTL DEF Spec, DecisionFinal

(* A detail that was written leaves a record only with a write by one who   *)
(* had read an older description of it, or with the record.                 *)
THEOREM OnlyStaleWritesLose == Spec => []KeptUnlessStale
<1>1. IInv => KeptUnlessStale
  BY DEF IInv
<1> QED BY <1>1, Invariant, PTL

(* ReplacePendingSessionProposals leaves no pending row of an extraction    *)
(* before the last, but those of one that committed while it ran.           *)
THEOREM LastExtractionWaits == Spec => []OneBatch
<1>1. IInv => OneBatch
  BY DEF IInv
<1> QED BY <1>1, Invariant, PTL
=============================================================================
