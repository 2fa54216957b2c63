----------------------------- MODULE Proposals ------------------------------
(***************************************************************************)
(* How derived information becomes campaign canon: extraction jobs         *)
(* (internal/worker/extract.go) propose details of a session, DMs edit,    *)
(* approve or reject them (handlers_review.go, store_proposals.go), and    *)
(* members write the same records by hand (handlers_entity_modals.go,      *)
(* handlers_world.go, store_world.go).                                     *)
(*                                                                         *)
(* PostgreSQL runs at READ COMMITTED: a SELECT sees what is committed and  *)
(* locks nothing; an UPDATE or DELETE waits for the transaction that holds *)
(* the row and then tests its WHERE again.  A transaction's writes are     *)
(* therefore made in the step that commits it, and the proposal an         *)
(* approval has claimed is locked until then.                              *)
(*                                                                         *)
(* A description is the set of details in it; an empty one and the JSON    *)
(* metadata, which the database merges key by key, are left out.           *)
(***************************************************************************)
EXTENDS Naturals, FiniteSets

CONSTANTS
    Entities,      \* names of world entities, of one kind and campaign
    Characters,    \* names of player characters
    ProposalIds,   \* rows of state_proposals of one session
    Reviewers,     \* approvals that may run at once
    Members,       \* forms of /world and /character open at once
    Extractions,   \* extraction jobs of the session that may run at once
    MaxBusy,       \* bound: approvals, jobs and forms under way at once
    MaxRows        \* bound: records created

ASSUME NamesAssumption == Entities \cap Characters = {}
ASSUME MembersAssumption == Members \cap (ProposalIds \X {"extracted", "edited"}) = {}
ASSUME BoundsAssumption == MaxBusy \in Nat /\ MaxRows \in Nat

VARIABLES
    canon,         \* canon[n]: the record of that name
    rows,          \* how many records have been created
    proposal,      \* proposal[p]: a row of state_proposals
    review,        \* review[r]: where an approval is
    form,          \* form[m]: where a member's form is
    extraction     \* extraction[x]: where an extraction job is

VARIABLES          \* history
    applied,       \* applied[p]: approvals of p that were committed
    written,       \* the details written to the records that there are
    raced,         \* records whose writer had read an older description
    crowded,       \* extraction jobs that replace while another one does
    fresh          \* rows of the last replacement, and of those it overlapped

shared == <<canon, rows, proposal>>
history == <<applied, written, raced, crowded, fresh>>
vars == <<shared, review, form, extraction, history>>
-----------------------------------------------------------------------------
Names == Entities \cup Characters
Ids == 1..MaxRows
NoId == 0

Texts == {"extracted", "edited"}
Detail == ProposalIds \X Texts
Fact == Detail \cup Members

Record == [id : Ids \cup {NoId}, facts : SUBSET Fact]
Missing == [id |-> NoId, facts |-> {}]
Key == [name : Names, id : Ids]

Statuses == {"pending", "approved", "rejected"}
Row == [status : Statuses, name : Names, link : Ids \cup {NoId}, text : Texts]
NoRow == [status |-> "absent"]

Idle == [pc |-> "idle"]
Kind(n) == IF n \in Entities THEN Entities ELSE Characters

DetailOf(p) == <<p, proposal[p].text>>
Locked(p) == \E r \in Reviewers : review[r] # Idle /\ review[r].p = p
Free ==
    Cardinality({r \in Reviewers : review[r] # Idle})
        + Cardinality({m \in Members : form[m] # Idle})
        + Cardinality({x \in Extractions : extraction[x] # Idle}) < MaxBusy
Pending == {p \in ProposalIds : proposal[p].status = "pending"}
Decided == {p \in ProposalIds : proposal[p].status \in {"approved", "rejected"}}
Linked(id) == {p \in ProposalIds : proposal[p] # NoRow /\ proposal[p].link = id}

Init ==
    /\ canon = [n \in Names |-> Missing] /\ rows = 0
    /\ proposal = [p \in ProposalIds |-> NoRow]
    /\ review = [r \in Reviewers |-> Idle]
    /\ form = [m \in Members |-> Idle]
    /\ extraction = [x \in Extractions |-> Idle]
    /\ applied = [p \in ProposalIds |-> 0]
    /\ written = {} /\ raced = {} /\ crowded = {} /\ fresh = {}

(* A write over a description other than the one its writer had read. *)
NoteRace(n, seen) == raced' = IF canon[n] = seen THEN raced ELSE raced \cup {n}
NoteWritten(fact, n) ==
    written' = written \cup {[fact |-> fact, name |-> n]}

Put(n, record) == canon' = [canon EXCEPT ![n] = record]
Create(n, facts) ==
    /\ rows < MaxRows
    /\ rows' = rows + 1
    /\ Put(n, [id |-> rows + 1, facts |-> facts])
-----------------------------------------------------------------------------
ClaimRow(r, p) ==
    /\ Free /\ review[r] = Idle /\ ~Locked(p)
    /\ review' = [review EXCEPT ![r] = [pc |-> "claimed", p |-> p]]
    /\ UNCHANGED <<shared, form, extraction, history>>

(* Variant: UPDATE ... WHERE id=$1. *)
ClaimUnconditionally(r, p) == proposal[p] # NoRow /\ ClaimRow(r, p)

(* ApproveProposal: the conditional UPDATE that claims the row. *)
Claim(r, p) == proposal[p].status = "pending" /\ ClaimRow(r, p)

(* The record to change: that of the proposal's entity_id, else that of its *)
(* name, with what it says now.                                             *)
Target(p) ==
    LET byId == {n \in Entities : canon[n].id # NoId /\ canon[n].id = proposal[p].link}
    IN  IF byId # {} THEN CHOOSE n \in byId : TRUE ELSE proposal[p].name

Resolve(r) ==
    /\ review[r].pc = "claimed"
    /\ LET n == Target(review[r].p)
       IN  review' = [review EXCEPT ![r] = [pc |-> "resolved", p |-> @.p,
                                             name |-> n, seen |-> canon[n]]]
    /\ UNCHANGED <<shared, form, extraction, history>>

Approved(r) ==
    LET p == review[r].p
    IN  /\ proposal' = [proposal EXCEPT ![p].status = "approved"]
        /\ applied' = [applied EXCEPT ![p] = @ + 1]
        /\ review' = [review EXCEPT ![r] = Idle]
        /\ UNCHANGED <<form, extraction, crowded, fresh>>

ApproveUpdates(r, kept) ==
    /\ review[r].pc = "resolved" /\ review[r].seen.id # NoId
    /\ LET n == review[r].name
           seen == review[r].seen
           detail == DetailOf(review[r].p)
       IN  /\ canon[n].id = seen.id
           /\ Put(n, [seen EXCEPT !.facts = kept \cup {detail}])
           /\ NoteRace(n, seen) /\ NoteWritten(detail, n)
    /\ Approved(r)
    /\ UNCHANGED rows

(* Variant: SET description = the proposal's. *)
ApproveReplaces(r) == ApproveUpdates(r, {})

(* The record was there and still is: the detail is added to what was read. *)
ApproveAppends(r) == ApproveUpdates(r, review[r].seen.facts)

(* There was none: the entity is created, or, when another transaction      *)
(* created it first, its description is replaced (ON CONFLICT DO UPDATE).   *)
ApproveCreates(r) ==
    /\ review[r].pc = "resolved" /\ review[r].seen.id = NoId
    /\ review[r].name \in Entities
    /\ LET n == review[r].name
           detail == DetailOf(review[r].p)
       IN  /\ IF canon[n].id = NoId THEN Create(n, {detail})
              ELSE Put(n, [canon[n] EXCEPT !.facts = {detail}]) /\ UNCHANGED rows
           /\ NoteRace(n, review[r].seen) /\ NoteWritten(detail, n)
    /\ Approved(r)

(* A character that was not found, or is gone by the UPDATE, gets nothing,  *)
(* and the proposal is approved all the same.                               *)
ApproveAttachesNothing(r) ==
    /\ review[r].pc = "resolved" /\ review[r].name \in Characters
    /\ LET seen == review[r].seen IN seen.id = NoId \/ canon[review[r].name].id # seen.id
    /\ Approved(r)
    /\ UNCHANGED <<canon, rows, written, raced>>

(* A failure, a timeout, a deadlock, a dead gateway, or an entity that was  *)
(* deleted under the UPDATE: the transaction is undone.                     *)
ApproveRollsBack(r) ==
    /\ review[r] # Idle
    /\ review' = [review EXCEPT ![r] = Idle]
    /\ UNCHANGED <<shared, form, extraction, history>>

RejectProposal(p) ==
    /\ proposal[p].status = "pending" /\ ~Locked(p)
    /\ proposal' = [proposal EXCEPT ![p].status = "rejected"]
    /\ UNCHANGED <<canon, rows, review, form, extraction, history>>

EditRow(p) ==
    /\ ~Locked(p)
    /\ \E n \in Kind(proposal[p].name) :
          proposal' = [proposal EXCEPT ![p].name = n, ![p].text = "edited"]
    /\ UNCHANGED <<canon, rows, review, form, extraction, history>>

(* Variant: without AND status=$4. *)
EditDecided(p) == proposal[p] # NoRow /\ EditRow(p)

(* The Edit form of a card: name and description, not the entity_id. *)
UpdateProposalPatch(p) == proposal[p].status = "pending" /\ EditRow(p)
-----------------------------------------------------------------------------
(* handleExtractState reads the records the model is told of. *)
ExtractBegin(x) ==
    /\ Free /\ extraction[x] = Idle
    /\ extraction' = [extraction EXCEPT ![x] =
                        [pc |-> "asking", known |-> [n \in Names |-> canon[n].id]]]
    /\ UNCHANGED <<shared, review, form, history>>

(* ReplacePendingSessionProposals: the DELETE sees the rows pending now... *)
ReplaceStarts(x) ==
    /\ extraction[x].pc = "asking"
    /\ extraction' = [extraction EXCEPT ![x] =
                        [pc |-> "replacing", known |-> @.known, doomed |-> Pending]]
    /\ LET others == {y \in Extractions : extraction[y].pc = "replacing"}
       IN  crowded' = IF others = {} THEN crowded ELSE crowded \cup others \cup {x}
    /\ UNCHANGED <<shared, review, form, applied, written, raced, fresh>>

(* A proposal about a character names one that was read; one about an       *)
(* entity refers to the entity of that name or to any other that was read.  *)
Proposed(x) ==
    LET known == extraction[x].known
        entities == {known[n] : n \in Entities} \ {NoId}
    IN  {row \in Row :
            /\ row.status = "pending" /\ row.text = "extracted"
            /\ IF row.name \in Entities THEN row.link \in entities \cup {known[row.name]}
               ELSE known[row.name] # NoId /\ row.link = NoId}

Exists(id) == id = NoId \/ \E n \in Entities : canon[n].id = id

(* The transaction commits: the rows in gone are deleted and new ones       *)
(* inserted, no two of a name, whose entity_id must still be an entity's.   *)
Replace(x, gone) ==
    /\ \A p \in extraction[x].doomed : ~Locked(p)
    /\ LET free == {p \in ProposalIds : proposal[p] = NoRow} \cup gone
       IN  \E batch \in SUBSET free : \E new \in [batch -> Proposed(x)] :
              /\ \A p, q \in batch : p # q => new[p].name # new[q].name
              /\ \A p \in batch : Exists(new[p].link)
              /\ proposal' = [p \in ProposalIds |->
                                IF p \in batch THEN new[p]
                                ELSE IF p \in gone THEN NoRow ELSE proposal[p]]
              /\ fresh' = IF x \in crowded THEN fresh \cup batch ELSE batch
    /\ extraction' = [extraction EXCEPT ![x] = Idle]
    /\ crowded' = crowded \ {x}
    /\ UNCHANGED <<canon, rows, review, form, applied, written, raced>>

(* Variants: the rows are deleted by the ids read, or not at all. *)
ReplaceDecided(x) == extraction[x].pc = "replacing" /\ Replace(x, extraction[x].doomed)
ReplaceAdds(x) == extraction[x].pc = "replacing" /\ Replace(x, {})

(* ... waits for those that are claimed and skips those that were decided. *)
ReplaceCommits(x) ==
    /\ extraction[x].pc = "replacing"
    /\ Replace(x, extraction[x].doomed \cap Pending)

(* The job fails anywhere: the transaction, if any, is undone. *)
ExtractFails(x) ==
    /\ extraction[x] # Idle
    /\ extraction' = [extraction EXCEPT ![x] = Idle]
    /\ crowded' = crowded \ {x}
    /\ UNCHANGED <<shared, review, form, applied, written, raced, fresh>>
-----------------------------------------------------------------------------
Saving(m, n, record, facts) ==
    form' = [form EXCEPT ![m] = [pc |-> "saving", name |-> n, seen |-> record, facts |-> facts]]

(* /world edit and /character add show a form filled in with the record; a  *)
(* player fills in one form of a character at a time.                       *)
OpenForm(m, n) ==
    /\ Free /\ form[m] = Idle
    /\ IF n \in Entities THEN canon[n].id # NoId
       ELSE \A k \in Members : form[k] # Idle => form[k].name # n
    /\ form' = [form EXCEPT ![m] = [pc |-> "open", name |-> n, seen |-> canon[n]]]
    /\ UNCHANGED <<shared, review, extraction, history>>

(* It is submitted with a detail added: the record is looked up again, to   *)
(* be overwritten with the text of the form.                                *)
SubmitForm(m) ==
    /\ form[m].pc = "open"
    /\ LET f == form[m]
       IN  Saving(m, f.name, [f.seen EXCEPT !.id = canon[f.name].id], f.seen.facts \cup {m})
    /\ UNCHANGED <<shared, review, extraction, history>>

(* /world add is submitted: the detail goes to what the record says now. *)
SubmitAdd(m, n) ==
    /\ Free /\ form[m] = Idle /\ n \in Entities
    /\ Saving(m, n, canon[n], canon[n].facts \cup {m})
    /\ UNCHANGED <<shared, review, extraction, history>>

(* The UPDATE of the id that was looked up, or the INSERT, which the unique *)
(* index refuses when the name exists by now.                               *)
Save(m) ==
    /\ form[m].pc = "saving"
    /\ LET n == form[m].name
           seen == form[m].seen
       IN  IF canon[n].id # seen.id THEN UNCHANGED <<canon, rows, written, raced>>
           ELSE /\ IF seen.id = NoId THEN Create(n, form[m].facts)
                   ELSE Put(n, [id |-> seen.id, facts |-> form[m].facts]) /\ UNCHANGED rows
                /\ NoteRace(n, seen) /\ NoteWritten(m, n)
    /\ form' = [form EXCEPT ![m] = Idle]
    /\ UNCHANGED <<proposal, review, extraction, applied, crowded, fresh>>

Remove(n, table) ==
    /\ canon[n].id # NoId
    /\ \A p \in Linked(canon[n].id) : ~Locked(p)
    /\ Put(n, Missing)
    /\ proposal' = table
    /\ raced' = raced \ {n} /\ written' = {w \in written : w.name # n}
    /\ UNCHANGED <<rows, review, form, extraction, applied, crowded, fresh>>

(* Variant: the references stay. *)
DeleteKeepsLinks(n) == Remove(n, proposal)

(* DeleteWorldEntity and DeletePC; the foreign key of the proposals about   *)
(* an entity is set to NULL, which waits for the claimed ones.              *)
Delete(n) ==
    Remove(n, [p \in ProposalIds |->
                  IF p \in Linked(canon[n].id) THEN [proposal[p] EXCEPT !.link = NoId]
                                               ELSE proposal[p]])
-----------------------------------------------------------------------------
Next ==
    \/ \E r \in Reviewers :
          \/ \E p \in ProposalIds : Claim(r, p)
          \/ Resolve(r) \/ ApproveAppends(r) \/ ApproveCreates(r)
          \/ ApproveAttachesNothing(r) \/ ApproveRollsBack(r)
    \/ \E p \in ProposalIds : RejectProposal(p) \/ UpdateProposalPatch(p)
    \/ \E x \in Extractions :
          ExtractBegin(x) \/ ReplaceStarts(x) \/ ReplaceCommits(x) \/ ExtractFails(x)
    \/ \E m \in Members :
          \/ \E n \in Names : OpenForm(m, n) \/ SubmitAdd(m, n)
          \/ SubmitForm(m) \/ Save(m)
    \/ \E n \in Names : Delete(n)

Spec == Init /\ [][Next]_vars
-----------------------------------------------------------------------------
(* The types, and the foreign key of the proposals. *)
TypeOK ==
    /\ canon \in [Names -> Record] /\ rows \in 0..MaxRows
    /\ proposal \in [ProposalIds -> Row \cup {NoRow}]
    /\ \A p \in ProposalIds : proposal[p] # NoRow => Exists(proposal[p].link)
    /\ \A r \in Reviewers : review[r] # Idle =>
          /\ review[r].p \in ProposalIds
          /\ review[r].pc = "resolved" => review[r].name \in Names /\ review[r].seen \in Record
    /\ \A m \in Members : form[m] # Idle => form[m].name \in Names /\ form[m].seen \in Record
    /\ \A x \in Extractions : extraction[x] # Idle =>
          extraction[x].known \in [Names -> Ids \cup {NoId}]
    /\ applied \in [ProposalIds -> Nat]
    /\ crowded \subseteq Extractions /\ fresh \subseteq ProposalIds /\ raced \subseteq Names

(* No detail of a proposal is canon unless the proposal was approved, and   *)
(* what is canon is the text that was approved: no later edit, rejection or *)
(* replacement of proposals separates the two.                              *)
CanonIsApproved ==
    \A n \in Names : \A d \in canon[n].facts \cap Detail :
        proposal[d[1]].status = "approved" /\ proposal[d[1]].text = d[2]

(* However many DMs click, an approval is applied once, and every approved  *)
(* row was applied.                                                         *)
AppliedOnce ==
    \A p \in ProposalIds : applied[p] = IF proposal[p].status = "approved" THEN 1 ELSE 0

(* A decision is final: no edit, second decision, or extraction job that    *)
(* saw the row pending changes or removes it.                               *)
Final(p) ==
    proposal'[p] \in {proposal[p], [proposal[p] EXCEPT !.link = NoId]}
DecisionFinal == [][\A p \in Decided : Final(p)]_vars

(* What was written to a record, by a member or by an approval, stays in it *)
(* unless the record was written by one who had read an older description.  *)
KeptUnlessStale ==
    \A w \in written :
        w.name \notin raced => w.fact \in canon[w.name].facts

(* The proposals that wait for review come from the last extraction, and    *)
(* from those that replaced the pending rows while it did.                  *)
OneBatch == Pending \subseteq fresh

(* An approval adds to a description and never takes anything out of it:    *)
(* "never overwriting hand-written detail" (store_proposals.go:328-330).    *)
ApprovalAppends ==
    [][applied' # applied =>
          \A n \in Names : canon[n].facts \subseteq canon'[n].facts]_vars
=============================================================================
