----------------------------- MODULE OfficeProofs -----------------------------
(***************************************************************************)
(* Proofs about the parts of Office beside the quote: Proposal,            *)
(* MatchCache, References, Learning and Provider, each from its own        *)
(* specification.                                                          *)
(***************************************************************************)
EXTENDS Office, QuoteProofs, SequenceTheorems

-----------------------------------------------------------------------------
(* Proposal.                                                               *)

Signatory == Estimators \cup {H!Nobody}
Doc       == [approvedBy : Signatory, totalsSnapshot : 0 .. MaxActs,
              lapsedAcknowledgedBy : Signatory, completedBy : Signatory,
              claudeArtifacts : BOOLEAN]
Signing   == [at : {"idle", "totals", "find", "approve", "complete", "route", "done",
                    "refused", "dead"},
              by : Signatory, totals : 0 .. MaxActs, stored : {"none", "draft", "approved"}]

SomeApproved == \E i \in DOMAIN proposals : proposals[i].approvedBy # H!Nobody

ProposalShape ==
  /\ proposals \in Seq(Doc)
  /\ sign \in [Signers -> Signing]
  /\ acts \in 0 .. MaxActs /\ totals \in 0 .. acts
  /\ lapsed \in BOOLEAN /\ routed \in BOOLEAN

\* Who is past the gate has a name; who is past the approval, or has found one,
\* leaves an approved proposal behind; who has found a draft finds it again,
\* since no document is ever removed.
Signed(r) ==
  /\ sign[r].at # "idle" => sign[r].by \in Estimators
  /\ sign[r].at \in {"complete", "route", "done"} => SomeApproved
  /\ sign[r].at = "approve" /\ sign[r].stored = "approved" => SomeApproved
  /\ sign[r].at = "approve" /\ sign[r].stored = "draft" => proposals # <<>>

ProposalInv == ProposalShape /\ (\A r \in Signers : Signed(r)) /\ H!RoutedIsApproved

ProposalActions ==
  \/ \E r \in Signers : \/ \E actor \in Estimators : H!Checks(r, actor)
                        \/ H!totals_for(r) \/ H!Finds(r) \/ H!Approves(r) \/ H!Completes(r)
                        \/ H!record_hand_off(r) \/ H!Dies(r)
  \/ \E actor \in Estimators : H!update_proposal(actor)
  \/ H!import_proposal_artifacts
  \/ H!Changes

LEMMA ProposalSteps == H!Next => ProposalActions
BY DEF H!Next, ProposalActions

LEMMA DraftType == H!Draft \in Doc /\ H!Draft.approvedBy = H!Nobody
BY ProposalAssumption DEF H!Draft, Doc, Signatory

\* The document a find returns.
LEMMA StoredType ==
  ASSUME proposals \in Seq(Doc)
  PROVE  /\ H!Stored \in Doc
         /\ proposals = <<>> => H!Stored = H!Draft
         /\ proposals # <<>> => 1 \in DOMAIN proposals /\ H!Stored = proposals[1]
<1>1. CASE proposals = <<>>
  BY <1>1, DraftType DEF H!Stored
<1>2. CASE proposals # <<>>
  <2>1. Len(proposals) \in Nat \ {0} /\ DOMAIN proposals = 1 .. Len(proposals)
    BY <1>2, EmptySeq, LenProperties
  <2>2. Head(proposals) = proposals[1] /\ proposals[1] \in Doc
    BY <1>2, <2>1, HeadTailProperties, ElementOfSeq
  <2> QED
    BY <1>2, <2>1, <2>2 DEF H!Stored
<1> QED
  BY <1>1, <1>2

\* Whatever is written in the place of the document, no approval is lost unless
\* the new document takes it away.
LEMMA Rewritten ==
  ASSUME proposals \in Seq(Doc), proposals # <<>>, NEW new \in Doc,
         H!Stored.approvedBy # H!Nobody => new.approvedBy # H!Nobody,
         proposals' = H!Updated(new)
  PROVE  /\ proposals' \in Seq(Doc) /\ proposals' # <<>>
         /\ SomeApproved => SomeApproved'
         /\ new.approvedBy # H!Nobody => SomeApproved'
<1>1. /\ Len(proposals) \in Nat \ {0} /\ DOMAIN proposals = 1 .. Len(proposals)
      /\ 1 \in DOMAIN proposals /\ H!Stored = proposals[1]
  BY EmptySeq, LenProperties, StoredType
<1>2. proposals' = [proposals EXCEPT ![1] = new]
  BY DEF H!Updated
<1>3. /\ proposals' \in Seq(Doc) /\ Len(proposals') = Len(proposals)
  BY <1>1, <1>2, ExceptSeq
<1>4. /\ DOMAIN proposals' = DOMAIN proposals
      /\ \A i \in DOMAIN proposals : proposals'[i] = IF i = 1 THEN new ELSE proposals[i]
  BY <1>1, <1>2
<1>5. proposals' # <<>>
  BY <1>1, <1>4
<1>6. SomeApproved => SomeApproved'
  <2> SUFFICES ASSUME NEW i \in DOMAIN proposals, proposals[i].approvedBy # H!Nobody
               PROVE  SomeApproved'
    BY DEF SomeApproved
  <2>1. proposals'[i].approvedBy # H!Nobody
    BY <1>1, <1>4
  <2> QED
    BY <1>4, <2>1 DEF SomeApproved, H!Nobody
<1>7. new.approvedBy # H!Nobody => SomeApproved'
  BY <1>1, <1>4 DEF SomeApproved, H!Nobody
<1> QED
  BY <1>3, <1>5, <1>6, <1>7

LEMMA Appended ==
  ASSUME proposals \in Seq(Doc), NEW new \in Doc, proposals' = Append(proposals, new)
  PROVE  /\ proposals' \in Seq(Doc) /\ proposals' # <<>>
         /\ SomeApproved => SomeApproved'
         /\ new.approvedBy # H!Nobody => SomeApproved'
<1>1. /\ proposals' \in Seq(Doc) /\ Len(proposals') = Len(proposals) + 1
      /\ \A i \in 1 .. Len(proposals) : proposals'[i] = proposals[i]
      /\ proposals'[Len(proposals) + 1] = new
  BY AppendProperties
<1>2. /\ Len(proposals) \in Nat /\ DOMAIN proposals = 1 .. Len(proposals)
      /\ DOMAIN proposals' = 1 .. Len(proposals) + 1
  BY <1>1, LenProperties
<1>3. Len(proposals) + 1 \in DOMAIN proposals'
  BY <1>2
<1>4. \A i \in DOMAIN proposals : i \in DOMAIN proposals' /\ proposals'[i] = proposals[i]
  BY <1>1, <1>2
<1>5. SomeApproved => SomeApproved'
  BY <1>4 DEF SomeApproved, H!Nobody
<1>6. new.approvedBy # H!Nobody => SomeApproved'
  BY <1>1, <1>3 DEF SomeApproved, H!Nobody
<1>7. proposals' # <<>>
  BY <1>1, <1>2, EmptySeq
<1> QED
  BY <1>1, <1>5, <1>6, <1>7

\* An upsert that leaves the approval as it finds it.
LEMMA Merged ==
  ASSUME proposals \in Seq(Doc), NEW new \in Doc,
         new.approvedBy = H!Stored.approvedBy, proposals' = H!Upserted(new)
  PROVE  /\ proposals' \in Seq(Doc) /\ proposals' # <<>>
         /\ SomeApproved => SomeApproved'
<1>1. CASE proposals = <<>>
  <2>1. proposals' = Append(proposals, new)
    BY <1>1 DEF H!Upserted
  <2> QED
    BY <2>1, Appended
<1>2. CASE proposals # <<>>
  <2>1. proposals' = H!Updated(new)
    BY <1>2 DEF H!Upserted
  <2> QED
    BY <1>2, <2>1, Rewritten
<1> QED
  BY <1>1, <1>2

\* The requests that have not moved are where the invariant has them.
LEMMA OthersSigned ==
  ASSUME NEW q \in Signers, Signed(q), sign'[q] = sign[q], SomeApproved => SomeApproved',
         proposals # <<>> => proposals' # <<>>
  PROVE  Signed(q)'
BY DEF Signed

LEMMA ProposalFrame ==
  ASSUME ProposalInv, proposals' \in Seq(Doc), SomeApproved => SomeApproved',
         proposals # <<>> => proposals' # <<>>, UNCHANGED <<sign, routed>>,
         acts' \in 0 .. MaxActs, totals' \in 0 .. acts', lapsed' \in BOOLEAN
  PROVE  ProposalInv'
<1>1. \A r \in Signers : Signed(r)'
  BY DEF ProposalInv, Signed
<1>2. H!RoutedIsApproved'
  BY DEF ProposalInv, H!RoutedIsApproved, SomeApproved
<1> QED
  BY <1>1, <1>2 DEF ProposalInv, ProposalShape

\* One request moves.
LEMMA SignerMoves ==
  ASSUME ProposalInv, NEW r \in Signers, NEW there \in Signing,
         sign' = [sign EXCEPT ![r] = there], proposals' \in Seq(Doc),
         SomeApproved => SomeApproved', proposals # <<>> => proposals' # <<>>,
         UNCHANGED <<totals, lapsed, acts>>, routed' \in BOOLEAN,
         routed' => SomeApproved',
         there.at # "idle" => there.by \in Estimators,
         there.at \in {"complete", "route", "done"} => SomeApproved',
         there.at = "approve" /\ there.stored = "approved" => SomeApproved',
         there.at = "approve" /\ there.stored = "draft" => proposals' # <<>>
  PROVE  ProposalInv'
<1>1. sign' \in [Signers -> Signing] /\ sign'[r] = there
      /\ \A q \in Signers : q # r => sign'[q] = sign[q]
  BY DEF ProposalInv, ProposalShape
<1>2. Signed(r)'
  BY <1>1 DEF Signed
<1>3. \A q \in Signers : q # r => Signed(q)'
  BY <1>1, OthersSigned DEF ProposalInv
<1>4. H!RoutedIsApproved'
  BY DEF H!RoutedIsApproved, SomeApproved
<1> QED
  BY <1>1, <1>2, <1>3, <1>4 DEF ProposalInv, ProposalShape

LEMMA ProposalStart == H!Init => ProposalInv
<1> SUFFICES ASSUME H!Init PROVE ProposalInv
  OBVIOUS
<1>1. H!Idle \in Signing /\ H!Idle.at = "idle"
  BY ProposalAssumption DEF H!Idle, Signing, Signatory
<1>2. ProposalShape
  <2>1. proposals \in Seq(Doc)
    BY DEF H!Init
  <2>2. sign \in [Signers -> Signing]
    BY <1>1 DEF H!Init
  <2>3. acts \in 0 .. MaxActs /\ totals \in 0 .. acts
    BY ProposalAssumption DEF H!Init
  <2> QED
    BY <2>1, <2>2, <2>3 DEF H!Init, ProposalShape
<1>3. \A r \in Signers : sign[r].at = "idle"
  BY <1>1 DEF H!Init
<1> QED
  BY <1>2, <1>3 DEF ProposalInv, Signed, H!RoutedIsApproved, H!Init

LEMMA ProposalStep == ProposalInv /\ [H!Next]_H!vars => ProposalInv'
<1> SUFFICES ASSUME ProposalInv, [H!Next]_H!vars PROVE ProposalInv'
  OBVIOUS
<1>0. CASE UNCHANGED H!vars
  <2>1. UNCHANGED <<proposals, totals, lapsed, sign, routed, acts>>
    BY <1>0 DEF H!vars
  <2>2. SomeApproved' = SomeApproved
    BY <2>1 DEF SomeApproved
  <2> QED
    BY <2>1, <2>2, ProposalFrame DEF ProposalInv, ProposalShape
<1> USE DEF ProposalInv
<1>a. /\ H!Stored \in Doc
      /\ \A r \in Signers : sign[r] \in Signing /\ Signed(r)
      /\ totals \in 0 .. MaxActs /\ routed \in BOOLEAN
  BY StoredType, ProposalAssumption DEF ProposalShape
<1>b. routed => SomeApproved
  BY DEF H!RoutedIsApproved, SomeApproved
<1>1. ASSUME NEW r \in Signers, NEW actor \in Estimators, H!Checks(r, actor) PROVE ProposalInv'
  <2> DEFINE there == [sign[r] EXCEPT !.at = IF H!blocking THEN "refused" ELSE "totals",
                                      !.by = actor]
  <2>1. /\ there \in Signing /\ there.by \in Estimators
        /\ there.at \in {"refused", "totals"}
    BY <1>a DEF Signing, Signatory
  <2>2. sign' = [sign EXCEPT ![r] = there] /\ UNCHANGED <<proposals, totals, lapsed, routed, acts>>
    BY <1>1 DEF H!Checks
  <2>3. SomeApproved' = SomeApproved
    BY <2>2 DEF SomeApproved
  <2> HIDE DEF there
  <2> QED
    BY <1>b, <2>1, <2>2, <2>3, SignerMoves DEF ProposalShape
<1>2. ASSUME NEW r \in Signers, H!totals_for(r) PROVE ProposalInv'
  <2> DEFINE there == [sign[r] EXCEPT !.at = "find", !.totals = totals]
  <2>1. there \in Signing /\ there.by \in Estimators /\ there.at = "find"
    BY <1>a, <1>2 DEF Signing, H!totals_for, Signed
  <2>2. sign' = [sign EXCEPT ![r] = there] /\ UNCHANGED <<proposals, totals, lapsed, routed, acts>>
    BY <1>2 DEF H!totals_for
  <2>3. SomeApproved' = SomeApproved
    BY <2>2 DEF SomeApproved
  <2> HIDE DEF there
  <2> QED
    BY <1>b, <2>1, <2>2, <2>3, SignerMoves DEF ProposalShape
<1>3. ASSUME NEW r \in Signers, H!Finds(r) PROVE ProposalInv'
  <2> DEFINE found == IF proposals = <<>> THEN "none"
                      ELSE IF H!Stored.approvedBy = H!Nobody THEN "draft" ELSE "approved"
             there == [sign[r] EXCEPT !.at = "approve", !.stored = found]
  <2>1. /\ there \in Signing /\ there.by \in Estimators /\ there.at = "approve"
        /\ there.stored = found
    BY <1>a, <1>3 DEF Signing, H!Finds, Signed
  <2>2. sign' = [sign EXCEPT ![r] = there] /\ UNCHANGED <<proposals, totals, lapsed, routed, acts>>
    BY <1>3 DEF H!Finds
  <2>3. SomeApproved' = SomeApproved
    BY <2>2 DEF SomeApproved
  <2>4. found = "approved" => SomeApproved
    BY StoredType DEF SomeApproved, ProposalShape
  <2>5. found = "draft" => proposals # <<>>
    OBVIOUS
  <2> HIDE DEF there, found
  <2> QED
    BY <1>b, <2>1, <2>2, <2>3, <2>4, <2>5, SignerMoves DEF ProposalShape
<1>4. ASSUME NEW r \in Signers, H!Approves(r) PROVE ProposalInv'
  <2> DEFINE there == [sign[r] EXCEPT !.at = "complete"]
             stamped == H!approve(H!Stored, sign[r].by, sign[r].totals)
             fresh   == H!approve(H!Draft, sign[r].by, sign[r].totals)
  <2>1. there \in Signing /\ there.by \in Estimators /\ there.at = "complete"
    BY <1>a, <1>4 DEF Signing, H!Approves, Signed
  <2>2. /\ sign' = [sign EXCEPT ![r] = there] /\ UNCHANGED <<totals, lapsed, routed, acts>>
        /\ proposals' = H!Approved(r)
    BY <1>4 DEF H!Approves
  <2>3. /\ sign[r].by \in Estimators /\ sign[r].by # H!Nobody /\ sign[r].by \in Signatory
        /\ sign[r].totals \in 0 .. MaxActs /\ sign[r].stored \in {"none", "draft", "approved"}
    BY <1>a, <1>4, ProposalAssumption DEF Signing, H!Approves, Signed, Signatory
  <2>4. /\ stamped \in Doc /\ stamped.approvedBy # H!Nobody
        /\ fresh \in Doc /\ fresh.approvedBy # H!Nobody
    BY <1>a, <2>3, DraftType DEF Doc, H!approve
  <2> HIDE DEF there, stamped, fresh
  <2>5. proposals' \in Seq(Doc) /\ SomeApproved' /\ (proposals # <<>> => proposals' # <<>>)
    <3>1. CASE sign[r].stored = "none"
      <4>1. proposals' = Append(proposals, fresh)
        BY <2>2, <3>1 DEF H!Approved, fresh
      <4> QED
        BY <2>4, <4>1, Appended DEF ProposalShape
    <3>2. CASE sign[r].stored = "draft"
      <4>1. proposals' = H!Updated(stamped) /\ proposals # <<>>
        BY <1>a, <1>4, <2>2, <3>2 DEF H!Approved, stamped, Signed, H!Approves
      <4> QED
        BY <2>4, <4>1, Rewritten DEF ProposalShape
    <3>3. CASE sign[r].stored = "approved"
      <4>1. proposals' = proposals /\ SomeApproved
        BY <1>a, <1>4, <2>2, <3>3 DEF H!Approved, Signed, H!Approves
      <4> QED
        BY <4>1 DEF SomeApproved, ProposalShape
    <3> QED
      BY <2>3, <3>1, <3>2, <3>3
  <2> QED
    BY <2>1, <2>2, <2>5, SignerMoves DEF ProposalShape
<1>5. ASSUME NEW r \in Signers, H!Completes(r) PROVE ProposalInv'
  <2> DEFINE there == [sign[r] EXCEPT !.at = "route"]
             new   == [H!Stored EXCEPT !.completedBy = sign[r].by]
  <2>1. there \in Signing /\ there.by \in Estimators /\ there.at = "route" /\ SomeApproved
    BY <1>a, <1>5 DEF Signing, H!Completes, Signed
  <2>2. /\ sign' = [sign EXCEPT ![r] = there] /\ UNCHANGED <<totals, lapsed, routed, acts>>
        /\ proposals' = H!Updated(new)
    BY <1>5 DEF H!Completes
  <2>3. new \in Doc /\ new.approvedBy = H!Stored.approvedBy
    BY <1>a DEF Doc, Signing
  <2>4. proposals # <<>>
    BY <2>1, EmptySeq DEF SomeApproved
  <2> HIDE DEF there, new
  <2>5. proposals' \in Seq(Doc) /\ SomeApproved' /\ proposals' # <<>>
    BY <2>1, <2>2, <2>3, <2>4, Rewritten DEF ProposalShape
  <2> QED
    BY <2>1, <2>2, <2>5, SignerMoves DEF ProposalShape
<1>6. ASSUME NEW r \in Signers, H!record_hand_off(r) PROVE ProposalInv'
  <2> DEFINE there == [sign[r] EXCEPT !.at = "done"]
  <2>1. there \in Signing /\ there.by \in Estimators /\ there.at = "done" /\ SomeApproved
    BY <1>a, <1>6 DEF Signing, H!record_hand_off, Signed
  <2>2. /\ sign' = [sign EXCEPT ![r] = there] /\ UNCHANGED <<proposals, totals, lapsed, acts>>
        /\ routed' = TRUE
    BY <1>6 DEF H!record_hand_off
  <2>3. SomeApproved' = SomeApproved
    BY <2>2 DEF SomeApproved
  <2> HIDE DEF there
  <2> QED
    BY <2>1, <2>2, <2>3, SignerMoves DEF ProposalShape
<1>7. ASSUME NEW r \in Signers, H!Dies(r) PROVE ProposalInv'
  <2> DEFINE there == [sign[r] EXCEPT !.at = "dead"]
  <2>1. there \in Signing /\ there.by \in Estimators /\ there.at = "dead"
    BY <1>a, <1>7 DEF Signing, H!Dies, Signed
  <2>2. sign' = [sign EXCEPT ![r] = there] /\ UNCHANGED <<proposals, totals, lapsed, routed, acts>>
    BY <1>7 DEF H!Dies
  <2>3. SomeApproved' = SomeApproved
    BY <2>2 DEF SomeApproved
  <2> HIDE DEF there
  <2> QED
    BY <1>b, <2>1, <2>2, <2>3, SignerMoves DEF ProposalShape
<1>8. acts < MaxActs /\ acts' = acts + 1 =>
        acts' \in 0 .. MaxActs /\ totals \in 0 .. acts' /\ totals + 1 \in 0 .. acts'
  BY ProposalAssumption DEF ProposalShape
<1>9. ASSUME NEW actor \in Estimators, H!update_proposal(actor) PROVE ProposalInv'
  <2>1. PICK acknowledged \in {H!Stored.lapsedAcknowledgedBy, actor} :
          proposals' = H!Upserted([H!Stored EXCEPT !.lapsedAcknowledgedBy = acknowledged])
    BY <1>9 DEF H!update_proposal
  <2> DEFINE new == [H!Stored EXCEPT !.lapsedAcknowledgedBy = acknowledged]
  <2>2. new \in Doc /\ new.approvedBy = H!Stored.approvedBy
    BY <1>a DEF Doc, Signatory
  <2>3. proposals' = H!Upserted(new)
    BY <2>1
  <2> HIDE DEF new
  <2>4. /\ proposals' \in Seq(Doc) /\ proposals' # <<>>
        /\ SomeApproved => SomeApproved'
    BY <2>2, <2>3, Merged DEF ProposalShape
  <2>5. UNCHANGED <<totals, lapsed, sign, routed>> /\ acts < MaxActs /\ acts' = acts + 1
    BY <1>9 DEF H!update_proposal, H!Acts
  <2> QED
    BY <1>8, <2>4, <2>5, ProposalFrame DEF ProposalShape
<1>10. CASE H!import_proposal_artifacts
  <2> DEFINE new == [H!Stored EXCEPT !.claudeArtifacts = TRUE]
  <2>1. new \in Doc /\ new.approvedBy = H!Stored.approvedBy
    BY <1>a DEF Doc
  <2>2. proposals' = H!Upserted(new)
    BY <1>10 DEF H!import_proposal_artifacts
  <2> HIDE DEF new
  <2>3. /\ proposals' \in Seq(Doc) /\ proposals' # <<>>
        /\ SomeApproved => SomeApproved'
    BY <2>1, <2>2, Merged DEF ProposalShape
  <2>4. UNCHANGED <<totals, lapsed, sign, routed>> /\ acts < MaxActs /\ acts' = acts + 1
    BY <1>10 DEF H!import_proposal_artifacts, H!Acts
  <2> QED
    BY <1>8, <2>3, <2>4, ProposalFrame DEF ProposalShape
<1>11. CASE H!Changes
  <2>1. /\ UNCHANGED <<proposals, sign, routed>> /\ acts < MaxActs /\ acts' = acts + 1
        /\ totals' \in {totals, totals + 1} /\ lapsed' \in BOOLEAN
    BY <1>11 DEF H!Changes, H!Acts
  <2>2. SomeApproved' = SomeApproved
    BY <2>1 DEF SomeApproved
  <2>3. acts' \in 0 .. MaxActs /\ totals' \in 0 .. acts'
    BY <1>8, <2>1
  <2> QED
    BY <2>1, <2>2, <2>3, ProposalFrame DEF ProposalShape
<1> QED
  BY <1>0, <1>1, <1>2, <1>3, <1>4, <1>5, <1>6, <1>7, <1>9, <1>10, <1>11, ProposalSteps
     DEF ProposalActions

LEMMA ProposalTyped == ProposalInv => H!ProposalTypeOK
<1> SUFFICES ASSUME ProposalInv PROVE H!ProposalTypeOK
  OBVIOUS
<1>1. \A i \in DOMAIN proposals : proposals[i] \in Doc
  BY ElementOfSeq, LenProperties DEF ProposalInv, ProposalShape
<1>2. \A r \in Signers : sign[r] \in Signing
  BY DEF ProposalInv, ProposalShape
<1> QED
  BY <1>1, <1>2, ProposalAssumption
     DEF ProposalInv, ProposalShape, H!ProposalTypeOK, Doc, Signatory, Signing

\* A bid that is in a salesperson's queue has a proposal that somebody
\* approved: however many sign it off at once, whatever settings and artifacts
\* are upserted meanwhile, and wherever a request dies
\* (domain/proposals.py:48-53, MarkComplete.py:65-91).
THEOREM NoneRoutedUnapproved == H!Spec => []RoutedIsApproved
<1>1. ProposalInv => RoutedIsApproved
  BY DEF ProposalInv, RoutedIsApproved
<1> QED
  BY ProposalStart, ProposalStep, <1>1, PTL DEF H!Spec

-----------------------------------------------------------------------------
(* MatchCache.                                                             *)

Hardware == [shape : {"none", "groups", "sets"}, matches : [Specified -> M!Match \cup {M!Open}]]
Pass     == [type : {"none", "match_and_price", "matched", "extract_bid_set"},
             reused : SUBSET M!Entry]

MatchShape ==
  /\ catalog \in 1 .. MaxCatalog /\ schedule \in 1 .. MaxSchedule
  /\ hardware \in Hardware
  /\ cache \subseteq M!Entry
  /\ pass \in Pass
  /\ shaken \in BOOLEAN

On(match, index, list) == match = [catalog |-> index, schedule |-> list, sure |-> TRUE]

\* An entry names what its match was decided on, unless it names no catalog; a
\* pass copies nothing but today's matches; and what it has decided, copied or
\* not, it has decided on what is there today.
EntriesHonest == \A e \in cache : e.catalog # M!Unknown => On(e.match, e.catalog, e.schedule)
CopiesCurrent == pass.type = "match_and_price" =>
                   \A e \in pass.reused : On(e.match, catalog, schedule)
DecidedToday  ==
  pass.type = "matched" =>
    /\ hardware.shape = "groups"
    /\ \A s \in Specified : /\ hardware.matches[s].catalog = catalog
                            /\ hardware.matches[s].schedule = schedule

MatchInv ==
  /\ MatchShape
  /\ ~shaken => EntriesHonest /\ CopiesCurrent /\ DecidedToday

MatchActions ==
  \/ \E yes \in BOOLEAN : M!Prices(yes) \/ M!Extracts(yes)
  \/ M!Matches \/ M!Ends \/ M!Fails \/ M!Reindexes \/ M!Exports \/ M!Outage

LEMMA MatchSteps == M!Next => MatchActions
BY DEF M!Next, MatchActions

\* What is reused stands today, and names a catalog.
LEMMA ReusableStands ==
  ASSUME MatchShape, NEW force \in BOOLEAN, NEW e \in M!reusable(force)
  PROVE  /\ e \in cache /\ e.catalog # M!Unknown
         /\ e.catalog = catalog /\ e.schedule = schedule
BY DEF M!reusable, M!StillStands, M!catalog_watermark, M!Unknown, MatchShape

LEMMA NothingDecided ==
  /\ M!Nothing \in [Specified -> M!Match \cup {M!Open}]
  /\ M!NoPass \in Pass /\ M!NoPass.type = "none" /\ M!NoPass.reused = {}
BY DEF M!Nothing, M!NoPass, Pass

\* What is ingested is confident, and stamped with what is there today.
LEMMA Ingested ==
  ASSUME MatchShape
  PROVE  /\ M!ingest \subseteq M!Entry
         /\ hardware.shape # "none" =>
              \A e \in M!ingest :
                /\ hardware.shape = "groups"
                /\ \E s \in Specified : e.match = hardware.matches[s]
                /\ e.match \in M!Match /\ e.match.sure = TRUE
                /\ e.catalog \in {catalog, M!Unknown} /\ e.schedule = schedule
<1>1. CASE hardware.shape = "none"
  BY <1>1 DEF M!ingest, MatchShape
<1>2. CASE hardware.shape # "none"
  <2>1. ASSUME NEW e \in M!ingest
        PROVE  \E s \in Specified :
                 /\ hardware.shape = "groups" /\ hardware.matches[s].sure
                 /\ e = [item |-> s, match |-> hardware.matches[s],
                         catalog |-> M!catalog_watermark, schedule |-> schedule]
    BY <1>2 DEF M!ingest
  <2>2. ASSUME NEW s \in Specified, hardware.matches[s].sure
        PROVE  hardware.matches[s] \in M!Match /\ hardware.matches[s].sure = TRUE
    <3>1. hardware.matches[s] \in M!Match \cup {M!Open}
      BY DEF MatchShape, Hardware
    <3>2. M!Open.sure = FALSE
      BY DEF M!Open
    <3>3. hardware.matches[s] # M!Open
      BY <2>2, <3>2
    <3> QED
      BY <2>2, <3>1, <3>3 DEF M!Match
  <2>3. M!catalog_watermark \in {catalog, M!Unknown} /\ M!catalog_watermark \in 0 .. MaxCatalog
    BY MatchCacheAssumption DEF M!catalog_watermark, M!Unknown, MatchShape
  <2>4. ASSUME NEW e \in M!ingest
        PROVE  /\ e \in M!Entry
               /\ hardware.shape = "groups"
               /\ \E s \in Specified : e.match = hardware.matches[s]
               /\ e.match \in M!Match /\ e.match.sure = TRUE
               /\ e.catalog \in {catalog, M!Unknown} /\ e.schedule = schedule
    <3>1. PICK s \in Specified :
            /\ hardware.shape = "groups" /\ hardware.matches[s].sure
            /\ e = [item |-> s, match |-> hardware.matches[s],
                    catalog |-> M!catalog_watermark, schedule |-> schedule]
      BY <2>1, <2>4
    <3>2. e \in M!Entry
      BY <2>2, <2>3, <3>1 DEF M!Entry, MatchShape
    <3> QED
      BY <2>2, <2>3, <3>1, <3>2
  <2> QED
    BY <2>4
<1> QED
  BY <1>1, <1>2

\* Something moves under a pass that decides on it, or under none.
LEMMA MatchShakes ==
  ASSUME MatchInv, M!Shakes, UNCHANGED <<hardware, cache, pass>>,
         catalog' \in 1 .. MaxCatalog, schedule' \in 1 .. MaxSchedule
  PROVE  MatchInv'
<1>1. MatchShape'
  BY DEF MatchInv, MatchShape, M!Shakes
<1>2. ASSUME ~shaken' PROVE ~shaken /\ pass.type \notin {"match_and_price", "matched"}
  BY <1>2 DEF M!Shakes
<1>3. ASSUME ~shaken' PROVE EntriesHonest' /\ CopiesCurrent' /\ DecidedToday'
  BY <1>2, <1>3 DEF MatchInv, EntriesHonest, CopiesCurrent, DecidedToday
<1> QED
  BY <1>1, <1>3 DEF MatchInv

LEMMA MatchStart == M!Init => MatchInv
<1> SUFFICES ASSUME M!Init PROVE MatchInv
  OBVIOUS
<1>1. hardware \in Hardware
  BY NothingDecided DEF M!Init, Hardware
<1>2. MatchShape
  <2>1. catalog \in 1 .. MaxCatalog /\ schedule \in 1 .. MaxSchedule
    BY MatchCacheAssumption DEF M!Init
  <2>2. cache \subseteq M!Entry /\ pass \in Pass /\ shaken \in BOOLEAN
    BY NothingDecided DEF M!Init
  <2> QED
    BY <1>1, <2>1, <2>2 DEF MatchShape
<1> QED
  BY <1>2, NothingDecided DEF M!Init, MatchInv, EntriesHonest, CopiesCurrent, DecidedToday

LEMMA MatchStep == MatchInv /\ [M!Next]_M!vars => MatchInv'
<1> SUFFICES ASSUME MatchInv, [M!Next]_M!vars PROVE MatchInv'
  OBVIOUS
<1>0. CASE UNCHANGED M!vars
  BY <1>0 DEF M!vars, MatchInv, MatchShape, EntriesHonest, CopiesCurrent, DecidedToday
<1>1. ASSUME NEW force \in BOOLEAN, M!Prices(force) PROVE MatchInv'
  <2>1. /\ UNCHANGED <<catalog, schedule, hardware, cache, shaken>>
        /\ pass' = [type |-> "match_and_price", reused |-> M!reusable(force)]
    BY <1>1 DEF M!Prices, M!Starts
  <2>2. M!reusable(force) \subseteq cache
    BY DEF M!reusable
  <2>3. pass' \in Pass /\ pass'.type = "match_and_price" /\ pass'.reused = M!reusable(force)
    BY <2>1, <2>2 DEF Pass, MatchInv, MatchShape
  <2>4. MatchShape'
    BY <2>1, <2>3 DEF MatchInv, MatchShape
  <2>5. ASSUME ~shaken', NEW e \in pass'.reused PROVE On(e.match, catalog, schedule)'
    BY <2>1, <2>3, <2>5, ReusableStands DEF MatchInv, EntriesHonest, On
  <2> QED
    BY <2>1, <2>3, <2>4, <2>5 DEF MatchInv, EntriesHonest, CopiesCurrent, DecidedToday
<1>2. ASSUME NEW legend \in BOOLEAN, M!Extracts(legend) PROVE MatchInv'
  <2>1. /\ UNCHANGED <<catalog, cache, shaken>> /\ schedule' = schedule + 1 /\ schedule < MaxSchedule
        /\ pass' = [type |-> "extract_bid_set", reused |-> {}]
        /\ hardware' \in {hardware, [shape |-> "sets", matches |-> M!Nothing]}
    BY <1>2 DEF M!Extracts, M!Starts
  <2>2. pass' \in Pass /\ pass'.type = "extract_bid_set"
    BY <2>1 DEF Pass
  <2>3. hardware' \in Hardware
    BY <2>1, NothingDecided DEF Hardware, MatchInv, MatchShape
  <2>4. schedule' \in 1 .. MaxSchedule
    BY <2>1, MatchCacheAssumption DEF MatchInv, MatchShape
  <2>5. MatchShape'
    BY <2>1, <2>2, <2>3, <2>4 DEF MatchInv, MatchShape
  <2> QED
    BY <2>1, <2>2, <2>5 DEF MatchInv, EntriesHonest, CopiesCurrent, DecidedToday
<1>3. CASE M!Matches
  <2>1. PICK found \in [Specified -> M!Match] :
          /\ \A s \in Specified : found[s] \in M!Decided(s)
          /\ hardware' = [shape |-> "groups", matches |-> found]
    BY <1>3 DEF M!Matches
  <2>2. /\ UNCHANGED <<catalog, schedule, cache, shaken>>
        /\ pass.type = "match_and_price" /\ pass' = [pass EXCEPT !.type = "matched"]
    BY <1>3 DEF M!Matches
  <2>3. pass' \in Pass /\ pass'.type = "matched"
    BY <2>2 DEF Pass, MatchInv, MatchShape
  <2>4. hardware' \in Hardware
    BY <2>1 DEF Hardware
  <2>5. ASSUME ~shaken, NEW s \in Specified
        PROVE  found[s].catalog = catalog /\ found[s].schedule = schedule
    <3> DEFINE copied == {e.match : e \in {r \in pass.reused : r.item = s}}
    <3>1. CASE copied # {}
      <4>1. found[s] \in copied
        BY <2>1, <3>1 DEF M!Decided
      <4>2. PICK e \in pass.reused : found[s] = e.match
        BY <4>1
      <4> QED
        BY <2>2, <2>5, <4>2 DEF MatchInv, CopiesCurrent, On
    <3>2. CASE copied = {}
      <4>1. \E sure \in BOOLEAN : found[s] = [catalog |-> catalog, schedule |-> schedule,
                                              sure |-> sure]
        BY <2>1, <3>2 DEF M!Decided
      <4> QED
        BY <4>1
    <3> QED
      BY <3>1, <3>2
  <2>6. MatchShape'
    BY <2>2, <2>3, <2>4 DEF MatchInv, MatchShape
  <2> QED
    BY <2>1, <2>2, <2>3, <2>5, <2>6 DEF MatchInv, EntriesHonest, CopiesCurrent, DecidedToday
<1>4. CASE M!Ends
  <2>1. /\ UNCHANGED <<catalog, schedule, hardware>> /\ cache' = M!ingest /\ pass' = M!NoPass
        /\ shaken' = (shaken \/ (pass.type # "matched" /\ hardware.shape = "groups"))
    BY <1>4 DEF M!Ends
  <2>2. shaken' \in BOOLEAN
    BY <2>1 DEF MatchInv, MatchShape
  <2>3. MatchShape'
    BY <2>1, <2>2, NothingDecided, Ingested DEF MatchInv, MatchShape
  <2>4. ASSUME ~shaken', NEW e \in cache', e.catalog # M!Unknown
        PROVE  On(e.match, e.catalog, e.schedule)
    <3>1. ~shaken /\ (hardware.shape = "groups" => pass.type = "matched")
      BY <2>1, <2>4
    <3>2. CASE hardware.shape = "none"
      <4>1. e \in cache
        BY <2>1, <2>4, <3>2 DEF M!ingest
      <4> QED
        BY <2>4, <3>1, <4>1 DEF MatchInv, EntriesHonest
    <3>3. CASE hardware.shape # "none"
      <4>1. /\ hardware.shape = "groups" /\ e.match \in M!Match /\ e.match.sure = TRUE
            /\ e.catalog = catalog /\ e.schedule = schedule
            /\ \E s \in Specified : e.match = hardware.matches[s]
        BY <2>1, <2>4, <3>3, Ingested DEF MatchInv
      <4>2. e.match.catalog = catalog /\ e.match.schedule = schedule
        BY <3>1, <4>1 DEF MatchInv, DecidedToday
      <4> QED
        BY <4>1, <4>2 DEF On, M!Match
    <3> QED
      BY <3>2, <3>3
  <2> QED
    BY <2>1, <2>3, <2>4, NothingDecided DEF MatchInv, EntriesHonest, CopiesCurrent, DecidedToday
<1>5. CASE M!Fails
  BY <1>5, NothingDecided
     DEF M!Fails, MatchInv, MatchShape, EntriesHonest, CopiesCurrent, DecidedToday
<1>6. CASE M!Reindexes
  <2>1. catalog' \in 1 .. MaxCatalog
    BY <1>6, MatchCacheAssumption DEF M!Reindexes, MatchInv, MatchShape
  <2> QED
    BY <1>6, <2>1, MatchShakes DEF M!Reindexes, MatchInv, MatchShape
<1>7. CASE M!Exports
  <2>1. schedule' \in 1 .. MaxSchedule
    BY <1>7, MatchCacheAssumption DEF M!Exports, MatchInv, MatchShape
  <2> QED
    BY <1>7, <2>1, MatchShakes DEF M!Exports, MatchInv, MatchShape
<1>8. CASE M!Outage
  BY <1>8 DEF M!Outage, MatchInv, MatchShape, EntriesHonest, CopiesCurrent, DecidedToday
<1> QED
  BY <1>0, <1>1, <1>2, <1>3, <1>4, <1>5, <1>6, <1>7, <1>8, MatchSteps DEF MatchActions

LEMMA MatchTyped == MatchInv => M!MatchCacheTypeOK
BY DEF MatchInv, MatchShape, M!MatchCacheTypeOK, Hardware, Pass

\* What a prompt has copied was decided, with confidence, on the catalog and the
\* schedule of that moment: through any number of passes that fail with their
\* matches written, indexings and edits between them, outages, and copies of
\* copies (matchcache.py:1-6, 108-164, 167-199).
THEOREM ReuseIsCurrent == M!Spec => ReusedStands
<1>1. ASSUME MatchInv, [M!Next]_M!vars
      PROVE  [\A e \in pass'.reused \ pass.reused :
                ~shaken => e.match = [catalog |-> catalog, schedule |-> schedule,
                                      sure |-> TRUE]]_M!vars
  <2> SUFFICES ASSUME M!Next, ~shaken, NEW e \in pass'.reused \ pass.reused
               PROVE  On(e.match, catalog, schedule)
    BY <1>1 DEF On
  <2>1. ASSUME NEW force \in BOOLEAN, M!Prices(force) PROVE On(e.match, catalog, schedule)
    <3>1. e \in M!reusable(force)
      BY <2>1 DEF M!Prices, M!Starts
    <3> QED
      BY <1>1, <3>1, ReusableStands DEF MatchInv, EntriesHonest, On
  <2>2. ASSUME NEW legend \in BOOLEAN, M!Extracts(legend) PROVE FALSE
    BY <2>2 DEF M!Extracts, M!Starts
  <2>3. CASE M!Matches
    BY <1>1, <2>3 DEF M!Matches, MatchInv, MatchShape, Pass
  <2>4. CASE M!Ends \/ M!Fails
    BY <2>4, NothingDecided DEF M!Ends, M!Fails
  <2>5. CASE M!Reindexes \/ M!Exports \/ M!Outage
    BY <2>5 DEF M!Reindexes, M!Exports, M!Outage
  <2> QED
    BY <2>1, <2>2, <2>3, <2>4, <2>5, MatchSteps DEF MatchActions
<1> QED
  BY <1>1, MatchStart, MatchStep, PTL DEF M!Spec, ReusedStands, M!ReusedStands

-----------------------------------------------------------------------------
(* References.                                                             *)

Docs     == UNION {[ks -> Terms] : ks \in SUBSET Entries}
Dated    == [at : Nat, data : Docs]
Revision == [from : Nat, to : Nat, data : Docs]
Editing  == [at : {"idle", "put", "find", "archive", "replace", "over"}, doc : Docs,
             stamp : Nat, previous : Dated]

\* Nothing is stamped later than the clock says.
ReferencesShape ==
  /\ family \in {"margins", "tax"} /\ up \in BOOLEAN
  /\ clock \in Nat
  /\ rStored \in Dated /\ rStored.at <= clock
  /\ past \subseteq Revision /\ IsFiniteSet(past)
  /\ \A r \in past : r.from <= clock /\ 1 <= r.to /\ r.to <= clock
  /\ rEdit \in [Editors -> Editing]
  /\ \A e \in Editors : /\ rEdit[e].stamp <= clock /\ rEdit[e].previous.at <= clock
                        /\ rEdit[e].at \in {"find", "archive", "replace"} => 1 <= rEdit[e].stamp
  /\ quoted \subseteq Dated
  /\ \A q \in quoted : q.at <= clock

Spanned(q) == R!Spanning(q.at) # {}

\* A document tells of a quote: it is older and says what was quoted, or it is
\* younger and a revision spans the moment.
Tells(doc, q) ==
  /\ doc.at # R!NoStamp
  /\ doc.at <= q.at => doc.data = q.data
  /\ q.at < doc.at => Spanned(q)

\* What is written of a moment after it agrees with what was quoted then: the
\* document, each revision, and what every edit is about to write.
Answers(q) ==
  /\ \A r \in R!Spanning(q.at) : r.data = q.data
  /\ Tells(rStored, q)

Respects(e, q) ==
  /\ rEdit[e].at \in {"find", "archive", "replace"} => q.at < rEdit[e].stamp
  /\ rEdit[e].at = "archive" => Tells(rEdit[e].previous, q)
  /\ rEdit[e].at = "replace" => Spanned(q)

ReferencesInv ==
  /\ ReferencesShape
  /\ \A q \in quoted : Answers(q) /\ \A e \in Editors : Respects(e, q)

ReferencesActions ==
  \/ \E e \in Editors : \/ R!Loads(e) \/ R!ensure_reference_seed(e) \/ R!Stamps(e) \/ R!Finds(e)
                        \/ R!_archive(e) \/ R!put_family_sync(e) \/ R!Crash(e)
  \/ R!Outage \/ R!Quotes

LEMMA ReferencesSteps == R!Next => ReferencesActions
BY DEF R!Next, ReferencesActions

LEMMA DocsAreDocuments == \A data : data \in Docs <=> R!Document(data)
<1>1. ASSUME NEW data \in Docs PROVE R!Document(data)
  <2>1. PICK ks \in SUBSET Entries : data \in [ks -> Terms]
    BY DEF Docs
  <2>2. DOMAIN data = ks
    BY <2>1
  <2> QED
    BY <2>1, <2>2 DEF R!Document
<1>2. ASSUME NEW data, R!Document(data) PROVE data \in Docs
  <2>1. DOMAIN data \in SUBSET Entries /\ data \in [DOMAIN data -> Terms]
    BY <1>2 DEF R!Document
  <2> QED
    BY <2>1 DEF Docs
<1> QED
  BY <1>1, <1>2

LEMMA IdleType ==
  /\ Seed \in Docs
  /\ R!Idle \in Editing /\ R!Idle.at = "idle" /\ R!Idle.stamp = 0 /\ R!Idle.previous.at = 0
  /\ R!NoDoc \in Dated /\ R!NoDoc.at = 0
<1>1. Seed \in Docs
  BY ReferencesAssumption, DocsAreDocuments
<1> QED
  BY <1>1 DEF R!Idle, R!NoDoc, R!NoStamp, Editing, Dated

\* An edit of a document is a document.
LEMMA ChangedType ==
  ASSUME NEW data \in Docs, NEW entry \in Entries, NEW v \in Terms,
         NEW new \in R!Changed(data, entry, v)
  PROVE  new \in Docs
<1>1. PICK ks \in SUBSET Entries : data \in [ks -> Terms]
  BY DEF Docs
<1>2. \A ns \in SUBSET Entries : \A d \in [ns -> Terms] : d \in Docs
  BY DEF Docs
<1>3. ASSUME NEW d \in R!update_margins(data, entry, v) PROVE d \in Docs
  <2>1. entry \in ks /\ d = [data EXCEPT ![entry] = v]
    BY <1>1, <1>3 DEF R!update_margins
  <2>2. d \in [ks -> Terms]
    BY <1>1, <2>1
  <2> QED
    BY <1>2, <2>2
<1>4. ASSUME NEW d \in R!update_tax_rates(data, entry, v) PROVE d \in Docs
  <2>1. d = [n \in ks \cup {entry} |-> IF n = entry THEN v ELSE data[n]]
    BY <1>1, <1>4 DEF R!update_tax_rates
  <2>2. d \in [ks \cup {entry} -> Terms] /\ ks \cup {entry} \in SUBSET Entries
    BY <1>1, <2>1
  <2> QED
    BY <1>2, <2>2
<1>5. ASSUME NEW d \in R!delete_family_entry(data, entry) PROVE d \in Docs
  <2>1. d = [n \in ks \ {entry} |-> data[n]]
    BY <1>1, <1>5 DEF R!delete_family_entry
  <2>2. d \in [ks \ {entry} -> Terms] /\ ks \ {entry} \in SUBSET Entries
    BY <1>1, <2>1
  <2> QED
    BY <1>2, <2>2
<1> QED
  BY <1>3, <1>4, <1>5 DEF R!Changed

LEMMA LoadedType == ASSUME ReferencesShape PROVE R!Loaded \in Docs
BY IdleType DEF R!Loaded, ReferencesShape, Dated

\* One edit moves, and nothing else does.
LEMMA EditorMoves ==
  ASSUME ReferencesInv, NEW e \in Editors, NEW there \in Editing,
         rEdit' = [rEdit EXCEPT ![e] = there], UNCHANGED <<family, rStored, past, up, quoted>>,
         clock' \in Nat, clock <= clock', there.stamp <= clock', there.previous.at <= clock',
         there.at \in {"find", "archive", "replace"} => 1 <= there.stamp,
         \A q \in quoted :
           /\ there.at \in {"find", "archive", "replace"} => q.at < there.stamp
           /\ there.at = "archive" => Tells(there.previous, q)
           /\ there.at = "replace" => Spanned(q)
  PROVE  ReferencesInv'
<1>1. /\ rEdit' \in [Editors -> Editing] /\ rEdit'[e] = there
      /\ \A o \in Editors : o # e => rEdit'[o] = rEdit[o]
  BY DEF ReferencesInv, ReferencesShape
<1>2. \A a, b, c \in Nat : a <= b /\ b <= c => a <= c
  OBVIOUS
<1>3. /\ \A r \in past : r.from \in Nat /\ r.to \in Nat
      /\ \A o \in Editors : rEdit[o].stamp \in Nat /\ rEdit[o].previous.at \in Nat
      /\ \A q \in quoted : q.at \in Nat
      /\ rStored.at \in Nat /\ clock \in Nat
  BY DEF ReferencesInv, ReferencesShape, Revision, Editing, Dated
<1>4. /\ rStored'.at <= clock'
      /\ \A r \in past' : r.from <= clock' /\ 1 <= r.to /\ r.to <= clock'
      /\ \A q \in quoted' : q.at <= clock'
  BY <1>2, <1>3 DEF ReferencesInv, ReferencesShape
<1>5. ASSUME NEW o \in Editors
      PROVE  /\ rEdit'[o].stamp <= clock' /\ rEdit'[o].previous.at <= clock'
             /\ rEdit'[o].at \in {"find", "archive", "replace"} => 1 <= rEdit'[o].stamp
  <2>1. CASE o = e
    BY <1>1, <2>1
  <2>2. CASE o # e
    BY <1>1, <1>2, <1>3, <2>2 DEF ReferencesInv, ReferencesShape
  <2> QED
    BY <2>1, <2>2
<1>6. ReferencesShape'
  BY <1>1, <1>4, <1>5 DEF ReferencesInv, ReferencesShape
<1>7. ASSUME NEW q \in quoted' PROVE Answers(q)' /\ \A o \in Editors : Respects(o, q)'
  <2>1. /\ Answers(q)' = Answers(q) /\ Spanned(q)' = Spanned(q)
        /\ \A doc : Tells(doc, q)' = Tells(doc, q)
    BY DEF Answers, Spanned, Tells, R!Spanning
  <2>2. Answers(q) /\ \A o \in Editors : Respects(o, q)
    BY DEF ReferencesInv
  <2>3. Respects(e, q)'
    BY <1>1 DEF Respects, Tells, Spanned, R!Spanning
  <2>4. \A o \in Editors : o # e => Respects(o, q)'
    BY <1>1, <2>2 DEF Respects, Tells, Spanned, R!Spanning
  <2> QED
    BY <2>1, <2>2, <2>3, <2>4
<1> QED
  BY <1>6, <1>7 DEF ReferencesInv

\* An edit that ends has nothing to answer for.
LEMMA EditorEnds ==
  ASSUME ReferencesInv, NEW e \in Editors, R!Ends(e),
         UNCHANGED <<family, rStored, past, clock, up, quoted>>
  PROVE  ReferencesInv'
<1> DEFINE there == [R!Idle EXCEPT !.at = "over"]
<1>1. /\ there \in Editing /\ there.at = "over" /\ there.stamp = 0 /\ there.previous.at = 0
  BY IdleType DEF Editing
<1>2. rEdit' = [rEdit EXCEPT ![e] = there]
  BY DEF R!Ends
<1>3. clock \in Nat /\ clock' = clock /\ clock <= clock /\ 0 <= clock
  BY DEF ReferencesInv, ReferencesShape
<1> HIDE DEF there
<1> QED
  BY <1>1, <1>2, <1>3, EditorMoves

\* What is revised is spanned; nothing that was spanned ceases to be.
LEMMA Archived ==
  ASSUME ReferencesInv, NEW e \in Editors, R!_archive(e), up
  PROVE  ReferencesInv'
<1> DEFINE there == [rEdit[e] EXCEPT !.at = "replace"]
           kept  == [from |-> rEdit[e].previous.at, to |-> rEdit[e].stamp,
                     data |-> rEdit[e].previous.data]
<1>1. /\ rEdit[e].at = "archive" /\ rEdit' = [rEdit EXCEPT ![e] = there]
      /\ past' = past \cup {kept} /\ UNCHANGED <<family, rStored, clock, up, quoted>>
  BY DEF R!_archive
<1>2. /\ rEdit[e] \in Editing /\ rEdit[e].previous \in Dated /\ clock \in Nat
      /\ rEdit[e].stamp \in Nat /\ rEdit[e].stamp <= clock /\ 1 <= rEdit[e].stamp
      /\ rEdit[e].previous.at <= clock
  BY <1>1 DEF ReferencesInv, ReferencesShape, Editing
<1>3. /\ kept \in Revision /\ kept.from = rEdit[e].previous.at /\ kept.to = rEdit[e].stamp
      /\ kept.data = rEdit[e].previous.data
  BY <1>2 DEF Revision, Dated
<1>4. /\ there \in Editing /\ there.at = "replace" /\ there.stamp = rEdit[e].stamp
      /\ there.previous = rEdit[e].previous
  BY <1>2 DEF Editing
<1> HIDE DEF there, kept
<1>5. /\ rEdit' \in [Editors -> Editing] /\ rEdit'[e] = there
      /\ \A o \in Editors : o # e => rEdit'[o] = rEdit[o]
  BY <1>1, <1>4 DEF ReferencesInv, ReferencesShape
<1>6. past' \subseteq Revision /\ IsFiniteSet(past')
  BY <1>1, <1>3, FS_AddElement DEF ReferencesInv, ReferencesShape
<1>7. \A r \in past' : r.from <= clock' /\ 1 <= r.to /\ r.to <= clock'
  BY <1>1, <1>2, <1>3 DEF ReferencesInv, ReferencesShape
<1>8. \A o \in Editors : /\ rEdit'[o].stamp <= clock' /\ rEdit'[o].previous.at <= clock'
                         /\ rEdit'[o].at \in {"find", "archive", "replace"} => 1 <= rEdit'[o].stamp
  BY <1>1, <1>2, <1>4, <1>5 DEF ReferencesInv, ReferencesShape
<1>9. ReferencesShape'
  BY <1>1, <1>5, <1>6, <1>7, <1>8 DEF ReferencesInv, ReferencesShape
<1>10. ASSUME NEW q \in quoted' PROVE Answers(q)' /\ \A o \in Editors : Respects(o, q)'
  <2>1. /\ q \in quoted /\ q.at \in Nat /\ Answers(q)
        /\ \A o \in Editors : Respects(o, q)
    BY <1>1 DEF ReferencesInv, ReferencesShape, Dated
  <2>2. q.at < kept.to /\ Tells(rEdit[e].previous, q)
    BY <1>1, <1>3, <2>1 DEF Respects
  <2>3. R!Spanning(q.at)' \subseteq R!Spanning(q.at) \cup {kept}
    BY <1>1 DEF R!Spanning
  <2>4. R!Spanning(q.at) \subseteq R!Spanning(q.at)'
    BY <1>1 DEF R!Spanning
  <2>5. kept.from <= q.at => kept \in R!Spanning(q.at)' /\ kept.data = q.data
    BY <1>1, <1>2, <1>3, <2>1, <2>2 DEF R!Spanning, Tells
  <2>6. kept \in R!Spanning(q.at)' => kept.from <= q.at
    BY DEF R!Spanning
  <2>7. Spanned(q)'
    <3>1. CASE kept.from <= q.at
      BY <2>5, <3>1 DEF Spanned
    <3>2. CASE q.at < kept.from
      BY <1>3, <2>2, <2>4, <3>2 DEF Spanned, Tells
    <3> QED
      BY <1>3, <2>1, <3>1, <3>2 DEF Revision
  <2>8. Answers(q)'
    <3>1. \A r \in R!Spanning(q.at)' : r.data = q.data
      BY <2>1, <2>3, <2>5, <2>6 DEF Answers
    <3>2. Tells(rStored, q)'
      BY <1>1, <2>1, <2>7 DEF Answers, Tells
    <3> QED
      BY <3>1, <3>2 DEF Answers
  <2>9. ASSUME NEW o \in Editors PROVE Respects(o, q)'
    <3>1. CASE o = e
      BY <1>3, <1>4, <1>5, <2>2, <2>7, <3>1 DEF Respects
    <3>2. CASE o # e
      <4>1. Respects(o, q) /\ rEdit'[o] = rEdit[o]
        BY <1>5, <2>1, <3>2
      <4> QED
        BY <2>7, <4>1 DEF Respects, Tells
    <3> QED
      BY <3>1, <3>2
  <2> QED
    BY <2>8, <2>9
<1> QED
  BY <1>9, <1>10 DEF ReferencesInv

LEMMA Replaced ==
  ASSUME ReferencesInv, NEW e \in Editors, R!put_family_sync(e), up
  PROVE  ReferencesInv'
<1> DEFINE there == [R!Idle EXCEPT !.at = "over"]
           doc   == [at |-> rEdit[e].stamp, data |-> rEdit[e].doc]
<1>1. /\ rEdit[e].at = "replace" /\ rEdit' = [rEdit EXCEPT ![e] = there]
      /\ rStored' = doc /\ UNCHANGED <<family, past, clock, up, quoted>>
  BY DEF R!put_family_sync, R!Ends
<1>2. /\ rEdit[e] \in Editing /\ clock \in Nat /\ rEdit[e].stamp <= clock
      /\ 1 <= rEdit[e].stamp
  BY <1>1 DEF ReferencesInv, ReferencesShape
<1>3. doc \in Dated /\ doc.at = rEdit[e].stamp /\ doc.at \in Nat
  BY <1>2 DEF Editing, Dated
<1>4. there \in Editing /\ there.at = "over" /\ there.stamp = 0 /\ there.previous.at = 0
  BY IdleType DEF Editing
<1> HIDE DEF there, doc
<1>5. /\ rEdit' \in [Editors -> Editing] /\ rEdit'[e] = there
      /\ \A o \in Editors : o # e => rEdit'[o] = rEdit[o]
  BY <1>1, <1>4 DEF ReferencesInv, ReferencesShape
<1>6. \A o \in Editors : /\ rEdit'[o].stamp <= clock' /\ rEdit'[o].previous.at <= clock'
                         /\ rEdit'[o].at \in {"find", "archive", "replace"} => 1 <= rEdit'[o].stamp
  BY <1>1, <1>2, <1>4, <1>5 DEF ReferencesInv, ReferencesShape
<1>7. ReferencesShape'
  BY <1>1, <1>2, <1>3, <1>5, <1>6 DEF ReferencesInv, ReferencesShape
<1>8. ASSUME NEW q \in quoted' PROVE Answers(q)' /\ \A o \in Editors : Respects(o, q)'
  <2>1. /\ q \in quoted /\ q.at \in Nat /\ Answers(q)
        /\ \A o \in Editors : Respects(o, q)
    BY <1>1 DEF ReferencesInv, ReferencesShape, Dated
  <2>2. q.at < doc.at /\ Spanned(q)
    BY <1>1, <1>3, <2>1 DEF Respects
  <2>3. Spanned(q)' = Spanned(q) /\ R!Spanning(q.at)' = R!Spanning(q.at)
    BY <1>1 DEF Spanned, R!Spanning
  <2>4. Tells(rStored, q)'
    <3>1. doc.at # 0 /\ ~(doc.at <= q.at)
      BY <1>3, <2>1, <2>2
    <3> QED
      BY <1>1, <2>2, <2>3, <3>1 DEF Tells, R!NoStamp
  <2>5. Answers(q)'
    BY <2>1, <2>3, <2>4 DEF Answers
  <2>6. ASSUME NEW o \in Editors PROVE Respects(o, q)'
    <3>1. CASE o = e
      BY <1>4, <1>5, <3>1 DEF Respects
    <3>2. CASE o # e
      <4>1. Respects(o, q) /\ rEdit'[o] = rEdit[o]
        BY <1>5, <2>1, <3>2
      <4> QED
        BY <2>2, <2>3, <4>1 DEF Respects, Tells
    <3> QED
      BY <3>1, <3>2
  <2> QED
    BY <2>5, <2>6
<1> QED
  BY <1>7, <1>8 DEF ReferencesInv

LEMMA QuoteTaken ==
  ASSUME ReferencesInv, R!Quotes
  PROVE  ReferencesInv'
<1>0. PICK new : /\ new = [at |-> clock + 1, data |-> rStored.data]
                 /\ quoted' = quoted \cup {new}
  BY DEF R!Quotes
<1>1. /\ up /\ rStored.at # 0 /\ \A e \in Editors : rEdit[e].at \in {"idle", "over"}
      /\ clock' = clock + 1 /\ quoted' = quoted \cup {new}
      /\ UNCHANGED <<family, rStored, past, up, rEdit>>
  BY <1>0 DEF R!Quotes, R!Quiet, R!NoStamp
<1>2. /\ clock \in Nat /\ rStored \in Dated /\ rStored.at \in Nat /\ rStored.at <= clock
  BY DEF ReferencesInv, ReferencesShape, Dated
<1>3. new \in Dated /\ new.at = clock + 1 /\ new.data = rStored.data
  BY <1>0, <1>2 DEF Dated
<1>4. /\ \A r \in past : r.from \in Nat /\ r.to \in Nat /\ r.from <= clock /\ r.to <= clock
      /\ \A e \in Editors : /\ rEdit[e].stamp \in Nat /\ rEdit[e].stamp <= clock
                            /\ rEdit[e].previous.at \in Nat /\ rEdit[e].previous.at <= clock
      /\ \A q \in quoted : q.at \in Nat /\ q.at <= clock
  BY DEF ReferencesInv, ReferencesShape, Revision, Editing, Dated
<1>5. \A n \in Nat : n <= clock => n <= clock + 1 /\ ~(clock + 1 <= n)
  BY <1>2
<1>6. ReferencesShape'
  <2>1. \A r \in past' : r.from <= clock' /\ 1 <= r.to /\ r.to <= clock'
    BY <1>1, <1>4, <1>5 DEF ReferencesInv, ReferencesShape
  <2>2. \A e \in Editors : rEdit'[e].stamp <= clock' /\ rEdit'[e].previous.at <= clock'
    BY <1>1, <1>4, <1>5
  <2>3. quoted' \subseteq Dated /\ \A q \in quoted' : q.at <= clock'
    BY <1>1, <1>2, <1>3, <1>4, <1>5 DEF ReferencesInv, ReferencesShape
  <2>4. rStored'.at <= clock' /\ clock' \in Nat
    BY <1>1, <1>2, <1>5
  <2> QED
    BY <1>1, <2>1, <2>2, <2>3, <2>4 DEF ReferencesInv, ReferencesShape
<1>7. \A q \in quoted' : \A e \in Editors : Respects(e, q)'
  BY <1>1 DEF Respects
<1>8. ASSUME NEW q \in quoted PROVE Answers(q)'
  BY <1>1 DEF ReferencesInv, Answers, Tells, Spanned, R!Spanning
<1>9. Answers(new)'
  <2>1. R!Spanning(new.at)' = {}
    BY <1>1, <1>3, <1>4, <1>5 DEF R!Spanning
  <2>2. Tells(rStored, new)'
    <3>1. rStored.at <= new.at /\ ~(new.at < rStored.at)
      BY <1>2, <1>3
    <3> QED
      BY <1>1, <1>3, <3>1 DEF Tells, R!NoStamp
  <2> QED
    BY <2>1, <2>2 DEF Answers
<1> QED
  BY <1>1, <1>6, <1>7, <1>8, <1>9 DEF ReferencesInv

LEMMA ReferencesStart == R!Init => ReferencesInv
<1> SUFFICES ASSUME R!Init PROVE ReferencesInv
  OBVIOUS
<1>1. past = {} /\ quoted = {} /\ clock = 0 /\ rStored = R!NoDoc /\ up = TRUE
  BY DEF R!Init
<1>2. rEdit \in [Editors -> Editing] /\ \A e \in Editors : rEdit[e] = R!Idle
  BY IdleType DEF R!Init
<1>3. family \in {"margins", "tax"}
  BY ReferencesAssumption DEF R!Init
<1>4. past \subseteq Revision /\ IsFiniteSet(past) /\ quoted \subseteq Dated
  BY <1>1, FS_EmptySet
<1>5. ReferencesShape
  BY <1>1, <1>2, <1>3, <1>4, IdleType DEF ReferencesShape
<1> QED
  BY <1>1, <1>5 DEF ReferencesInv

LEMMA ReferencesStep == ReferencesInv /\ [R!Next]_R!vars => ReferencesInv'
<1> SUFFICES ASSUME ReferencesInv, [R!Next]_R!vars PROVE ReferencesInv'
  OBVIOUS
<1>0. CASE UNCHANGED R!vars
  BY <1>0 DEF R!vars, ReferencesInv, ReferencesShape, Answers, Respects, Tells, Spanned,
              R!Spanning
<1>a. /\ clock \in Nat /\ clock <= clock /\ clock <= clock + 1 /\ clock + 1 \in Nat
      /\ 1 <= clock + 1 /\ 0 <= clock
      /\ rStored \in Dated /\ rStored.at <= clock
      /\ \A q \in quoted : q.at \in Nat /\ q.at < clock + 1
  BY DEF ReferencesInv, ReferencesShape, Dated
<1>b. \A e \in Editors : /\ rEdit[e] \in Editing /\ rEdit[e].stamp \in Nat
                         /\ rEdit[e].stamp <= clock /\ rEdit[e].previous.at \in Nat
                         /\ rEdit[e].previous.at <= clock /\ rEdit[e].previous.at <= clock + 1
  BY DEF ReferencesInv, ReferencesShape, Editing, Dated
<1>1. ASSUME NEW e \in Editors, R!Loads(e) \/ R!ensure_reference_seed(e) PROVE ReferencesInv'
  <2>1. \E doc \in Docs : rEdit' = [rEdit EXCEPT ![e] = [@ EXCEPT !.at = "put", !.doc = doc]]
    <3>1. CASE R!Loads(e)
      BY <3>1, LoadedType, ChangedType DEF R!Loads, ReferencesInv
    <3>2. CASE R!ensure_reference_seed(e)
      BY <3>2, IdleType DEF R!ensure_reference_seed
    <3> QED
      BY <1>1, <3>1, <3>2
  <2>2. PICK doc \in Docs : rEdit' = [rEdit EXCEPT ![e] = [@ EXCEPT !.at = "put", !.doc = doc]]
    BY <2>1
  <2> DEFINE there == [rEdit[e] EXCEPT !.at = "put", !.doc = doc]
  <2>3. /\ there \in Editing /\ there.at = "put" /\ there.stamp = rEdit[e].stamp
        /\ there.previous = rEdit[e].previous
    BY <1>b DEF Editing
  <2>4. rEdit' = [rEdit EXCEPT ![e] = there]
    BY <2>2
  <2>5. UNCHANGED <<family, rStored, past, clock, up, quoted>>
    BY <1>1 DEF R!Loads, R!ensure_reference_seed
  <2> HIDE DEF there
  <2> QED
    BY <1>a, <1>b, <2>3, <2>4, <2>5, EditorMoves
<1>2. ASSUME NEW e \in Editors, R!Stamps(e) PROVE ReferencesInv'
  <2> DEFINE there == [rEdit[e] EXCEPT !.at = "find", !.stamp = clock + 1]
  <2>1. /\ there \in Editing /\ there.at = "find" /\ there.stamp = clock + 1
        /\ there.previous = rEdit[e].previous
    BY <1>a, <1>b DEF Editing
  <2>2. rEdit' = [rEdit EXCEPT ![e] = there] /\ clock' = clock + 1
        /\ UNCHANGED <<family, rStored, past, up, quoted>>
    BY <1>2 DEF R!Stamps
  <2> HIDE DEF there
  <2>3. /\ clock' \in Nat /\ clock <= clock' /\ there.stamp <= clock'
        /\ there.previous.at <= clock' /\ 1 <= there.stamp
        /\ \A q \in quoted : q.at < there.stamp
    BY <1>a, <1>b, <2>1, <2>2
  <2> QED
    BY <2>1, <2>2, <2>3, EditorMoves
<1>3. ASSUME NEW e \in Editors, R!Finds(e) PROVE ReferencesInv'
  <2>1. CASE ~up
    BY <1>3, <2>1, EditorEnds DEF R!Finds
  <2>2. CASE up
    <3> DEFINE next  == IF R!Archivable(e, rStored) THEN "archive" ELSE "replace"
               there == [rEdit[e] EXCEPT !.at = next, !.previous = rStored]
    <3>1. /\ there \in Editing /\ there.at = next /\ there.stamp = rEdit[e].stamp
          /\ there.previous = rStored
      BY <1>a, <1>b DEF Editing
    <3>2. /\ rEdit' = [rEdit EXCEPT ![e] = there] /\ rEdit[e].at = "find"
          /\ UNCHANGED <<family, rStored, past, clock, up, quoted>>
      BY <1>3, <2>2 DEF R!Finds
    <3>3. \A q \in quoted : q.at < rEdit[e].stamp /\ Tells(rStored, q)
      BY <3>2 DEF ReferencesInv, Respects, Answers
    <3>4. 1 <= rEdit[e].stamp
      BY <3>2 DEF ReferencesInv, ReferencesShape
    <3>5. \A q \in quoted : next = "archive"
      BY <3>3 DEF R!Archivable, Tells
    <3>6. next \in {"archive", "replace"}
      OBVIOUS
    <3> HIDE DEF there, next
    <3>7. /\ clock' \in Nat /\ clock <= clock' /\ there.stamp <= clock'
          /\ there.previous.at <= clock' /\ 1 <= there.stamp
      BY <1>a, <1>b, <3>1, <3>2, <3>4
    <3>8. \A q \in quoted : /\ q.at < there.stamp /\ Tells(there.previous, q)
                            /\ there.at = "archive"
      BY <3>1, <3>3, <3>5
    <3> QED
      BY <3>1, <3>2, <3>7, <3>8, EditorMoves
  <2> QED
    BY <2>1, <2>2
<1>4. ASSUME NEW e \in Editors, R!_archive(e) PROVE ReferencesInv'
  <2>1. CASE ~up
    BY <1>4, <2>1, EditorEnds DEF R!_archive
  <2> QED
    BY <1>4, <2>1, Archived
<1>5. ASSUME NEW e \in Editors, R!put_family_sync(e) PROVE ReferencesInv'
  <2>1. CASE ~up
    BY <1>5, <2>1, EditorEnds DEF R!put_family_sync
  <2> QED
    BY <1>5, <2>1, Replaced
<1>6. ASSUME NEW e \in Editors, R!Crash(e) PROVE ReferencesInv'
  BY <1>6, EditorEnds DEF R!Crash
<1>7. CASE R!Outage
  <2>1. up' \in BOOLEAN /\ UNCHANGED <<family, rStored, past, clock, rEdit, quoted>>
    BY <1>7 DEF R!Outage
  <2> QED
    BY <2>1 DEF ReferencesInv, ReferencesShape, Answers, Respects, Tells, Spanned, R!Spanning
<1>8. CASE R!Quotes
  BY <1>8, QuoteTaken
<1> QED
  BY <1>0, <1>1, <1>2, <1>3, <1>4, <1>5, <1>6, <1>7, <1>8, ReferencesSteps
     DEF ReferencesActions

\* Of the revisions that span a moment, one was archived first.
LEMMA FirstSpanning ==
  ASSUME ReferencesShape, NEW t \in Nat, R!Spanning(t) # {}
  PROVE  \E r \in R!Spanning(t) : \A s \in R!Spanning(t) : r.to <= s.to
<1> DEFINE S     == R!Spanning(t)
           Lasts == {r.to : r \in S}
           last  == [r \in S |-> r.to]
<1>1. S \subseteq past /\ IsFiniteSet(S)
  BY FS_Subset DEF R!Spanning, ReferencesShape
<1>2. Lasts \in SUBSET Nat /\ Lasts # {}
  BY <1>1 DEF ReferencesShape, Revision
<1>3. IsFiniteSet(Lasts)
  <2>1. last \in Surjection(S, Lasts)
    BY DEF Surjection
  <2> HIDE DEF S, Lasts, last
  <2> QED
    BY <1>1, <2>1, FS_Surjection
<1> HIDE DEF Lasts
<1>4. \E n \in Lasts : \A m \in Lasts : n <= m
  BY <1>2, <1>3, Extremes
<1> QED
  BY <1>4 DEF Lasts

LEMMA ReferencesTyped == ReferencesInv => R!ReferencesTypeOK
<1> SUFFICES ASSUME ReferencesInv PROVE R!ReferencesTypeOK
  OBVIOUS
<1>1. \A doc \in Dated : doc.at <= clock => R!Row(doc)
  BY DocsAreDocuments DEF Dated, R!Row, ReferencesInv, ReferencesShape
<1>2. \A r \in past : r.from \in 0 .. clock /\ r.to \in 1 .. clock /\ R!Document(r.data)
  BY DocsAreDocuments DEF Revision, ReferencesInv, ReferencesShape
<1>3. \A e \in Editors : /\ R!Document(rEdit[e].doc) /\ rEdit[e].stamp \in 0 .. clock
                         /\ R!Row(rEdit[e].previous)
  BY <1>1, DocsAreDocuments DEF Editing, ReferencesInv, ReferencesShape
<1> QED
  BY <1>1, <1>2, <1>3 DEF R!ReferencesTypeOK, ReferencesInv, ReferencesShape

\* What a bid was quoted with while nobody was editing can be asked for ever
\* after: through any number of later edits, one archiving under another, one
\* that died between the archive and the document, one that carries an earlier
\* stamp than the document it replaces (reference_store.py:219-231, 268-278).
THEOREM QuotesCanBeAsked == R!Spec => []HistoryAnswers
<1>1. ASSUME ReferencesInv, up, NEW q \in quoted PROVE R!as_of(q.at) = q.data
  <2>1. q.at \in Nat /\ Answers(q)
    BY <1>1 DEF ReferencesInv, ReferencesShape, Dated
  <2>2. CASE R!Spanning(q.at) = {}
    <3>1. rStored.at # 0 /\ rStored.data = q.data
      BY <1>1, <2>1, <2>2 DEF Answers, Tells, Spanned, R!NoStamp, ReferencesInv, ReferencesShape, Dated
    <3> QED
      BY <1>1, <2>2, <3>1 DEF R!as_of, R!Loaded, R!NoStamp
  <2>3. CASE R!Spanning(q.at) # {}
    <3>1. \E r \in R!Spanning(q.at) : \A s \in R!Spanning(q.at) : r.to <= s.to
      BY <1>1, <2>1, <2>3, FirstSpanning DEF ReferencesInv
    <3> DEFINE first == CHOOSE r \in R!Spanning(q.at) : \A s \in R!Spanning(q.at) : r.to <= s.to
    <3>2. first \in R!Spanning(q.at)
      BY <3>1
    <3>3. R!as_of(q.at) = first.data
      BY <2>3 DEF R!as_of
    <3> HIDE DEF first
    <3> QED
      BY <2>1, <3>2, <3>3 DEF Answers
  <2> QED
    BY <2>2, <2>3
<1>2. ReferencesInv => HistoryAnswers
  BY <1>1 DEF HistoryAnswers, R!HistoryAnswers
<1> QED
  BY ReferencesStart, ReferencesStep, <1>2, PTL DEF R!Spec

-----------------------------------------------------------------------------
(* Learning.                                                               *)

Correction == [spec : Specs, item : Items \cup {L!Nowhere}, applied : BOOLEAN]
Taught     == [item : Items \cup {L!Nowhere}, confirms : Nat, sources : SUBSET Nat]
Draining   == [at : {"idle", "apply", "mark", "over"}, batch : SUBSET Nat, todo : SUBSET Nat]

Holds(stand) ==
  /\ stand.todo \subseteq stand.batch /\ stand.batch \subseteq DOMAIN events
  /\ stand.at \in {"idle", "over"} => stand.batch = {}
  /\ stand.at = "apply" => stand.todo # {}
  /\ stand.at = "mark" => stand.todo = {}

LearningShape ==
  /\ events \in Seq(Correction)
  /\ learned \in [Specs -> Taught]
  /\ drain \in [Drains -> Draining]
  /\ \A d \in Drains : Holds(drain[d])
  /\ crossed \in BOOLEAN

\* The lessons a drain has been through, and those that are marked, are taught;
\* nothing else is.
Through(d) == drain[d].batch \ drain[d].todo

Sourced ==
  \A s \in Specs :
    /\ learned[s].sources \subseteq L!Lessons(s)
    /\ L!Lessons(s) \ L!Queue \subseteq learned[s].sources
    /\ \A d \in Drains : L!Lessons(s) \cap Through(d) \subseteq learned[s].sources

\* A drain under way has read the oldest of the queue, and goes through them in
\* their order.
InOrder(d) ==
  /\ drain[d].batch \subseteq L!Oldest(L!Queue)
  /\ \A j \in drain[d].batch, i \in L!Queue : i < j => i \in drain[d].batch
  /\ \A i \in Through(d), j \in drain[d].todo : i < j

\* A specification means what the latest of these lessons says.
Says(s, lessons) ==
  lessons # {} =>
    \E i \in lessons : learned[s].item = events[i].item /\ \A j \in lessons : j <= i

\* As long as no two drains have overlapped: the oldest events are marked first;
\* what was taught and not marked, by a drain that died, is read again by the
\* next one; and the row follows the drain, or what is marked.
OneByOne ==
  /\ \A d, o \in L!Under : d = o
  /\ \A j \in DOMAIN events : \A i \in L!Queue : i < j => j \in L!Queue
  /\ \A d \in L!Under : InOrder(d)
  /\ \A s \in Specs :
       /\ learned[s].sources \cap L!Queue \subseteq L!Oldest(L!Queue)
       /\ \A d \in L!Under : /\ learned[s].sources \cap L!Queue \subseteq drain[d].batch
                             /\ Says(s, L!Lessons(s) \cap Through(d))
       /\ learned[s].sources \cap L!Queue = {} => Says(s, L!Lessons(s) \ L!Queue)

LearningInv ==
  /\ LearningShape
  /\ Sourced
  /\ ~crossed => OneByOne

LEMMA LearningCounts == \A S : L!Cardinality(S) = Cardinality(S)
BY DEF L!Cardinality, Cardinality

LEMMA QueueType ==
  ASSUME LearningShape
  PROVE  /\ Len(events) \in Nat /\ DOMAIN events = 1 .. Len(events)
         /\ \A i \in DOMAIN events : events[i] \in Correction
         /\ L!Queue \subseteq DOMAIN events /\ L!Queue \in SUBSET Nat /\ IsFiniteSet(L!Queue)
<1>1. Len(events) \in Nat /\ DOMAIN events = 1 .. Len(events)
  BY LenProperties DEF LearningShape
<1>2. \A i \in DOMAIN events : events[i] \in Correction
  BY <1>1, ElementOfSeq DEF LearningShape
<1>3. L!Queue \subseteq DOMAIN events
  BY DEF L!Queue
<1>4. IsFiniteSet(1 .. Len(events))
  BY <1>1, FS_Interval
<1>5. IsFiniteSet(L!Queue)
  BY <1>1, <1>3, <1>4, FS_Subset
<1> QED
  BY <1>1, <1>2, <1>3, <1>5

\* What a drain reads of a queue: something, if there is anything, and with each
\* event all that are older.
LEMMA OldestOf ==
  ASSUME NEW S \in SUBSET Nat, IsFiniteSet(S)
  PROVE  /\ L!Oldest(S) \subseteq S
         /\ S # {} => L!Oldest(S) # {}
         /\ \A i \in L!Oldest(S), k \in S : k < i => k \in L!Oldest(S)
<1> DEFINE Before(i) == {j \in S : j < i}
<1>1. \A i : IsFiniteSet(Before(i)) /\ Cardinality(Before(i)) \in Nat
  BY FS_Subset, FS_CardinalityType
<1>2. L!Oldest(S) = {i \in S : Cardinality(Before(i)) < Limit}
  BY LearningCounts DEF L!Oldest
<1>3. ASSUME S # {} PROVE L!Oldest(S) # {}
  <2>1. PICK n \in S : \A m \in S : n <= m
    BY <1>3, Extremes
  <2>2. Before(n) = {}
    <3>1. \A j \in S : j \in Nat /\ n \in Nat /\ n <= j
      BY <2>1
    <3>2. \A j \in S : ~(j < n)
      BY <3>1
    <3> QED
      BY <3>2
  <2>3. Cardinality(Before(n)) = 0
    BY <2>2, FS_EmptySet
  <2> QED
    BY <1>2, <2>1, <2>3, LearningAssumption
<1>4. ASSUME NEW i \in L!Oldest(S), NEW k \in S, k < i PROVE k \in L!Oldest(S)
  <2>1. i \in S /\ i \in Nat /\ k \in Nat
    BY <1>2
  <2>2. Before(k) \subseteq Before(i)
    <3>1. \A j \in Nat : j < k => j < i
      BY <1>4, <2>1
    <3> QED
      BY <3>1
  <2>3. Cardinality(Before(k)) <= Cardinality(Before(i))
    BY <1>1, <2>2, FS_Subset
  <2>4. Cardinality(Before(i)) < Limit
    BY <1>2
  <2>5. Cardinality(Before(k)) < Limit
    BY <1>1, <2>3, <2>4, LearningAssumption
  <2> QED
    BY <1>2, <2>5
<1> QED
  BY <1>2, <1>3, <1>4

\* What comes last is read last.
LEMMA OldestStay ==
  ASSUME NEW S \in SUBSET Nat, IsFiniteSet(S), NEW n \in Nat, \A i \in S : i <= n
  PROVE  L!Oldest(S) \subseteq L!Oldest(S \cup {n + 1})
<1> SUFFICES ASSUME NEW i \in L!Oldest(S) PROVE i \in L!Oldest(S \cup {n + 1})
  OBVIOUS
<1>1. i \in S /\ i \in Nat /\ i <= n
  BY DEF L!Oldest
<1>2. {j \in S \cup {n + 1} : j < i} = {j \in S : j < i}
  BY <1>1
<1> QED
  BY <1>1, <1>2 DEF L!Oldest

LEMMA LeastOf ==
  ASSUME NEW S \in SUBSET Nat, IsFiniteSet(S), S # {}
  PROVE  L!Min(S) \in S /\ \A m \in S : L!Min(S) <= m
BY Extremes DEF L!Min

LEMMA LessonsType ==
  \A s : L!Lessons(s) \subseteq DOMAIN events
BY DEF L!Lessons

\* Where one drain moves, the others stay.
LEMMA DrainMoves ==
  ASSUME LearningShape, NEW d \in Drains, NEW there \in Draining,
         drain' = [drain EXCEPT ![d] = there]
  PROVE  /\ drain' \in [Drains -> Draining] /\ drain'[d] = there
         /\ \A o \in Drains : o # d => drain'[o] = drain[o] /\ Through(o)' = Through(o)
         /\ Through(d)' = there.batch \ there.todo
BY DEF LearningShape, Through

LEMMA CorrectionRecorded ==
  ASSUME LearningInv, NEW s \in Specs, NEW item \in Items \cup {L!Nowhere}, L!record(s, item)
  PROVE  LearningInv'
<1> DEFINE N   == Len(events)
           new == [spec |-> s, item |-> item, applied |-> FALSE]
<1>1. /\ events' = Append(events, new) /\ UNCHANGED <<learned, drain, crossed>>
      /\ new \in Correction /\ events \in Seq(Correction)
  BY DEF L!record, Correction, LearningInv, LearningShape
<1>2. /\ N \in Nat /\ DOMAIN events = 1 .. N /\ \A i \in DOMAIN events : events[i] \in Correction
      /\ L!Queue \subseteq DOMAIN events /\ L!Queue \in SUBSET Nat /\ IsFiniteSet(L!Queue)
  BY QueueType DEF LearningInv
<1>3. /\ events' \in Seq(Correction) /\ Len(events') = N + 1 /\ DOMAIN events' = 1 .. N + 1
      /\ \A i \in 1 .. N : events'[i] = events[i]
      /\ events'[N + 1] = new
  <2>1. events' \in Seq(Correction) /\ Len(events') = N + 1
        /\ (\A i \in 1 .. N : events'[i] = events[i]) /\ events'[N + 1] = new
    BY <1>1, AppendProperties
  <2> QED
    BY <2>1, LenProperties
<1>4. N + 1 \notin 1 .. N /\ 1 .. N + 1 = (1 .. N) \cup {N + 1}
  BY <1>2
<1>5. L!Queue' = L!Queue \cup {N + 1}
  <2>1. ~new.applied
    OBVIOUS
  <2> HIDE DEF N, new
  <2> QED
    BY <1>2, <1>3, <1>4, <2>1 DEF L!Queue
<1>6. \A u \in Specs : /\ L!Lessons(u) \subseteq L!Lessons(u)'
                       /\ L!Lessons(u)' \subseteq L!Lessons(u) \cup {N + 1}
                       /\ N + 1 \notin L!Lessons(u)
  <2> HIDE DEF N, new
  <2> QED
    BY <1>2, <1>3, <1>4 DEF L!Lessons
<1>7. \A u \in Specs : L!Lessons(u)' \ L!Queue' = L!Lessons(u) \ L!Queue
  BY <1>5, <1>6
<1>8. \A d \in Drains : /\ Through(d)' = Through(d) /\ Through(d) \subseteq 1 .. N
                        /\ drain'[d] = drain[d]
  BY <1>1, <1>2 DEF Through, LearningInv, LearningShape, Holds
<1>9. \A u \in Specs : \A d \in Drains : L!Lessons(u)' \cap Through(d)' = L!Lessons(u) \cap Through(d)
  BY <1>4, <1>6, <1>8
<1>10. L!Oldest(L!Queue) \subseteq L!Oldest(L!Queue)'
  <2>1. \A i \in L!Queue : i <= N
    BY <1>2
  <2>2. L!Oldest(L!Queue) \subseteq L!Oldest(L!Queue \cup {N + 1})
    BY <1>2, <2>1, OldestStay
  <2>3. L!Oldest(L!Queue)' = L!Oldest(L!Queue')
    BY DEF L!Oldest
  <2> QED
    BY <1>5, <2>2, <2>3
<1>11. \A u \in Specs : learned'[u] = learned[u] /\ N + 1 \notin learned[u].sources
  BY <1>1, <1>6 DEF LearningInv, Sourced
<1> HIDE DEF N, new
<1>12. LearningShape'
  <2>1. \A d \in Drains : Holds(drain[d])'
    BY <1>1, <1>2, <1>3, <1>4, <1>8 DEF LearningInv, LearningShape, Holds
  <2> QED
    BY <1>1, <1>3, <2>1 DEF LearningInv, LearningShape
<1>13. Sourced'
  <2> SUFFICES ASSUME NEW u \in Specs
               PROVE  /\ learned'[u].sources \subseteq L!Lessons(u)'
                      /\ L!Lessons(u)' \ L!Queue' \subseteq learned'[u].sources
                      /\ \A d \in Drains : L!Lessons(u)' \cap Through(d)' \subseteq learned'[u].sources
    BY DEF Sourced
  <2> QED
    BY <1>6, <1>7, <1>9, <1>11 DEF LearningInv, Sourced
<1>14. ASSUME ~crossed' PROVE OneByOne'
  <2>1. OneByOne /\ L!Under' = L!Under /\ L!Under \subseteq Drains
    BY <1>1, <1>14 DEF LearningInv, L!Under
  <2>2. \A j \in DOMAIN events' : \A i \in L!Queue' : i < j => j \in L!Queue'
    BY <1>2, <1>3, <1>4, <1>5, <2>1 DEF OneByOne
  <2>3. ASSUME NEW d \in L!Under PROVE InOrder(d)'
    <3>1. InOrder(d) /\ drain'[d] = drain[d] /\ drain[d].batch \subseteq 1 .. N
      BY <1>2, <1>8, <2>1 DEF OneByOne, LearningInv, LearningShape, Holds
    <3>2. \A j \in drain[d].batch : ~(N + 1 < j)
      BY <1>2, <3>1
    <3> QED
      BY <1>5, <1>8, <1>10, <2>1, <3>1, <3>2 DEF InOrder
  <2>4. ASSUME NEW u \in Specs
        PROVE  /\ learned'[u].sources \cap L!Queue' \subseteq L!Oldest(L!Queue)'
               /\ \A d \in L!Under : /\ learned'[u].sources \cap L!Queue' \subseteq drain'[d].batch
                                     /\ Says(u, L!Lessons(u) \cap Through(d))'
               /\ learned'[u].sources \cap L!Queue' = {} => Says(u, L!Lessons(u) \ L!Queue)'
    <3>1. learned'[u].sources \cap L!Queue' = learned[u].sources \cap L!Queue
      BY <1>5, <1>11
    <3>2. learned[u].sources \cap L!Queue \subseteq L!Oldest(L!Queue)
      BY <2>1 DEF OneByOne
    <3>3. ASSUME NEW X \in SUBSET (1 .. N), Says(u, X)
          PROVE  X # {} => \E i \in X : learned'[u].item = events'[i].item /\ \A j \in X : j <= i
      BY <1>3, <1>11, <3>3 DEF Says
    <3>4. ASSUME NEW d \in L!Under
          PROVE  /\ learned'[u].sources \cap L!Queue' \subseteq drain'[d].batch
                 /\ Says(u, L!Lessons(u) \cap Through(d))'
      <4>1. /\ Says(u, L!Lessons(u) \cap Through(d))
            /\ learned[u].sources \cap L!Queue \subseteq drain[d].batch
        BY <2>1 DEF OneByOne
      <4> DEFINE X == L!Lessons(u) \cap Through(d)
      <4>2. X \in SUBSET (1 .. N) /\ Says(u, X)
        BY <1>8, <2>1, <4>1
      <4>3. L!Lessons(u)' \cap Through(d)' = X
        BY <1>9, <2>1
      <4> HIDE DEF X
      <4>4. X # {} => \E i \in X : learned'[u].item = events'[i].item /\ \A j \in X : j <= i
        BY <3>3, <4>2
      <4>5. Says(u, L!Lessons(u) \cap Through(d))'
        BY <4>3, <4>4 DEF Says
      <4> QED
        BY <1>8, <2>1, <3>1, <4>1, <4>5
    <3>5. ASSUME learned'[u].sources \cap L!Queue' = {} PROVE Says(u, L!Lessons(u) \ L!Queue)'
      <4> DEFINE X == L!Lessons(u) \ L!Queue
      <4>1. X \in SUBSET (1 .. N) /\ Says(u, X)
        BY <1>2, <2>1, <3>1, <3>5, LessonsType DEF OneByOne
      <4>2. L!Lessons(u)' \ L!Queue' = X
        BY <1>7
      <4> HIDE DEF X
      <4>3. X # {} => \E i \in X : learned'[u].item = events'[i].item /\ \A j \in X : j <= i
        BY <3>3, <4>1
      <4> QED
        BY <4>2, <4>3 DEF Says
    <3> QED
      BY <1>10, <3>1, <3>2, <3>4, <3>5
  <2>5. \A d, o \in L!Under' : d = o
    BY <2>1 DEF OneByOne
  <2> QED
    BY <2>1, <2>2, <2>3, <2>4, <2>5 DEF OneByOne
<1> QED
  BY <1>12, <1>13, <1>14 DEF LearningInv

LEMMA DrainReads ==
  ASSUME LearningInv, NEW d \in Drains, L!unapplied(d)
  PROVE  LearningInv'
<1>0. PICK read : read = L!Oldest(L!Queue)
  OBVIOUS
<1> DEFINE there == [at |-> "apply", batch |-> read, todo |-> read]
<1>1. /\ drain' = [drain EXCEPT ![d] = there] /\ UNCHANGED <<events, learned>>
      /\ crossed' = (crossed \/ L!Under # {}) /\ L!Queue # {}
  BY <1>0 DEF L!unapplied
<1>2. /\ L!Queue \subseteq DOMAIN events /\ L!Queue \in SUBSET Nat /\ IsFiniteSet(L!Queue)
  BY QueueType DEF LearningInv
<1>3. /\ read \subseteq L!Queue /\ read # {}
      /\ \A i \in read, k \in L!Queue : k < i => k \in read
  BY <1>0, <1>1, <1>2, OldestOf
<1>4. there \in Draining /\ there.at = "apply" /\ there.batch = read /\ there.todo = read
  BY <1>2, <1>3 DEF Draining
<1> HIDE DEF there
<1>5. /\ drain' \in [Drains -> Draining] /\ drain'[d] = there
      /\ \A o \in Drains : o # d => drain'[o] = drain[o] /\ Through(o)' = Through(o)
      /\ Through(d)' = {}
  BY <1>1, <1>4, DrainMoves DEF LearningInv
<1>6. /\ L!Queue' = L!Queue /\ L!Oldest(L!Queue)' = read
      /\ \A u \in Specs : L!Lessons(u)' = L!Lessons(u)
  BY <1>0, <1>1 DEF L!Queue, L!Oldest, L!Lessons
<1>7. LearningShape'
  <2>1. Holds(drain[d])'
    BY <1>1, <1>2, <1>3, <1>4, <1>5 DEF Holds
  <2>2. \A o \in Drains : o # d => Holds(drain[o])'
    BY <1>1, <1>5 DEF Holds, LearningInv, LearningShape
  <2>3. crossed' \in BOOLEAN
    BY <1>1 DEF LearningInv, LearningShape
  <2> QED
    BY <1>1, <1>5, <2>1, <2>2, <2>3 DEF LearningInv, LearningShape
<1>8. Sourced'
  <2> SUFFICES ASSUME NEW u \in Specs
               PROVE  /\ learned'[u].sources \subseteq L!Lessons(u)'
                      /\ L!Lessons(u)' \ L!Queue' \subseteq learned'[u].sources
                      /\ \A o \in Drains : L!Lessons(u)' \cap Through(o)' \subseteq learned'[u].sources
    BY DEF Sourced
  <2>1. \A o \in Drains : L!Lessons(u)' \cap Through(o)' \subseteq learned'[u].sources
    BY <1>1, <1>5, <1>6 DEF LearningInv, Sourced
  <2> QED
    BY <1>1, <1>6, <2>1 DEF LearningInv, Sourced
<1>9. ASSUME ~crossed' PROVE OneByOne'
  <2>1. ~crossed /\ L!Under = {} /\ OneByOne
    BY <1>1, <1>9 DEF LearningInv
  <2>2. \A o \in Drains : o # d => drain'[o].at \in {"idle", "over"}
    BY <1>5, <2>1 DEF L!Under
  <2>3. \A o \in L!Under' : o = d
    BY <2>2 DEF L!Under
  <2>4. InOrder(d)'
    BY <1>3, <1>4, <1>5, <1>6 DEF InOrder
  <2>5. ASSUME NEW u \in Specs
        PROVE  /\ learned'[u].sources \cap L!Queue' \subseteq L!Oldest(L!Queue)'
               /\ learned'[u].sources \cap L!Queue' \subseteq drain'[d].batch
               /\ Says(u, L!Lessons(u) \cap Through(d))'
               /\ learned'[u].sources \cap L!Queue' = {} => Says(u, L!Lessons(u) \ L!Queue)'
    <3>1. learned'[u].sources \cap L!Queue' \subseteq read
      BY <1>0, <1>1, <1>6, <2>1 DEF OneByOne
    <3>2. Says(u, L!Lessons(u) \cap Through(d))'
      BY <1>5 DEF Says
    <3>3. learned'[u].sources \cap L!Queue' = {} => Says(u, L!Lessons(u) \ L!Queue)'
      BY <1>1, <1>6, <2>1 DEF OneByOne, Says
    <3> QED
      BY <1>4, <1>5, <1>6, <3>1, <3>2, <3>3
  <2>6. \A j \in DOMAIN events' : \A i \in L!Queue' : i < j => j \in L!Queue'
    BY <1>1, <1>6, <2>1 DEF OneByOne
  <2> QED
    BY <2>3, <2>4, <2>5, <2>6 DEF OneByOne
<1> QED
  BY <1>7, <1>8, <1>9 DEF LearningInv

LEMMA LessonTaught ==
  ASSUME LearningInv, NEW d \in Drains, L!confirm(d)
  PROVE  LearningInv'
<1>1. PICK e : e = L!Min(drain[d].todo)
  OBVIOUS
<1> DEFINE left  == drain[d].todo \ {e}
           there == [drain[d] EXCEPT !.todo = left, !.at = IF left = {} THEN "mark" ELSE @]
<1>2. /\ drain[d].at = "apply" /\ drain' = [drain EXCEPT ![d] = there]
      /\ UNCHANGED <<events, crossed>>
      /\ learned' = IF events[e].item = L!Nowhere THEN learned
                    ELSE [learned EXCEPT ![events[e].spec] = L!Confirmed(@, e)]
  BY <1>1 DEF L!confirm
<1>3. /\ drain[d] \in Draining /\ drain[d].todo \subseteq drain[d].batch
      /\ drain[d].batch \subseteq DOMAIN events /\ drain[d].todo # {}
  BY <1>2 DEF LearningInv, LearningShape, Holds
<1>4. /\ Len(events) \in Nat /\ DOMAIN events = 1 .. Len(events)
      /\ \A i \in DOMAIN events : events[i] \in Correction
  BY QueueType DEF LearningInv
<1>5. e \in drain[d].todo /\ \A i \in drain[d].todo : e <= i
  <2>1. drain[d].todo \in SUBSET Nat /\ IsFiniteSet(drain[d].todo)
    <3>1. drain[d].todo \subseteq 1 .. Len(events) /\ IsFiniteSet(1 .. Len(events))
      BY <1>3, <1>4, FS_Interval
    <3>2. 1 .. Len(events) \subseteq Nat
      BY <1>4
    <3> QED
      BY <3>1, <3>2, FS_Subset
  <2> QED
    BY <1>1, <1>3, <2>1, LeastOf
<1>6. /\ e \in DOMAIN events /\ e \in Nat /\ events[e] \in Correction
      /\ events[e].spec \in Specs /\ events[e].item \in Items \cup {L!Nowhere}
  BY <1>3, <1>4, <1>5 DEF Correction
<1>7. /\ there \in Draining /\ there.at \in {"apply", "mark"} /\ there.batch = drain[d].batch
      /\ there.todo = left /\ (there.at = "apply" => left # {}) /\ (there.at = "mark" => left = {})
  BY <1>2, <1>3 DEF Draining
<1>8. left \subseteq drain[d].todo /\ e \notin left /\ drain[d].todo = left \cup {e}
  BY <1>5
<1> HIDE DEF left, there
<1>9. /\ drain' \in [Drains -> Draining] /\ drain'[d] = there
      /\ \A o \in Drains : o # d => drain'[o] = drain[o] /\ Through(o)' = Through(o)
      /\ Through(d)' = drain[d].batch \ left
  BY <1>2, <1>7, DrainMoves DEF LearningInv
<1>10. Through(d)' = Through(d) \cup {e} /\ e \notin Through(d)
  BY <1>3, <1>5, <1>8, <1>9 DEF Through
<1>11. /\ L!Queue' = L!Queue /\ L!Oldest(L!Queue)' = L!Oldest(L!Queue)
       /\ \A u : L!Lessons(u)' = L!Lessons(u)
  BY <1>2 DEF L!Queue, L!Oldest, L!Lessons
<1>12. ASSUME NEW u \in Specs, e \notin L!Lessons(u) PROVE learned'[u] = learned[u]
  <2>1. CASE events[e].item = L!Nowhere
    BY <1>2, <2>1
  <2>2. CASE events[e].item # L!Nowhere
    <3>1. events[e].spec # u
      BY <1>6, <1>12, <2>2 DEF L!Lessons
    <3> QED
      BY <1>2, <2>2, <3>1 DEF LearningInv, LearningShape
  <2> QED
    BY <2>1, <2>2
<1>13. ASSUME NEW u \in Specs, e \in L!Lessons(u)
       PROVE  /\ learned'[u].item = events[e].item /\ learned'[u] \in Taught
              /\ learned'[u].sources = learned[u].sources \cup {e}
  <2>1. events[e].item # L!Nowhere /\ events[e].spec = u /\ learned[u] \in Taught
    BY <1>13 DEF L!Lessons, LearningInv, LearningShape
  <2>2. learned'[u] = L!Confirmed(learned[u], e)
    BY <1>2, <2>1 DEF LearningInv, LearningShape
  <2> QED
    BY <1>6, <2>1, <2>2 DEF L!Confirmed, Taught
<1>14. learned' \in [Specs -> Taught]
  <2>1. \A u \in Specs : learned'[u] \in Taught
    BY <1>12, <1>13 DEF LearningInv, LearningShape
  <2>2. learned' = [u \in Specs |-> learned'[u]]
    BY <1>2 DEF LearningInv, LearningShape
  <2> HIDE DEF LearningInv
  <2> QED
    BY <2>1, <2>2
<1>15. LearningShape'
  <2>1. Holds(drain[d])'
    BY <1>2, <1>3, <1>7, <1>8, <1>9 DEF Holds
  <2>2. \A o \in Drains : o # d => Holds(drain[o])'
    BY <1>2, <1>9 DEF Holds, LearningInv, LearningShape
  <2> QED
    BY <1>2, <1>9, <1>14, <2>1, <2>2 DEF LearningInv, LearningShape
<1>16. ASSUME NEW u \in Specs
       PROVE  /\ learned[u].sources \subseteq learned'[u].sources
              /\ learned'[u].sources \subseteq learned[u].sources \cup {e}
              /\ e \in learned'[u].sources <=> e \in L!Lessons(u)
  <2>1. CASE e \in L!Lessons(u)
    BY <1>13, <2>1
  <2>2. CASE e \notin L!Lessons(u)
    BY <1>12, <2>2 DEF LearningInv, Sourced
  <2> QED
    BY <2>1, <2>2
<1>17. Sourced'
  <2> SUFFICES ASSUME NEW u \in Specs
               PROVE  /\ learned'[u].sources \subseteq L!Lessons(u)'
                      /\ L!Lessons(u)' \ L!Queue' \subseteq learned'[u].sources
                      /\ \A o \in Drains : L!Lessons(u)' \cap Through(o)' \subseteq learned'[u].sources
    BY DEF Sourced
  <2>1. /\ learned[u].sources \subseteq L!Lessons(u)
        /\ L!Lessons(u) \ L!Queue \subseteq learned[u].sources
        /\ \A o \in Drains : L!Lessons(u) \cap Through(o) \subseteq learned[u].sources
    BY DEF LearningInv, Sourced
  <2>2. \A o \in Drains : L!Lessons(u)' \cap Through(o)' \subseteq learned'[u].sources
    BY <1>9, <1>10, <1>11, <1>16, <2>1
  <2> QED
    BY <1>11, <1>16, <2>1, <2>2
<1>18. ASSUME ~crossed' PROVE OneByOne'
  <2>1. OneByOne /\ d \in L!Under
    BY <1>2, <1>18 DEF LearningInv, L!Under
  <2>2. L!Under = {d} /\ L!Under' = {d}
    <3>1. L!Under = {d}
      BY <2>1 DEF OneByOne
    <3>2. L!Under' = L!Under
      BY <1>7, <1>9, <2>1 DEF L!Under
    <3> QED
      BY <3>1, <3>2
  <2>3. InOrder(d)
    BY <2>1 DEF OneByOne
  <2>4. \A i \in Through(d) : i < e
    BY <1>5, <2>3 DEF InOrder
  <2>5. InOrder(d)'
    <3>1. ASSUME NEW i \in Through(d)', NEW j \in left PROVE i < j
      <4>1. CASE i \in Through(d)
        BY <1>8, <2>3, <3>1, <4>1 DEF InOrder
      <4>2. CASE i = e
        <5>1. e <= j /\ e # j /\ j \in Nat
          BY <1>3, <1>4, <1>5, <1>8, <3>1
        <5> QED
          BY <1>6, <4>2, <5>1
      <4> QED
        BY <1>10, <3>1, <4>1, <4>2
    <3> QED
      BY <1>7, <1>9, <1>11, <2>3, <3>1 DEF InOrder
  <2>6. e \in L!Queue /\ e \in L!Oldest(L!Queue) /\ e \in drain[d].batch
    BY <1>3, <1>5, <2>3 DEF InOrder, L!Oldest
  <2>7. ASSUME NEW u \in Specs
        PROVE  /\ learned'[u].sources \cap L!Queue' \subseteq L!Oldest(L!Queue)'
               /\ learned'[u].sources \cap L!Queue' \subseteq drain'[d].batch
               /\ Says(u, L!Lessons(u) \cap Through(d))'
               /\ learned'[u].sources \cap L!Queue' = {} => Says(u, L!Lessons(u) \ L!Queue)'
    <3>1. /\ learned[u].sources \cap L!Queue \subseteq L!Oldest(L!Queue)
          /\ learned[u].sources \cap L!Queue \subseteq drain[d].batch
          /\ Says(u, L!Lessons(u) \cap Through(d))
          /\ learned[u].sources \cap L!Queue = {} => Says(u, L!Lessons(u) \ L!Queue)
      BY <2>1, <2>2 DEF OneByOne
    <3>2. Says(u, L!Lessons(u) \cap Through(d))'
      <4>1. CASE e \in L!Lessons(u)
        <5>1. e \in L!Lessons(u)' \cap Through(d)'
          BY <1>10, <1>11, <4>1
        <5>2. \A i \in Through(d)' : i <= e
          <6>1. \A i \in Through(d) : i \in Nat /\ i < e
            BY <1>3, <1>4, <2>4 DEF Through
          <6>2. \A i \in Through(d) : i <= e
            BY <1>6, <6>1
          <6> QED
            BY <1>6, <1>10, <6>2
        <5> QED
          BY <1>2, <1>13, <4>1, <5>1, <5>2 DEF Says
      <4>2. CASE e \notin L!Lessons(u)
        <5>1. L!Lessons(u)' \cap Through(d)' = L!Lessons(u) \cap Through(d)
          BY <1>10, <1>11, <4>2
        <5> QED
          BY <1>2, <1>12, <3>1, <4>2, <5>1 DEF Says
      <4> QED
        BY <4>1, <4>2
    <3>3. ASSUME learned'[u].sources \cap L!Queue' = {} PROVE Says(u, L!Lessons(u) \ L!Queue)'
      <4>1. e \notin L!Lessons(u)
        BY <1>11, <1>16, <2>6, <3>3
      <4>2. learned'[u] = learned[u]
        BY <1>12, <4>1
      <4> QED
        BY <1>2, <1>11, <3>1, <3>3, <4>2 DEF Says
    <3>4. learned'[u].sources \cap L!Queue' \subseteq (learned[u].sources \cap L!Queue) \cup {e}
      BY <1>11, <1>16
    <3> QED
      BY <1>7, <1>9, <1>11, <2>6, <3>1, <3>2, <3>3, <3>4
  <2>8. \A j \in DOMAIN events' : \A i \in L!Queue' : i < j => j \in L!Queue'
    BY <1>2, <1>11, <2>1 DEF OneByOne
  <2> QED
    BY <2>2, <2>5, <2>7, <2>8 DEF OneByOne
<1> QED
  BY <1>15, <1>17, <1>18 DEF LearningInv

LEMMA DrainOver ==
  LET over == [L!Resting EXCEPT !.at = "over"]
  IN  over \in Draining /\ over.at = "over" /\ over.batch = {} /\ over.todo = {}
BY DEF L!Resting, Draining

LEMMA BatchMarked ==
  ASSUME LearningInv, NEW d \in Drains, L!mark_applied(d)
  PROVE  LearningInv'
<1>1. PICK batch : batch = drain[d].batch
  OBVIOUS
<1> DEFINE over == [L!Resting EXCEPT !.at = "over"]
<1>2. /\ drain[d].at = "mark" /\ drain' = [drain EXCEPT ![d] = over]
      /\ UNCHANGED <<learned, crossed>>
      /\ events' = [i \in DOMAIN events |->
                     IF i \in batch THEN [events[i] EXCEPT !.applied = TRUE] ELSE events[i]]
  BY <1>1 DEF L!mark_applied, L!Drained
<1>3. over \in Draining /\ over.at = "over" /\ over.batch = {} /\ over.todo = {}
  BY DrainOver
<1> HIDE DEF over
<1>4. drain[d].todo = {} /\ batch \subseteq DOMAIN events /\ Through(d) = batch
  BY <1>1, <1>2 DEF LearningInv, LearningShape, Holds, Through
<1>5. /\ Len(events) \in Nat /\ DOMAIN events = 1 .. Len(events)
      /\ \A i \in DOMAIN events : events[i] \in Correction
      /\ L!Queue \subseteq DOMAIN events
  BY QueueType DEF LearningInv
<1>6. /\ drain' \in [Drains -> Draining] /\ drain'[d] = over
      /\ \A o \in Drains : o # d => drain'[o] = drain[o] /\ Through(o)' = Through(o)
      /\ Through(d)' = {}
  BY <1>2, <1>3, DrainMoves DEF LearningInv
<1>7. /\ DOMAIN events' = DOMAIN events
      /\ \A i \in DOMAIN events :
           /\ events'[i] \in Correction /\ events'[i].item = events[i].item
           /\ events'[i].spec = events[i].spec
           /\ events'[i].applied <=> (events[i].applied \/ i \in batch)
  BY <1>2, <1>5 DEF Correction
<1>8. L!Queue' = L!Queue \ batch
  BY <1>7 DEF L!Queue
<1>9. \A u : L!Lessons(u)' = L!Lessons(u)
  BY <1>7 DEF L!Lessons
<1>10. events' \in Seq(Correction)
  BY <1>5, <1>7, <1>2
<1>11. LearningShape'
  <2>1. Holds(drain[d])'
    BY <1>3, <1>6, <1>7 DEF Holds
  <2>2. \A o \in Drains : o # d => Holds(drain[o])'
    BY <1>6, <1>7 DEF Holds, LearningInv, LearningShape
  <2> QED
    BY <1>2, <1>6, <1>10, <2>1, <2>2 DEF LearningInv, LearningShape
<1>12. Sourced'
  <2> SUFFICES ASSUME NEW u \in Specs
               PROVE  /\ learned'[u].sources \subseteq L!Lessons(u)'
                      /\ L!Lessons(u)' \ L!Queue' \subseteq learned'[u].sources
                      /\ \A o \in Drains : L!Lessons(u)' \cap Through(o)' \subseteq learned'[u].sources
    BY DEF Sourced
  <2>1. /\ learned[u].sources \subseteq L!Lessons(u)
        /\ L!Lessons(u) \ L!Queue \subseteq learned[u].sources
        /\ \A o \in Drains : L!Lessons(u) \cap Through(o) \subseteq learned[u].sources
    BY DEF LearningInv, Sourced
  <2>2. L!Lessons(u)' \ L!Queue' \subseteq learned'[u].sources
    BY <1>2, <1>4, <1>8, <1>9, <2>1
  <2>3. \A o \in Drains : L!Lessons(u)' \cap Through(o)' \subseteq learned'[u].sources
    BY <1>2, <1>6, <1>9, <2>1
  <2> QED
    BY <1>2, <1>9, <2>1, <2>2, <2>3
<1>13. ASSUME ~crossed' PROVE OneByOne'
  <2>1. OneByOne /\ d \in L!Under /\ InOrder(d)
    BY <1>2, <1>13 DEF LearningInv, L!Under, OneByOne
  <2>2. L!Under' = {}
    <3>1. \A o \in Drains : o # d => drain[o].at \in {"idle", "over"}
      BY <2>1 DEF OneByOne, L!Under
    <3> QED
      BY <1>3, <1>6, <3>1 DEF L!Under
  <2>3. /\ batch \subseteq L!Queue
        /\ \A j \in batch, i \in L!Queue : i < j => i \in batch
        /\ \A j \in DOMAIN events : \A i \in L!Queue : i < j => j \in L!Queue
    BY <1>1, <2>1 DEF InOrder, OneByOne, L!Oldest
  <2>4. \A j \in DOMAIN events' : \A i \in L!Queue' : i < j => j \in L!Queue'
    BY <1>7, <1>8, <2>3
  <2>5. ASSUME NEW u \in Specs
        PROVE  /\ learned'[u].sources \cap L!Queue' = {}
               /\ Says(u, L!Lessons(u) \ L!Queue)'
    <3>1. /\ learned[u].sources \cap L!Queue \subseteq batch
          /\ Says(u, L!Lessons(u) \cap batch)
          /\ learned[u].sources \cap L!Queue = {} => Says(u, L!Lessons(u) \ L!Queue)
      BY <1>1, <1>4, <2>1 DEF OneByOne
    <3>2. learned'[u].sources \cap L!Queue' = {}
      BY <1>2, <1>8, <3>1
    <3>3. Says(u, L!Lessons(u) \ L!Queue)'
      <4>1. CASE L!Lessons(u) \cap batch # {}
        <5>1. PICK i \in L!Lessons(u) \cap batch :
                learned[u].item = events[i].item /\ \A j \in L!Lessons(u) \cap batch : j <= i
          BY <3>1, <4>1 DEF Says
        <5>2. i \in L!Lessons(u)' \ L!Queue' /\ i \in DOMAIN events
          BY <1>4, <1>8, <1>9
        <5>3. ASSUME NEW j \in L!Lessons(u)' \ L!Queue' PROVE j <= i
          <6>1. CASE j \in batch
            BY <1>9, <5>1, <5>3, <6>1
          <6>2. CASE j \notin batch
            <7>1. j \notin L!Queue /\ j \in DOMAIN events /\ j \in Nat /\ i \in Nat
              BY <1>5, <1>8, <1>9, <5>2, <5>3, <6>2, LessonsType
            <7>2. ~(i < j)
              BY <2>3, <7>1
            <7> QED
              BY <7>1, <7>2
          <6> QED
            BY <6>1, <6>2
        <5>4. learned'[u].item = events'[i].item
          BY <1>2, <1>7, <5>1, <5>2
        <5> QED
          BY <5>2, <5>3, <5>4 DEF Says
      <4>2. CASE L!Lessons(u) \cap batch = {}
        <5>1. L!Lessons(u)' \ L!Queue' = L!Lessons(u) \ L!Queue
          BY <1>8, <1>9, <4>2
        <5>2. learned[u].sources \cap L!Queue = {}
          BY <3>1, <4>2 DEF LearningInv, Sourced
        <5>3. L!Lessons(u) \subseteq DOMAIN events
          BY LessonsType
        <5> QED
          BY <1>2, <1>7, <3>1, <5>1, <5>2, <5>3 DEF Says
      <4> QED
        BY <4>1, <4>2
    <3> QED
      BY <3>2, <3>3
  <2> QED
    BY <2>2, <2>4, <2>5 DEF OneByOne
<1> QED
  BY <1>11, <1>12, <1>13 DEF LearningInv

LEMMA DrainDies ==
  ASSUME LearningInv, NEW d \in Drains, L!Dies(d)
  PROVE  LearningInv'
<1> DEFINE over == [L!Resting EXCEPT !.at = "over"]
<1>1. /\ drain' = [drain EXCEPT ![d] = over] /\ UNCHANGED <<events, learned, crossed>>
  BY DEF L!Dies
<1>2. over \in Draining /\ over.at = "over" /\ over.batch = {} /\ over.todo = {}
  BY DrainOver
<1> HIDE DEF over
<1>3. /\ drain' \in [Drains -> Draining] /\ drain'[d] = over
      /\ \A o \in Drains : o # d => drain'[o] = drain[o] /\ Through(o)' = Through(o)
      /\ Through(d)' = {}
  BY <1>1, <1>2, DrainMoves DEF LearningInv
<1>4. /\ L!Queue' = L!Queue /\ L!Oldest(L!Queue)' = L!Oldest(L!Queue)
      /\ \A u : L!Lessons(u)' = L!Lessons(u)
  BY <1>1 DEF L!Queue, L!Oldest, L!Lessons
<1>5. LearningShape'
  <2>1. Holds(drain[d])'
    BY <1>1, <1>2, <1>3 DEF Holds
  <2>2. \A o \in Drains : o # d => Holds(drain[o])'
    BY <1>1, <1>3 DEF Holds, LearningInv, LearningShape
  <2> QED
    BY <1>1, <1>3, <2>1, <2>2 DEF LearningInv, LearningShape
<1>6. Sourced'
  <2>1. \A u \in Specs : \A o \in Drains : L!Lessons(u)' \cap Through(o)' \subseteq learned'[u].sources
    BY <1>1, <1>3, <1>4 DEF LearningInv, Sourced
  <2> QED
    BY <1>1, <1>4, <2>1 DEF LearningInv, Sourced
<1>7. ASSUME ~crossed' PROVE OneByOne'
  <2>1. OneByOne
    BY <1>1, <1>7 DEF LearningInv
  <2>2. \A o \in L!Under' : o \in L!Under /\ o \in Drains /\ o # d
    BY <1>2, <1>3 DEF L!Under
  <2>3. \A o, q \in L!Under' : o = q
    BY <2>1, <2>2 DEF OneByOne
  <2>4. \A o \in L!Under' : InOrder(o)'
    BY <1>3, <1>4, <2>1, <2>2 DEF OneByOne, InOrder
  <2>5. ASSUME NEW u \in Specs
        PROVE  /\ learned'[u].sources \cap L!Queue' \subseteq L!Oldest(L!Queue)'
               /\ \A o \in L!Under' : /\ learned'[u].sources \cap L!Queue' \subseteq drain'[o].batch
                                      /\ Says(u, L!Lessons(u) \cap Through(o))'
               /\ learned'[u].sources \cap L!Queue' = {} => Says(u, L!Lessons(u) \ L!Queue)'
    <3>1. \A o \in L!Under' : /\ learned'[u].sources \cap L!Queue' \subseteq drain'[o].batch
                              /\ Says(u, L!Lessons(u) \cap Through(o))'
      BY <1>1, <1>3, <1>4, <2>1, <2>2 DEF OneByOne, Says
    <3>2. learned'[u].sources \cap L!Queue' = {} => Says(u, L!Lessons(u) \ L!Queue)'
      BY <1>1, <1>4, <2>1 DEF OneByOne, Says
    <3> QED
      BY <1>1, <1>4, <2>1, <3>1, <3>2 DEF OneByOne
  <2> QED
    BY <1>1, <1>4, <2>1, <2>3, <2>4, <2>5 DEF OneByOne
<1> QED
  BY <1>5, <1>6, <1>7 DEF LearningInv

LEMMA LearningStart == L!Init => LearningInv
<1> SUFFICES ASSUME L!Init PROVE LearningInv
  OBVIOUS
<1>1. events = <<>> /\ crossed = FALSE /\ \A d \in Drains : drain[d] = L!Resting
  BY DEF L!Init
<1>2. L!Resting \in Draining /\ L!Resting.at = "idle" /\ L!Resting.batch = {} /\ L!Resting.todo = {}
  BY DEF L!Resting, Draining
<1>3. L!Untaught \in Taught /\ L!Untaught.sources = {}
  BY DEF L!Untaught, Taught
<1>4. DOMAIN events = {} /\ L!Queue = {} /\ L!Under = {} /\ \A u : L!Lessons(u) = {}
  BY <1>1, <1>2 DEF L!Queue, L!Under, L!Lessons
<1>5. LearningShape
  <2>1. drain \in [Drains -> Draining] /\ learned \in [Specs -> Taught]
    BY <1>2, <1>3 DEF L!Init
  <2>2. events \in Seq(Correction)
    BY <1>1
  <2>3. \A d \in Drains : Holds(drain[d])
    BY <1>1, <1>2, <1>4 DEF Holds
  <2> QED
    BY <1>1, <2>1, <2>2, <2>3 DEF LearningShape
<1>6. Sourced
  BY <1>3, <1>4 DEF Sourced, L!Init
<1>7. OneByOne
  BY <1>3, <1>4 DEF OneByOne, Says
<1> QED
  BY <1>5, <1>6, <1>7 DEF LearningInv

LEMMA LearningStep == LearningInv /\ [L!Next]_L!vars => LearningInv'
<1> SUFFICES ASSUME LearningInv, [L!Next]_L!vars PROVE LearningInv'
  OBVIOUS
<1>1. CASE UNCHANGED L!vars
  <2>1. /\ UNCHANGED <<events, learned, drain, crossed>>
        /\ L!Queue' = L!Queue /\ L!Oldest(L!Queue)' = L!Oldest(L!Queue) /\ L!Under' = L!Under
        /\ \A u : L!Lessons(u)' = L!Lessons(u)
        /\ \A d : Through(d)' = Through(d)
    BY <1>1 DEF L!vars, L!Queue, L!Oldest, L!Lessons, L!Under, Through
  <2> QED
    BY <2>1 DEF LearningInv, LearningShape, Holds, Sourced, OneByOne, InOrder, Says
<1>2. ASSUME NEW s \in Specs, NEW item \in Items \cup {L!Nowhere}, L!record(s, item)
      PROVE  LearningInv'
  BY <1>2, CorrectionRecorded
<1>3. ASSUME NEW d \in Drains, L!unapplied(d) \/ L!confirm(d) \/ L!mark_applied(d) \/ L!Dies(d)
      PROVE  LearningInv'
  BY <1>3, DrainReads, LessonTaught, BatchMarked, DrainDies
<1> QED
  BY <1>1, <1>2, <1>3 DEF L!Next

LEMMA LearningTyped == LearningInv => L!LearningTypeOK
<1> SUFFICES ASSUME LearningInv PROVE L!LearningTypeOK
  OBVIOUS
<1>1. \A i \in DOMAIN events : events[i] \in Correction
  BY QueueType DEF LearningInv
<1>2. \A s \in Specs : learned[s].item \in Items \cup {L!Nowhere} /\ learned[s].sources \subseteq DOMAIN events
  BY LessonsType DEF LearningInv, LearningShape, Sourced, Taught
<1>3. \A d \in Drains : drain[d].todo \subseteq drain[d].batch /\ drain[d].batch \subseteq DOMAIN events
  BY DEF LearningInv, LearningShape, Holds
<1> QED
  BY <1>1, <1>2, <1>3 DEF L!LearningTypeOK, Correction

\* No correction is lost, whatever is recorded while drains run, however many
\* overlap and wherever they die; and as long as no two overlap, what a
\* specification means once all is marked is what its latest correction says,
\* after any replay (feedback.py:118-137, 141-193).
THEOREM LessonsAreKept == L!Spec => []LessonsKept
<1>1. ASSUME LearningInv, NEW s \in Specs, NEW i \in L!Lessons(s), events[i].applied
      PROVE  i \in learned[s].sources
  <2>1. i \notin L!Queue
    BY <1>1 DEF L!Queue
  <2> QED
    BY <1>1, <2>1 DEF LearningInv, Sourced
<1>2. ASSUME LearningInv, NEW s \in Specs, L!Queue = {}, ~crossed, L!Lessons(s) # {}
      PROVE  learned[s].item = events[L!Max(L!Lessons(s))].item
  <2>1. Says(s, L!Lessons(s) \ L!Queue)
    BY <1>2 DEF LearningInv, OneByOne
  <2>2. L!Lessons(s) \ L!Queue = L!Lessons(s)
    BY <1>2
  <2>3. PICK i \in L!Lessons(s) :
          learned[s].item = events[i].item /\ \A j \in L!Lessons(s) : j <= i
    BY <1>2, <2>1, <2>2 DEF Says
  <2>4. \A j \in L!Lessons(s) : j \in Nat
    BY <1>2, LessonsType, QueueType DEF LearningInv
  <2>5. L!Max(L!Lessons(s)) = i
    <3>1. \A j \in L!Lessons(s) : i >= j
      BY <2>3, <2>4
    <3>2. \A k \in L!Lessons(s) : (\A j \in L!Lessons(s) : k >= j) => k = i
      BY <2>3, <2>4
    <3> DEFINE max == CHOOSE x \in L!Lessons(s) : \A j \in L!Lessons(s) : x >= j
    <3>3. max \in L!Lessons(s) /\ \A j \in L!Lessons(s) : max >= j
      BY <3>1
    <3> HIDE DEF max
    <3>4. max = i
      BY <3>2, <3>3
    <3> QED
      BY <3>4 DEF L!Max, max
  <2> QED
    BY <2>3, <2>5
<1>3. LearningInv => LessonsKept
  BY <1>1, <1>2 DEF LessonsKept, L!LessonsKept
<1> QED
  BY LearningStart, LearningStep, <1>3, PTL DEF L!Spec

-----------------------------------------------------------------------------
(* Provider.                                                               *)

Supplied == {P!None} \cup Fills
Configs  == [mode : Modes \cup {"cloudflare"}, cells : [Looked -> P!Cell]]
Envs     == [P!Variables -> Supplied \cup {P!Fixed}]
Held     == [at : {"idle", "write", "file", "saved", "failed"}, row : Configs,
             kept : SUBSET Looked, alone : BOOLEAN, whole : BOOLEAN, tried : Envs, before : Envs]

ProviderShape ==
  /\ environ \in [P!Variables -> Supplied]
  /\ envfile \in [P!Variables -> Supplied]
  /\ pRow \in Configs
  /\ save \in [Saves -> Held]

\* Every field of the mode is given by the document, or by nobody.
Whole(config, dotenv) ==
  \A f \in P!Filled(config.mode) :
    P!decrypt(config.cells[f]) # P!None \/ dotenv[P!Variable[f]] = P!None

SameFields(config, other) ==
  /\ config.mode = other.mode
  /\ \A f \in P!Filled(other.mode) : config.cells[f] = other.cells[f]

\* A save that nobody has interfered with would still be tried as it was, and has
\* its fields in the document once it has written them.
Undisturbed(r) ==
  save[r].alone /\ save[r].at \in {"write", "file"} =>
    /\ save[r].row.mode \in Modes
    /\ save[r].tried = P!build_env(save[r].row, envfile, TRUE)
    /\ save[r].whole => Whole(save[r].row, envfile)
    /\ save[r].at = "file" => SameFields(pRow, save[r].row)

ProviderInv == ProviderShape /\ \A r \in Saves : Undisturbed(r)

\* The field that feeds a variable, and what a run is given of it.
Feeds(m, v)  == {f \in P!Filled(m) : P!Variable[f] = v}
Feeding(m, v) == CHOOSE g \in Feeds(m, v) : TRUE
Chosen(config, dotenv, prefer, v) ==
  LET stored == P!decrypt(config.cells[Feeding(P!resolve_mode(config), v)])
  IN IF prefer THEN P!First(environ[v], stored, dotenv[v])
     ELSE P!First(environ[v], dotenv[v], stored)

LEMMA EnvOf ==
  ASSUME NEW config, NEW dotenv, NEW prefer
  PROVE  LET m == P!resolve_mode(config)
         IN P!build_env(config, dotenv, prefer)
            = [v \in P!Variables |->
                 IF Feeds(m, v) # {} /\ Chosen(config, dotenv, prefer, v) # P!None
                 THEN Chosen(config, dotenv, prefer, v) ELSE P!Default(m, v)]
BY DEF P!build_env, Feeds, Feeding, Chosen

\* No two fields feed the same variable.
LEMMA OneFeeds ==
  ASSUME NEW f \in DOMAIN P!Variable, NEW g \in DOMAIN P!Variable, P!Variable[f] = P!Variable[g]
  PROVE  f = g
BY DEF P!Variable

LEMMA ModesType ==
  /\ "cloudflare" \notin Modes
  /\ \A config : P!resolve_mode(config) \in Modes
  /\ \A config : config.mode \in Modes => P!resolve_mode(config) = config.mode
  /\ \A m : P!Filled(m) \subseteq Looked
  /\ \A f \in Looked : f \in DOMAIN P!Variable /\ P!Variable[f] \in P!Variables
BY ProviderAssumption DEF P!FIELDS, P!resolve_mode, P!Filled, P!Variables

LEMMA CellsType ==
  /\ P!Blank \in P!Cell
  /\ \A value \in Supplied : [P!Blank EXCEPT !.value = value] \in P!Cell
  /\ \A value \in Fills : P!decrypt([P!Blank EXCEPT !.value = value]) = value /\ value # P!None
  /\ \A cell \in P!Cell : P!decrypt(cell) \in Supplied
  /\ P!Unset \in Configs /\ P!Unset.mode = "subscription"
  /\ [P!Unset EXCEPT !.mode = "cloudflare"] \in Configs
<1>1. P!Blank \in P!Cell
  BY DEF P!Blank, P!Cell
<1>2. P!Unset \in Configs /\ P!Unset.mode = "subscription"
  BY <1>1, ProviderAssumption DEF P!Unset, Configs
<1>3. [P!Unset EXCEPT !.mode = "cloudflare"] \in Configs
  BY <1>2 DEF Configs
<1>4. \A value \in Fills : P!decrypt([P!Blank EXCEPT !.value = value]) = value /\ value # P!None
  BY ProviderAssumption DEF P!Blank, P!decrypt
<1>5. \A cell \in P!Cell : P!decrypt(cell) \in Supplied
  BY DEF P!Cell, P!decrypt, Supplied
<1>6. \A value \in Supplied : [P!Blank EXCEPT !.value = value] \in P!Cell
  BY DEF P!Blank, P!Cell, Supplied
<1> QED
  BY <1>1, <1>2, <1>3, <1>4, <1>5, <1>6

LEMMA EnvType ==
  ASSUME environ \in [P!Variables -> Supplied], NEW config \in Configs,
         NEW dotenv \in [P!Variables -> Supplied], NEW prefer \in BOOLEAN
  PROVE  P!build_env(config, dotenv, prefer) \in Envs
<1> DEFINE m == P!resolve_mode(config)
<1>1. ASSUME NEW v \in P!Variables, Feeds(m, v) # {}
      PROVE  Chosen(config, dotenv, prefer, v) \in Supplied
  <2>1. Feeding(m, v) \in Feeds(m, v)
    BY <1>1 DEF Feeding
  <2>2. Feeding(m, v) \in Looked
    BY <2>1, ModesType DEF Feeds
  <2>3. P!decrypt(config.cells[Feeding(m, v)]) \in Supplied
    BY <2>2, CellsType DEF Configs
  <2> QED
    BY <2>3 DEF Chosen, P!First
<1>2. \A v : P!Default(m, v) \in Supplied \cup {P!Fixed}
  BY DEF P!Default, Supplied
<1> HIDE DEF m
<1>3. P!build_env(config, dotenv, prefer)
        = [v \in P!Variables |->
             IF Feeds(m, v) # {} /\ Chosen(config, dotenv, prefer, v) # P!None
             THEN Chosen(config, dotenv, prefer, v) ELSE P!Default(m, v)]
  BY EnvOf DEF m
<1> QED
  BY <1>1, <1>2, <1>3 DEF Envs

LEMMA NoSaveType ==
  ASSUME ProviderShape, NEW there \in {"idle", "saved", "failed"}
  PROVE  LET held == [P!NoSave EXCEPT !.at = there]
         IN  held \in Held /\ held.at = there /\ held.alone = FALSE
<1>1. P!NoFile \in Envs
  BY DEF P!NoFile, Envs, Supplied
<1> QED
  BY <1>1, CellsType DEF P!NoSave, Held

LEMMA PersistedType ==
  ASSUME NEW config \in Configs
  PROVE  P!persist_env_file(config) \in [P!Variables -> Supplied]
<1> DEFINE fed(v) == {f \in P!Filled(config.mode) :
                        P!Variable[f] = v /\ P!decrypt(config.cells[f]) # P!None}
<1>1. ASSUME NEW v \in P!Variables, fed(v) # {}
      PROVE  config.cells[CHOOSE f \in fed(v) : TRUE].value \in Supplied
  <2>1. (CHOOSE f \in fed(v) : TRUE) \in fed(v)
    BY <1>1
  <2>2. \A f \in fed(v) : f \in Looked
    BY ModesType
  <2>3. \A f \in Looked : config.cells[f].value \in Supplied
    BY DEF Configs, P!Cell, Supplied
  <2> HIDE DEF fed
  <2> QED
    BY <2>1, <2>2, <2>3
<1>2. P!persist_env_file(config)
        = [v \in P!Variables |-> IF fed(v) = {} THEN P!None
                                 ELSE config.cells[CHOOSE f \in fed(v) : TRUE].value]
  BY DEF P!persist_env_file
<1> HIDE DEF fed
<1> QED
  BY <1>1, <1>2 DEF Supplied

\* Whoever has not written is not alone any more.
LEMMA CrowdedType ==
  ASSUME save \in [Saves -> Held], NEW by \in SUBSET Saves
  PROVE  /\ P!Crowded(by) \in [Saves -> Held]
         /\ \A r \in by : P!Crowded(by)[r] = save[r]
         /\ \A r \in Saves \ by : P!Crowded(by)[r].alone = FALSE
<1>1. \A r \in Saves : /\ [save[r] EXCEPT !.alone = FALSE] \in Held
                       /\ [save[r] EXCEPT !.alone = FALSE].alone = FALSE
  BY DEF Held
<1> QED
  BY <1>1 DEF P!Crowded

\* Where everybody is disturbed but one save, that one is to be looked at.
LEMMA SavesKept ==
  ASSUME ProviderShape', NEW r,
         \A o \in Saves : o # r => save'[o].alone = FALSE,
         r \in Saves => Undisturbed(r)'
  PROVE  ProviderInv'
BY DEF ProviderInv, Undisturbed

\* An edit that leaves nobody alone.
LEMMA AllDisturbed ==
  ASSUME ProviderInv, save' = P!Crowded({}), UNCHANGED environ,
         envfile' \in [P!Variables -> Supplied], pRow' \in Configs
  PROVE  ProviderInv'
<1>1. save' \in [Saves -> Held] /\ \A r \in Saves : save'[r].alone = FALSE
  BY CrowdedType DEF ProviderInv, ProviderShape
<1>2. ProviderShape'
  BY <1>1 DEF ProviderInv, ProviderShape
<1> QED
  BY <1>1, <1>2 DEF ProviderInv, Undisturbed

LEMMA SameEnv ==
  ASSUME UNCHANGED environ
  PROVE  \A config, dotenv, prefer :
           P!build_env(config, dotenv, prefer)' = P!build_env(config, dotenv, prefer)
BY DEF P!build_env

\* The same, with the environment of the process for an argument.
Built(env, config, dotenv, prefer) ==
  LET m == P!resolve_mode(config)
      Fed(v) == {f \in P!Filled(m) : P!Variable[f] = v}
      Drawn(v) == LET f == CHOOSE g \in Fed(v) : TRUE
                      stored == P!decrypt(config.cells[f])
                  IN IF prefer THEN P!First(env[v], stored, dotenv[v])
                     ELSE P!First(env[v], dotenv[v], stored)
  IN [v \in P!Variables |->
        IF Fed(v) # {} /\ Drawn(v) # P!None THEN Drawn(v) ELSE P!Default(m, v)]

LEMMA EnvNow ==
  /\ \A config, dotenv, prefer :
       P!build_env(config, dotenv, prefer) = Built(environ, config, dotenv, prefer)
  /\ \A r : P!build_env(save[r].row, envfile, TRUE)'
             = Built(environ', save'[r].row, envfile', TRUE)
  /\ P!Served' = Built(environ', pRow', envfile', FALSE)
<1>1. \A config, dotenv, prefer :
        P!build_env(config, dotenv, prefer) = Built(environ, config, dotenv, prefer)
  BY DEF P!build_env, Built
<1>2. ASSUME NEW r
      PROVE  P!build_env(save[r].row, envfile, TRUE)'
             = Built(environ', save'[r].row, envfile', TRUE)
  BY DEF P!build_env, Built
<1>3. P!Served' = Built(environ', pRow', envfile', FALSE)
  BY DEF P!Served, P!build_env, Built
<1> QED
  BY <1>1, <1>2, <1>3

LEMMA ConfigType ==
  ASSUME ProviderShape
  PROVE  /\ P!Config \in Configs
         /\ pRow.mode \in Modes => P!Config = pRow
<1>1. pRow.mode \in Modes => pRow.mode # "cloudflare"
  BY ModesType
<1> QED
  BY <1>1, CellsType DEF P!Config, ProviderShape

\* A save reads what is stored, and would be tried with what it has read.
LEMMA SaveReads ==
  ASSUME ProviderInv, NEW r \in Saves, NEW m \in Modes, NEW sent \in SUBSET P!Unlocked(m),
         NEW body \in [sent -> Fills], P!Reads(r, m, body)
  PROVE  ProviderInv'
<1>1. PICK config, document, alone, kept, whole, tried, before :
        /\ config = P!Config /\ document = P!Document(config, m, body)
        /\ alone = (P!Saving = {})
        /\ kept = (IF m = config.mode THEN (P!Unlocked(m) \cap P!Secrets) \ DOMAIN body ELSE {})
        /\ tried = P!build_env(document, envfile, TRUE)
        /\ before = P!build_env(config, envfile, FALSE)
        /\ whole = \A f \in P!Filled(m) \ DOMAIN body :
             P!decrypt(document.cells[f]) # P!None \/ envfile[P!Variable[f]] = P!None
  OBVIOUS
<1> DEFINE there == [at |-> "write", row |-> document, alone |-> alone, kept |-> kept,
                     tried |-> tried, before |-> before, whole |-> whole]
<1>2. /\ pRow' = config /\ UNCHANGED <<environ, envfile, faults>>
      /\ save' = [P!Crowded({}) EXCEPT ![r] = there]
  BY <1>1 DEF P!Reads
<1>3. ProviderShape /\ config \in Configs
  BY <1>1, ConfigType DEF ProviderInv
<1>4. DOMAIN body = sent /\ sent \subseteq P!Filled(m) /\ sent \subseteq Looked
  BY ModesType DEF P!Unlocked
<1>5. /\ document.mode = m
      /\ \A f \in Looked : document.cells[f] = IF f \in sent THEN [P!Blank EXCEPT !.value = body[f]]
                                               ELSE config.cells[f]
      /\ document = [mode |-> m, cells |-> [f \in Looked |-> document.cells[f]]]
  BY <1>1, <1>4 DEF P!Document
<1>6. document \in Configs
  <2>1. \A f \in sent : [P!Blank EXCEPT !.value = body[f]] \in P!Cell
    BY CellsType DEF Supplied
  <2>2. \A f \in Looked : document.cells[f] \in P!Cell
    BY <1>3, <1>5, <2>1 DEF Configs
  <2> QED
    BY <1>5, <2>2 DEF Configs
<1>7. tried \in Envs /\ before \in Envs
  BY <1>1, <1>3, <1>6, EnvType DEF ProviderShape
<1>8. alone \in BOOLEAN /\ whole \in BOOLEAN
  <2>1. alone \in BOOLEAN
    BY <1>1, Zenon
  <2>2. whole \in BOOLEAN
    BY <1>1, Zenon
  <2> QED
    BY <2>1, <2>2
<1>9. kept \subseteq Looked
  BY <1>1, ModesType DEF P!Unlocked
<1>10. there \in Held
  BY <1>6, <1>7, <1>8, <1>9 DEF Held
<1>11. /\ there.at = "write" /\ there.row = document /\ there.tried = tried
       /\ there.whole = whole /\ there.alone = alone
  OBVIOUS
<1> HIDE DEF there
<1>12. /\ save' \in [Saves -> Held] /\ save'[r] = there
       /\ \A o \in Saves : o # r => save'[o].alone = FALSE
  BY <1>2, <1>3, <1>10, CrowdedType DEF ProviderShape
<1>13. ProviderShape'
  BY <1>2, <1>3, <1>12 DEF ProviderShape
<1>14. whole => Whole(document, envfile)
  <2> SUFFICES ASSUME whole, NEW f \in P!Filled(m)
               PROVE  P!decrypt(document.cells[f]) # P!None \/ envfile[P!Variable[f]] = P!None
    BY <1>5 DEF Whole
  <2>1. CASE f \in sent
    <3>1. PICK value : value = body[f]
      OBVIOUS
    <3>2. f \in Looked /\ value \in Fills
      BY <1>4, <2>1, <3>1
    <3>3. document.cells[f] = [P!Blank EXCEPT !.value = value]
      BY <1>5, <2>1, <3>1, <3>2
    <3> QED
      BY <3>2, <3>3, CellsType
  <2>2. CASE f \notin sent
    BY <1>1, <1>4, <2>2
  <2> QED
    BY <2>1, <2>2
<1>15. Undisturbed(r)'
  <2>1. tried = Built(environ', document, envfile', TRUE)
    BY <1>1, <1>2, EnvNow
  <2>2. whole => Whole(document, envfile')
    BY <1>2, <1>14
  <2>3. P!build_env(save[r].row, envfile, TRUE)' = Built(environ', document, envfile', TRUE)
    BY <1>11, <1>12, EnvNow
  <2> QED
    BY <1>5, <1>11, <1>12, <2>1, <2>2, <2>3 DEF Undisturbed, Whole
<1> QED
  BY <1>12, <1>13, <1>15, SavesKept

LEMMA RowWrittenByMode ==
  ASSUME ProviderInv, NEW r \in Saves, P!WritesRow(r)
  PROVE  ProviderInv'
<1>1. PICK held : held = save[r]
  OBVIOUS
<1> DEFINE there == [held EXCEPT !.at = "file"]
<1>2. /\ held.at = "write" /\ UNCHANGED <<environ, envfile, faults>>
      /\ pRow' = [mode |-> held.row.mode,
                  cells |-> [f \in Looked |-> IF f \in P!FIELDS[held.row.mode]
                                              THEN held.row.cells[f] ELSE pRow.cells[f]]]
      /\ save' = [P!Crowded({r}) EXCEPT ![r].at = "file"]
  BY <1>1 DEF P!WritesRow
<1>3. ProviderShape /\ held \in Held /\ held.row \in Configs /\ Undisturbed(r)
  BY <1>1 DEF ProviderInv, ProviderShape, Held
<1>4. pRow' \in Configs /\ SameFields(pRow', held.row)
  <2>1. pRow' \in Configs
    BY <1>2, <1>3 DEF Configs, ProviderShape
  <2>2. \A f \in P!Filled(held.row.mode) : f \in Looked /\ f \in P!FIELDS[held.row.mode]
    BY DEF P!Filled
  <2> QED
    BY <1>2, <2>1, <2>2 DEF SameFields
<1>5. /\ there \in Held /\ there.at = "file" /\ there.row = held.row /\ there.tried = held.tried
      /\ there.whole = held.whole /\ there.alone = held.alone
  BY <1>3 DEF Held
<1> HIDE DEF there
<1>6. /\ save' \in [Saves -> Held] /\ save'[r] = there
      /\ \A o \in Saves : o # r => save'[o].alone = FALSE
  <2>1. /\ P!Crowded({r}) \in [Saves -> Held] /\ P!Crowded({r})[r] = held
        /\ \A o \in Saves : o # r => P!Crowded({r})[o].alone = FALSE
    BY <1>1, <1>3, CrowdedType DEF ProviderShape
  <2>2. save' = [P!Crowded({r}) EXCEPT ![r] = there]
    BY <1>2, <2>1 DEF there
  <2> QED
    BY <1>5, <2>1, <2>2
<1>7. ProviderShape'
  BY <1>2, <1>3, <1>4, <1>6 DEF ProviderShape
<1>8. Undisturbed(r)'
  <2>1. P!build_env(save[r].row, envfile, TRUE)' = P!build_env(held.row, envfile, TRUE)
    BY <1>2, <1>5, <1>6, EnvNow
  <2>2. Whole(save[r].row, envfile)' <=> Whole(held.row, envfile)
    BY <1>2, <1>5, <1>6 DEF Whole
  <2>3. SameFields(pRow, save[r].row)'
    BY <1>4, <1>5, <1>6 DEF SameFields
  <2>4. held.alone =>
          /\ held.row.mode \in Modes
          /\ held.tried = P!build_env(held.row, envfile, TRUE)
          /\ held.whole => Whole(held.row, envfile)
    BY <1>1, <1>2, <1>3 DEF Undisturbed
  <2> QED
    BY <1>5, <1>6, <2>1, <2>2, <2>3, <2>4 DEF Undisturbed
<1> QED
  BY <1>6, <1>7, <1>8, SavesKept

\* Who ends is not looked at any more.
LEMMA SaveEnds ==
  ASSUME ProviderInv, NEW r \in Saves, NEW there \in {"saved", "failed"}, NEW by \in [Saves -> Held],
         save' = [by EXCEPT ![r] = [P!NoSave EXCEPT !.at = there]],
         UNCHANGED <<environ, pRow>>, envfile' \in [P!Variables -> Supplied],
         \/ by = save /\ UNCHANGED envfile
         \/ \A o \in Saves \ {r} : by[o].alone = FALSE
  PROVE  ProviderInv'
<1> DEFINE held == [P!NoSave EXCEPT !.at = there]
<1>1. held \in Held /\ held.at = there /\ held.alone = FALSE
  BY NoSaveType DEF ProviderInv
<1> HIDE DEF held
<1>2. /\ save' \in [Saves -> Held] /\ save'[r].alone = FALSE
      /\ \A o \in Saves \ {r} : save'[o] = by[o]
  BY <1>1 DEF held
<1>3. ProviderShape'
  BY <1>2 DEF ProviderInv, ProviderShape
<1>4. ASSUME NEW o \in Saves, o # r PROVE Undisturbed(o)'
  <2>1. CASE by[o].alone = FALSE
    BY <1>2, <1>4, <2>1 DEF Undisturbed
  <2>2. CASE by = save /\ UNCHANGED envfile
    <3>1. save'[o] = save[o] /\ Undisturbed(o)
      BY <1>2, <1>4, <2>2 DEF ProviderInv
    <3>2. P!build_env(save[o].row, envfile, TRUE)' = P!build_env(save[o].row, envfile, TRUE)
      BY <2>2, <3>1, EnvNow
    <3> QED
      BY <2>2, <3>1, <3>2 DEF Undisturbed, Whole, SameFields
  <2> QED
    BY <1>4, <2>1, <2>2
<1>5. Undisturbed(r)'
  BY <1>2 DEF Undisturbed
<1> QED
  BY <1>3, <1>4, <1>5 DEF ProviderInv

LEMMA ProviderStart == P!Init => ProviderInv
<1> SUFFICES ASSUME P!Init PROVE ProviderInv
  OBVIOUS
<1>1. pRow \in Configs
  BY CellsType DEF P!Init
<1>2. environ \in [P!Variables -> Supplied] /\ envfile \in [P!Variables -> Supplied]
  BY ProviderAssumption DEF P!Init, P!NoFile, Supplied
<1>3. P!NoSave \in Held /\ P!NoSave.alone = FALSE
  <2>1. P!NoFile \in Envs
    BY DEF P!NoFile, Envs, Supplied
  <2> QED
    BY <2>1, CellsType DEF P!NoSave, Held
<1>4. save \in [Saves -> Held] /\ \A r \in Saves : save[r].alone = FALSE
  BY <1>3 DEF P!Init
<1> QED
  BY <1>1, <1>2, <1>4 DEF ProviderInv, ProviderShape, Undisturbed

LEMMA ProviderStep == ProviderInv /\ [P!Next]_P!vars => ProviderInv'
<1> SUFFICES ASSUME ProviderInv, [P!Next]_P!vars PROVE ProviderInv'
  OBVIOUS
<1>0. ProviderShape
  BY DEF ProviderInv
<1>1. CASE UNCHANGED P!vars
  <2>1. UNCHANGED <<environ, envfile, pRow, save>>
    BY <1>1 DEF P!vars
  <2>2. \A r \in Saves : P!build_env(save[r].row, envfile, TRUE)' = P!build_env(save[r].row, envfile, TRUE)
    BY <2>1, EnvNow
  <2> QED
    BY <2>1, <2>2 DEF ProviderInv, ProviderShape, Undisturbed, Whole, SameFields
<1>2. ASSUME NEW r \in Saves, NEW m \in Modes, NEW sent \in SUBSET P!Unlocked(m),
             NEW body \in [sent -> Fills], P!Reads(r, m, body)
      PROVE  ProviderInv'
  BY <1>2, SaveReads
<1>3. ASSUME NEW r \in Saves, P!WritesRow(r) PROVE ProviderInv'
  BY <1>3, RowWrittenByMode
<1>4. ASSUME NEW r \in Saves, P!WritesFile(r) PROVE ProviderInv'
  <2> DEFINE by == P!Crowded({r})
  <2>1. /\ save' = [by EXCEPT ![r] = [P!NoSave EXCEPT !.at = "saved"]]
        /\ UNCHANGED <<environ, pRow>> /\ envfile' = P!persist_env_file(save[r].row)
    BY <1>4 DEF P!WritesFile
  <2>2. save[r].row \in Configs
    BY <1>0 DEF ProviderShape, Held
  <2>3. envfile' \in [P!Variables -> Supplied]
    BY <2>1, <2>2, PersistedType
  <2>4. by \in [Saves -> Held] /\ \A o \in Saves \ {r} : by[o].alone = FALSE
    BY <1>0, CrowdedType DEF ProviderShape
  <2> HIDE DEF by
  <2> QED
    BY <2>1, <2>3, <2>4, SaveEnds
<1>5. ASSUME NEW r \in Saves, P!FileFails(r) PROVE ProviderInv'
  <2>1. /\ save' = [save EXCEPT ![r] = [P!NoSave EXCEPT !.at = "failed"]]
        /\ UNCHANGED <<environ, pRow, envfile>>
    BY <1>5 DEF P!FileFails
  <2>2. save \in [Saves -> Held] /\ envfile' \in [P!Variables -> Supplied]
    BY <1>0, <2>1 DEF ProviderShape
  <2> QED
    BY <2>1, <2>2, SaveEnds
<1>6. CASE P!load_config
  <2>1. /\ pRow.mode = "cloudflare" /\ pRow' = P!Config /\ UNCHANGED <<environ, envfile, save>>
    BY <1>6 DEF P!load_config
  <2>2. ProviderShape'
    BY <1>0, <2>1, ConfigType DEF ProviderShape
  <2>3. ASSUME NEW r \in Saves PROVE Undisturbed(r)'
    <3>1. Undisturbed(r) /\ (save[r].row.mode \in Modes => ~SameFields(pRow, save[r].row))
      BY <2>1, ModesType DEF ProviderInv, SameFields
    <3>2. P!build_env(save[r].row, envfile, TRUE)' = P!build_env(save[r].row, envfile, TRUE)
      BY <2>1, EnvNow
    <3> QED
      BY <2>1, <3>1, <3>2 DEF Undisturbed, Whole
  <2> QED
    BY <2>2, <2>3 DEF ProviderInv
<1>7. ASSUME NEW token \in Fills, P!oauth_code(token) PROVE ProviderInv'
  <2>1. [P!Blank EXCEPT !.value = token] \in P!Cell
    BY CellsType DEF Supplied
  <2>2. /\ pRow' = [mode |-> "subscription",
                    cells |-> [pRow.cells EXCEPT !["oauthToken"] = [P!Blank EXCEPT !.value = token]]]
        /\ save' = P!Crowded({}) /\ UNCHANGED <<environ, envfile>>
    BY <1>7 DEF P!oauth_code
  <2>3. pRow' \in Configs
    BY <1>0, <2>1, <2>2, ProviderAssumption DEF ProviderShape, Configs
  <2> QED
    BY <1>0, <2>2, <2>3, AllDisturbed DEF ProviderShape
<1>8. ASSUME NEW v \in P!Variables, NEW value \in Supplied, P!EditsFile(v, value) PROVE ProviderInv'
  <2>1. /\ envfile' = [envfile EXCEPT ![v] = value]
        /\ save' = P!Crowded({}) /\ UNCHANGED <<environ, pRow>>
    BY <1>8 DEF P!EditsFile
  <2>2. envfile' \in [P!Variables -> Supplied] /\ pRow' \in Configs
    BY <1>0, <2>1 DEF ProviderShape
  <2> QED
    BY <2>1, <2>2, AllDisturbed
<1>9. CASE P!LosesKey
  <2>1. /\ save' = P!Crowded({}) /\ UNCHANGED <<environ, envfile>>
        /\ pRow' = [pRow EXCEPT !.cells = [f \in Looked |->
             [pRow.cells[f] EXCEPT !.sealed = @ \/ (f \in P!Secrets /\ pRow.cells[f].value # P!None)]]]
    BY <1>9 DEF P!LosesKey
  <2>2. pRow \in Configs
    BY <1>0 DEF ProviderShape
  <2>3. ASSUME NEW f \in Looked
        PROVE  [pRow.cells[f] EXCEPT
                  !.sealed = @ \/ (f \in P!Secrets /\ pRow.cells[f].value # P!None)] \in P!Cell
    <3>1. PICK yes : yes = (pRow.cells[f].sealed \/ (f \in P!Secrets /\ pRow.cells[f].value # P!None))
      OBVIOUS
    <3>2. yes \in BOOLEAN
      BY <3>1, Zenon
    <3>3. pRow.cells[f] \in P!Cell
      BY <2>2 DEF Configs
    <3>4. [pRow.cells[f] EXCEPT !.sealed = yes] \in P!Cell
      BY <3>2, <3>3 DEF P!Cell
    <3> QED
      BY <3>1, <3>4
  <2>4. PICK cells : cells = [f \in Looked |->
          [pRow.cells[f] EXCEPT
             !.sealed = @ \/ (f \in P!Secrets /\ pRow.cells[f].value # P!None)]]
    OBVIOUS
  <2>5. cells \in [Looked -> P!Cell]
    BY <2>3, <2>4
  <2>6. pRow' = [pRow EXCEPT !.cells = cells]
    BY <2>1, <2>4
  <2>7. pRow' \in Configs
    BY <2>2, <2>5, <2>6 DEF Configs
  <2> QED
    BY <1>0, <2>1, <2>7, AllDisturbed DEF ProviderShape
<1> QED
  BY <1>1, <1>2, <1>3, <1>4, <1>5, <1>6, <1>7, <1>8, <1>9 DEF P!Next, Supplied

LEMMA ProviderTyped == ProviderInv => P!ProviderTypeOK
<1> SUFFICES ASSUME ProviderInv PROVE P!ProviderTypeOK
  OBVIOUS
<1>1. \A r \in Saves : /\ save[r].at \in {"idle", "write", "file", "saved", "failed"}
                       /\ save[r].row.cells \in [Looked -> P!Cell]
  BY DEF ProviderInv, ProviderShape, Held, Configs
<1> QED
  BY <1>1 DEF ProviderInv, ProviderShape, P!ProviderTypeOK, Configs, Supplied

\* What is written into the file says what the document does, so that it no
\* longer matters which of the two goes before the other.
LEMMA WrittenIsTried ==
  ASSUME ProviderShape, NEW config \in Configs, config.mode \in Modes, SameFields(pRow, config),
         Whole(config, envfile)
  PROVE  P!build_env(pRow, P!persist_env_file(config), FALSE) = P!build_env(config, envfile, TRUE)
<1> DEFINE m    == config.mode
           mirror == P!persist_env_file(config)
           Field(v) == Feeding(m, v)
<1>1. /\ P!resolve_mode(config) = m /\ P!resolve_mode(pRow) = m /\ pRow.mode = m
      /\ \A f \in P!Filled(m) : pRow.cells[f] = config.cells[f]
  BY ModesType DEF SameFields
<1>2. ASSUME NEW v \in P!Variables, Feeds(m, v) # {}
      PROVE  Chosen(pRow, mirror, FALSE, v) = Chosen(config, envfile, TRUE, v)
  <2>1. PICK f : f = Feeding(m, v)
    OBVIOUS
  <2>2. f \in Feeds(m, v) /\ f \in P!Filled(m) /\ P!Variable[f] = v
    BY <1>2, <2>1 DEF Feeding, Feeds
  <2>3. \A g \in Feeds(m, v) : g = f
    BY <2>2, OneFeeds, ModesType DEF Feeds
  <2>4. PICK cell : cell = config.cells[f]
    OBVIOUS
  <2>5. cell = pRow.cells[f] /\ cell \in P!Cell
    BY <1>1, <2>2, <2>4, ModesType DEF Configs
  <2>6. /\ P!decrypt(cell) = P!None => mirror[v] = P!None /\ envfile[v] = P!None
        /\ P!decrypt(cell) # P!None => mirror[v] = P!decrypt(cell)
    <3> DEFINE fed == {g \in P!Filled(config.mode) :
                         P!Variable[g] = v /\ P!decrypt(config.cells[g]) # P!None}
    <3>1. mirror[v] = IF fed = {} THEN P!None ELSE config.cells[CHOOSE g \in fed : TRUE].value
      BY DEF P!persist_env_file
    <3>2. \A g \in fed : g = f
      BY <2>3 DEF Feeds
    <3>3. f \in fed <=> P!decrypt(cell) # P!None
      BY <2>2, <2>4
    <3> HIDE DEF fed, mirror
    <3>4. CASE P!decrypt(cell) = P!None
      BY <2>2, <2>4, <3>1, <3>2, <3>3, <3>4 DEF Whole
    <3>5. CASE P!decrypt(cell) # P!None
      <4>1. fed = {f}
        BY <3>2, <3>3, <3>5
      <4>2. (CHOOSE g \in fed : TRUE) = f
        BY <4>1
      <4>3. mirror[v] = cell.value
        BY <2>4, <3>1, <4>1, <4>2
      <4> QED
        BY <3>5, <4>3 DEF P!decrypt
    <3> QED
      BY <3>4, <3>5
  <2>7. /\ Chosen(pRow, mirror, FALSE, v) = P!First(environ[v], mirror[v], P!decrypt(cell))
        /\ Chosen(config, envfile, TRUE, v) = P!First(environ[v], P!decrypt(cell), envfile[v])
    BY <1>1, <2>1, <2>4, <2>5 DEF Chosen
  <2> HIDE DEF mirror
  <2>8. CASE environ[v] # P!None
    BY <2>7, <2>8 DEF P!First
  <2>9. CASE environ[v] = P!None /\ P!decrypt(cell) # P!None
    BY <2>6, <2>7, <2>9 DEF P!First
  <2>10. CASE environ[v] = P!None /\ P!decrypt(cell) = P!None
    BY <2>6, <2>7, <2>10 DEF P!First
  <2> QED
    BY <2>8, <2>9, <2>10
<1>3. P!build_env(pRow, mirror, FALSE)
        = [v \in P!Variables |->
             IF Feeds(m, v) # {} /\ Chosen(pRow, mirror, FALSE, v) # P!None
             THEN Chosen(pRow, mirror, FALSE, v) ELSE P!Default(m, v)]
  BY <1>1, EnvOf
<1>4. P!build_env(config, envfile, TRUE)
        = [v \in P!Variables |->
             IF Feeds(m, v) # {} /\ Chosen(config, envfile, TRUE, v) # P!None
             THEN Chosen(config, envfile, TRUE, v) ELSE P!Default(m, v)]
  BY <1>1, EnvOf
<1> HIDE DEF m, mirror
<1> QED
  BY <1>2, <1>3, <1>4 DEF mirror

\* "Tests what was typed rather than what was saved": once a save nobody
\* interfered with is through, a run is given what the Test button would have
\* tried, whatever the file and the document held before, for any providers,
\* fields and number of saves (TestClaudeSettings.py, ClaudeSettings.py:61-91,
\* provider.py:315-419, 474-493).
THEOREM TestedIsWhatRuns == P!Spec => TestedIsServed
<1>1. ASSUME ProviderInv, P!Next, NEW r \in Saves, P!Done(r), save[r].whole
      PROVE  P!Served' = save[r].tried
  <2>1. /\ save[r].at = "file" /\ save'[r].at = "saved" /\ save[r].alone
    BY <1>1 DEF P!Done
  <2>2. /\ ProviderShape /\ save[r].row \in Configs /\ save[r].row.mode \in Modes
        /\ save[r].tried = P!build_env(save[r].row, envfile, TRUE)
        /\ Whole(save[r].row, envfile) /\ SameFields(pRow, save[r].row)
    BY <1>1, <2>1 DEF ProviderInv, ProviderShape, Undisturbed, Held
  <2>3. P!WritesFile(r)
    <3>1. \A by \in SUBSET Saves : P!Crowded(by)[r].at = "file" /\ r \in DOMAIN P!Crowded(by)
      <4>1. save[r] \in Held
        BY <2>2 DEF ProviderShape
      <4>2. [save[r] EXCEPT !.alone = FALSE].at = "file"
        BY <2>1, <4>1 DEF Held
      <4> QED
        BY <2>1, <4>2 DEF P!Crowded
    <3>2. ASSUME save' = P!Crowded({}) \/ save' = save PROVE FALSE
      BY <2>1, <3>1, <3>2
    <3>3. ASSUME NEW o \in Saves, o # r, P!WritesFile(o) PROVE FALSE
      <4>1. save' = [P!Crowded({o}) EXCEPT ![o] = [P!NoSave EXCEPT !.at = "saved"]]
        BY <3>3 DEF P!WritesFile
      <4>2. save'[r] = P!Crowded({o})[r]
        BY <3>3, <4>1 DEF P!Crowded
      <4> QED
        BY <2>1, <3>1, <4>2
    <3>4. ASSUME NEW o \in Saves, P!WritesRow(o) PROVE FALSE
      <4>1. save' = [P!Crowded({o}) EXCEPT ![o].at = "file"] /\ save[o].at = "write"
        BY <3>4 DEF P!WritesRow
      <4>2. save'[r] = P!Crowded({o})[r]
        BY <2>1, <4>1 DEF P!Crowded
      <4> QED
        BY <2>1, <3>1, <4>2
    <3>5. ASSUME NEW o \in Saves, P!FileFails(o) PROVE FALSE
      <4>1. save' = [save EXCEPT ![o] = [P!NoSave EXCEPT !.at = "failed"]]
        BY <3>5 DEF P!FileFails
      <4>2. [P!NoSave EXCEPT !.at = "failed"].at = "failed"
        BY DEF P!NoSave
      <4>3. save \in [Saves -> Held]
        BY <2>2 DEF ProviderShape
      <4>4. save'[r].at \in {"failed", save[r].at}
        BY <4>1, <4>2, <4>3
      <4> QED
        BY <2>1, <4>4
    <3>6. ASSUME NEW o \in Saves, NEW n, NEW body, P!Reads(o, n, body) PROVE FALSE
      <4>1. PICK document, alone, kept, tried, before, whole :
              save' = [P!Crowded({}) EXCEPT ![o] =
                [at |-> "write", row |-> document, alone |-> alone, kept |-> kept,
                 tried |-> tried, before |-> before, whole |-> whole]]
        BY <3>6 DEF P!Reads
      <4> DEFINE there == [at |-> "write", row |-> document, alone |-> alone, kept |-> kept,
                           tried |-> tried, before |-> before, whole |-> whole]
      <4>3. save' = [P!Crowded({}) EXCEPT ![o] = there] /\ there.at = "write"
        BY <4>1
      <4> HIDE DEF there
      <4>2. save'[r] \in {there, P!Crowded({})[r]}
        BY <3>1, <4>3 DEF P!Crowded
      <4> QED
        BY <2>1, <3>1, <4>2, <4>3
    <3>7. ASSUME P!load_config \/ P!LosesKey \/ (\E token \in Fills : P!oauth_code(token))
                   \/ (\E v \in P!Variables, value \in {P!None} \cup Fills : P!EditsFile(v, value))
          PROVE  FALSE
      BY <3>2, <3>7 DEF P!load_config, P!LosesKey, P!oauth_code, P!EditsFile
    <3> QED
      BY <1>1, <3>3, <3>4, <3>5, <3>6, <3>7 DEF P!Next
  <2>4. UNCHANGED <<environ, pRow>> /\ envfile' = P!persist_env_file(save[r].row)
    BY <2>3 DEF P!WritesFile
  <2>5. P!Served' = P!build_env(pRow, P!persist_env_file(save[r].row), FALSE)
    BY <2>4, EnvNow
  <2> QED
    BY <2>2, <2>5, WrittenIsTried
<1>2. ASSUME ProviderInv, [P!Next]_P!vars PROVE [P!SavedAsTested]_P!vars
  BY <1>1, <1>2 DEF P!SavedAsTested
<1> QED
  BY ProviderStart, ProviderStep, <1>2, PTL DEF P!Spec, TestedIsServed, P!TestedIsServed


-----------------------------------------------------------------------------
(* All of it.                                                              *)

\* Whatever the parts do beside one another, each stays well typed: the quote,
\* the reference data, the lessons, the settings, the proposal and the cached
\* matches, for any constants they may be given.
THEOREM OfficeTyped ==
  Spec /\ R!Spec /\ L!Spec /\ P!Spec /\ H!Spec /\ M!Spec => []OfficeTypeOK
<1>1. R!Spec => []R!ReferencesTypeOK
  BY ReferencesStart, ReferencesStep, ReferencesTyped, PTL DEF R!Spec
<1>2. L!Spec => []L!LearningTypeOK
  BY LearningStart, LearningStep, LearningTyped, PTL DEF L!Spec
<1>3. P!Spec => []P!ProviderTypeOK
  BY ProviderStart, ProviderStep, ProviderTyped, PTL DEF P!Spec
<1>4. H!Spec => []H!ProposalTypeOK
  BY ProposalStart, ProposalStep, ProposalTyped, PTL DEF H!Spec
<1>5. M!Spec => []M!MatchCacheTypeOK
  BY MatchStart, MatchStep, MatchTyped, PTL DEF M!Spec
<1>6. /\ QuoteTypeOK /\ R!ReferencesTypeOK /\ L!LearningTypeOK
      /\ P!ProviderTypeOK /\ H!ProposalTypeOK /\ M!MatchCacheTypeOK
      => OfficeTypeOK
  BY DEF OfficeTypeOK
<1> QED
  BY <1>1, <1>2, <1>3, <1>4, <1>5, <1>6, QuoteTypeCorrect, PTL
=============================================================================
