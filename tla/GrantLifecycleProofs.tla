------------------------ MODULE GrantLifecycleProofs ------------------------
(***************************************************************************)
(* Revocation takes effect in bounded time, for every lifetime, skew,      *)
(* horizon and set of sources, keys and documents.  The invariant follows  *)
(* the age of evidence: whatever says "Active", in a source, in memory or  *)
(* in storage, was true at an instant before the revocation.               *)
(***************************************************************************)
EXTENDS GrantLifecycle, SequenceTheorems, TLAPS

\* The last instant at which the grant is known to have been unrevoked.
LastActive == IF revoked_at = None THEN clock ELSE revoked_at

ReportIsTrue(report) ==
  report.status = "Active" => report.checked_at <= LastActive + Skew

EvidenceIsTrue(record) ==
  record.status = "Active" => record.fresh_until <= LastActive + Skew + NonRevokedTtl

\* Only what needs a check is revoked, and then every grant carries one.
Checkable == revoked_at # None => RequiresRevocationCheck(document)

AgeInvariant ==
  /\ TypeOK
  /\ Checkable
  /\ \A source \in Sources : reports[source] # None => ReportIsTrue(reports[source])
  /\ \A metadata \in {held, stored} \ {None} :
       metadata.revocation # None => EvidenceIsTrue(metadata.revocation)

-----------------------------------------------------------------------------
\* None is no number.
LEMMA NoneIsNotNat == None \notin Nat
  BY U64Assumption DEF U64Assumption

\* What a source makes of a report is a record, as old as the report.
LEMMA IntoRecordType ==
  ASSUME NEW source \in Sources, NEW report \in ReportSet
  PROVE  /\ IntoRecord(report, source) \in Records
         /\ IntoRecord(report, source) # None
         /\ IntoRecord(report, source).status = report.status
         /\ report.status = "Active" =>
              IntoRecord(report, source).fresh_until = report.checked_at + NonRevokedTtl
<1>1. FreshUntil(report) \in Nat
  BY FreshnessPolicyAssumption DEF FreshUntil, ReportSet
<1>2. IntoRecord(report, source) \in Records
  BY <1>1 DEF IntoRecord, Records, ReportSet
<1>3. IntoRecord(report, source).status = report.status
  BY DEF IntoRecord
<1>4. IntoRecord(report, source).fresh_until = FreshUntil(report)
  BY DEF IntoRecord
<1>5. report.status = "Active" => FreshUntil(report) = report.checked_at + NonRevokedTtl
  BY DEF FreshUntil
<1>6. IntoRecord(report, source) # None
  BY <1>2, LifecycleAssumption
<1> QED BY <1>2, <1>3, <1>4, <1>5, <1>6

LEMMA InitAge == Init => AgeInvariant
<1> SUFFICES ASSUME Init PROVE AgeInvariant OBVIOUS
<1>1. TypeOK
  BY LifecycleAssumption DEF Init, TypeOK
<1>2. Checkable
  BY DEF Init, Checkable
<1>3. \A source \in Sources : reports[source] # None => ReportIsTrue(reports[source])
  BY DEF Init
<1>4. {held, stored} \ {None} = {}
  BY DEF Init
<1> QED BY <1>1, <1>2, <1>3, <1>4 DEF AgeInvariant

-----------------------------------------------------------------------------
(* The parts of a step that more than one action has.                      *)

\* Time and revocation only move the last active instant forward, so that
\* true evidence stays true.
LEMMA LastActiveGrows ==
  ASSUME TypeOK, Tick \/ Revoke \/ UNCHANGED <<clock, revoked_at>>
  PROVE  /\ LastActive \in Nat /\ LastActive' \in Nat
         /\ LastActive <= LastActive'
<1>1. clock \in Nat /\ revoked_at \in Nat \cup {None}
  BY LifecycleAssumption DEF TypeOK
<1>2. LastActive \in Nat
  BY <1>1 DEF LastActive
<1>3. CASE Tick
  <2>1. clock' = clock + 1 /\ revoked_at' = revoked_at
    BY <1>3 DEF Tick
  <2> QED BY <1>1, <1>2, <2>1 DEF LastActive
<1>4. CASE Revoke
  <2>1. revoked_at = None /\ revoked_at' = clock /\ clock' = clock
    BY <1>4 DEF Revoke
  <2>2. LastActive = clock /\ LastActive' = clock
    BY <1>1, <2>1, NoneIsNotNat DEF LastActive
  <2> QED BY <1>1, <2>2
<1>5. CASE UNCHANGED <<clock, revoked_at>>
  <2>1. LastActive' = LastActive
    BY <1>5 DEF LastActive
  <2> QED BY <1>2, <2>1
<1> QED BY <1>3, <1>4, <1>5

\* A step that leaves the evidence alone keeps it true.
LEMMA EvidenceStaysTrue ==
  ASSUME TypeOK, Tick \/ Revoke \/ UNCHANGED <<clock, revoked_at>>,
         NEW record \in Records, EvidenceIsTrue(record)
  PROVE  EvidenceIsTrue(record)'
<1>1. LastActive \in Nat /\ LastActive' \in Nat /\ LastActive <= LastActive'
  BY LastActiveGrows
<1>2. record.fresh_until \in Nat /\ Skew \in Nat /\ NonRevokedTtl \in Nat
  BY LifecycleAssumption, FreshnessPolicyAssumption DEF Records
<1>3. SUFFICES ASSUME record.status = "Active"
               PROVE  record.fresh_until <= LastActive' + Skew + NonRevokedTtl
  BY DEF EvidenceIsTrue
<1>4. record.fresh_until <= LastActive + Skew + NonRevokedTtl
  BY <1>3 DEF EvidenceIsTrue
<1> QED BY <1>1, <1>2, <1>4

LEMMA ReportStaysTrue ==
  ASSUME TypeOK, Tick \/ Revoke \/ UNCHANGED <<clock, revoked_at>>,
         NEW report \in ReportSet, ReportIsTrue(report)
  PROVE  ReportIsTrue(report)'
<1>1. LastActive \in Nat /\ LastActive' \in Nat /\ LastActive <= LastActive'
  BY LastActiveGrows
<1>2. report.checked_at \in Nat /\ Skew \in Nat
  BY LifecycleAssumption DEF ReportSet
<1>3. SUFFICES ASSUME report.status = "Active"
               PROVE  report.checked_at <= LastActive' + Skew
  BY DEF ReportIsTrue
<1>4. report.checked_at <= LastActive + Skew
  BY <1>3 DEF ReportIsTrue
<1> QED BY <1>1, <1>2, <1>4

\* What the invariant says of the metadata of one grant.
GrantIsTrue(metadata) ==
  /\ metadata \in Metadata
  /\ metadata.revocation # None <=> RequiresRevocationCheck(document)
  /\ metadata.revocation # None => EvidenceIsTrue(metadata.revocation)

ReportsAreTrue ==
  \A source \in Sources : reports[source] # None => ReportIsTrue(reports[source])

GrantsAreTrue == \A metadata \in {held, stored} \ {None} : GrantIsTrue(metadata)

\* The parts that no evidence is about.
WorldOK ==
  /\ document \in Documents
  /\ clock \in 0 .. Horizon
  /\ revoked_at \in (0 .. Horizon) \cup {None}
  /\ reports \in [Sources -> ReportSet \cup {None}]
  /\ published \in SUBSET Keys

\* The invariant, read as a statement about world, sources and grants.
LEMMA AgeInvariantInParts ==
  AgeInvariant <=> WorldOK /\ Checkable /\ ReportsAreTrue /\ GrantsAreTrue
  BY Zenon DEF AgeInvariant, TypeOK, WorldOK, ReportsAreTrue, GrantsAreTrue, GrantIsTrue,
               RequiresRevocationCheck

LEMMA GrantStaysTrue ==
  ASSUME TypeOK, Tick \/ Revoke \/ UNCHANGED <<clock, revoked_at>>,
         document' = document, NEW metadata, GrantIsTrue(metadata)
  PROVE  GrantIsTrue(metadata)'
<1>1. metadata \in Metadata'
  BY DEF GrantIsTrue, Metadata
<1>2. (metadata.revocation # None <=> RequiresRevocationCheck(document))'
  BY DEF GrantIsTrue, RequiresRevocationCheck
<1>3. ASSUME metadata.revocation # None PROVE EvidenceIsTrue(metadata.revocation)'
  <2>1. metadata.revocation \in Records
    BY <1>3 DEF GrantIsTrue, Metadata
  <2>2. EvidenceIsTrue(metadata.revocation)
    BY <1>3 DEF GrantIsTrue
  <2> QED BY <2>1, <2>2, EvidenceStaysTrue
<1> QED BY <1>1, <1>2, <1>3 DEF GrantIsTrue

\* Sources that nobody asks, and grants that are only moved about, stay
\* true.
LEMMA ReportsStayTrue ==
  ASSUME AgeInvariant, Tick \/ Revoke \/ UNCHANGED <<clock, revoked_at>>, reports' = reports
  PROVE  ReportsAreTrue'
<1>1. TypeOK /\ ReportsAreTrue
  BY AgeInvariantInParts DEF AgeInvariant
<1>2. SUFFICES ASSUME NEW source \in Sources, reports[source] # None
               PROVE  ReportIsTrue(reports[source])'
  BY DEF ReportsAreTrue
<1> DEFINE report == reports[source]
<1>3. report \in ReportSet /\ ReportIsTrue(report)
  BY <1>1, <1>2 DEF TypeOK, ReportsAreTrue
<1>4. PICK r \in ReportSet : r = report /\ r.status = report.status /\ r.checked_at = report.checked_at
  BY <1>3
<1>5. ReportIsTrue(r)
  BY <1>3, <1>4 DEF ReportIsTrue
<1>6. ReportIsTrue(r)'
  BY <1>1, <1>5, ReportStaysTrue
<1> QED BY <1>4, <1>6 DEF ReportIsTrue

LEMMA GrantsStayTrue ==
  ASSUME AgeInvariant, Tick \/ Revoke \/ UNCHANGED <<clock, revoked_at>>,
         document' = document, held' \in {held, stored, None}, stored' \in {held, stored}
  PROVE  GrantsAreTrue'
<1>1. TypeOK /\ GrantsAreTrue
  BY AgeInvariantInParts DEF AgeInvariant
<1>2. \A metadata : GrantIsTrue(metadata) => GrantIsTrue(metadata)'
  BY <1>1, GrantStaysTrue
<1>3. \A metadata \in {held, stored} \ {None} : GrantIsTrue(metadata)'
  BY <1>1, <1>2 DEF GrantsAreTrue
<1>4. {held', stored'} \ {None} \subseteq {held, stored} \ {None}
  OBVIOUS
<1> QED BY <1>3, <1>4 DEF GrantsAreTrue

\* A report passed on is evidence as true as the report.
LEMMA ReportedEvidenceIsTrue ==
  ASSUME AgeInvariant, NEW source \in Sources, reports[source] # None
  PROVE  /\ IntoRecord(reports[source], source) \in Records
         /\ IntoRecord(reports[source], source) # None
         /\ EvidenceIsTrue(IntoRecord(reports[source], source))
<1> DEFINE report == reports[source]
           record == IntoRecord(report, source)
<1>1. TypeOK /\ ReportsAreTrue
  BY AgeInvariantInParts DEF AgeInvariant
<1>2. report \in ReportSet /\ ReportIsTrue(report)
  BY <1>1 DEF TypeOK, ReportsAreTrue
<1>3. /\ record \in Records /\ record # None
      /\ record.status = report.status
      /\ report.status = "Active" => record.fresh_until = report.checked_at + NonRevokedTtl
  BY <1>2, IntoRecordType
<1>4. LastActive \in Nat
  BY <1>1 DEF TypeOK, LastActive
<1>5. report.checked_at \in Nat /\ Skew \in Nat /\ NonRevokedTtl \in Nat
  BY <1>2, LifecycleAssumption, FreshnessPolicyAssumption DEF ReportSet
<1>6. ASSUME report.status = "Active"
      PROVE  report.checked_at + NonRevokedTtl <= LastActive + Skew + NonRevokedTtl
  <2>1. report.checked_at <= LastActive + Skew
    BY <1>2, <1>6 DEF ReportIsTrue
  <2> QED BY <1>4, <1>5, <2>1
<1>7. EvidenceIsTrue(record)
  <2> HIDE DEF record, report
  <2>1. record.status = "Active" => record.fresh_until <= LastActive + Skew + NonRevokedTtl
    BY <1>3, <1>6
  <2> QED BY <2>1 DEF EvidenceIsTrue
<1> QED BY <1>3, <1>7

\* New metadata in memory, when time and revocation stand still.
LEMMA GrantIsTrueUnchanged ==
  ASSUME UNCHANGED <<document, clock, revoked_at>>,
         held' \in Metadata,
         held'.revocation # None <=> RequiresRevocationCheck(document),
         held'.revocation # None => EvidenceIsTrue(held'.revocation)
  PROVE  GrantIsTrue(held)'
<1>1. held' \in Metadata'
  BY DEF Metadata
<1>2. LastActive' = LastActive
  BY DEF LastActive
<1> QED BY <1>1, <1>2 DEF GrantIsTrue, EvidenceIsTrue, RequiresRevocationCheck

LEMMA GrantsStayTrueBesidesHeld ==
  ASSUME TypeOK, GrantsAreTrue, UNCHANGED <<document, clock, revoked_at, stored>>, GrantIsTrue(held)'
  PROVE  GrantsAreTrue'
<1>1. \A metadata : GrantIsTrue(metadata) => GrantIsTrue(metadata)'
  BY GrantStaysTrue
<1>2. ASSUME stored # None PROVE GrantIsTrue(stored)'
  BY <1>1, <1>2 DEF GrantsAreTrue, GrantIsTrue
<1> QED BY <1>2 DEF GrantsAreTrue

\* Every step keeps the invariant.
LEMMA NextAge == AgeInvariant /\ [Next]_vars => AgeInvariant'
<1> SUFFICES ASSUME AgeInvariant, [Next]_vars PROVE AgeInvariant'
  OBVIOUS
<1>a. WorldOK /\ Checkable /\ ReportsAreTrue /\ GrantsAreTrue /\ TypeOK
  BY AgeInvariantInParts DEF AgeInvariant
<1>q. ASSUME WorldOK', Checkable', ReportsAreTrue', GrantsAreTrue' PROVE AgeInvariant'
  BY <1>q, Zenon DEF AgeInvariant, TypeOK, WorldOK, ReportsAreTrue, GrantsAreTrue, GrantIsTrue,
                     RequiresRevocationCheck
<1>1. CASE Tick
  <2>1. WorldOK' /\ Checkable'
    BY <1>a, <1>1, LifecycleAssumption DEF Tick, WorldOK, Checkable
  <2>2. ReportsAreTrue'
    BY <1>1, ReportsStayTrue DEF Tick
  <2>3. GrantsAreTrue'
    BY <1>1, GrantsStayTrue DEF Tick
  <2> QED BY <1>q, <2>1, <2>2, <2>3
<1>2. CASE Revoke
  <2>1. WorldOK' /\ Checkable'
    BY <1>a, <1>2 DEF Revoke, WorldOK, Checkable
  <2>2. ReportsAreTrue'
    BY <1>2, ReportsStayTrue DEF Revoke
  <2>3. GrantsAreTrue'
    BY <1>2, GrantsStayTrue DEF Revoke
  <2> QED BY <1>q, <2>1, <2>2, <2>3
<1>3. ASSUME NEW source \in Sources, NEW ahead \in 0 .. Skew, Report(source, ahead)
      PROVE  AgeInvariant'
  <2> DEFINE new == [status     |-> IF revoked_at = None THEN "Active" ELSE "Revoked",
                     checked_at |-> clock + ahead]
  <2>1. UNCHANGED <<document, clock, revoked_at, published, held, stored>>
        /\ reports' = [reports EXCEPT ![source] = new]
    BY <1>3 DEF Report
  <2>2. clock \in Nat /\ ahead \in Nat /\ Skew \in Nat /\ ahead <= Skew
    BY <1>a, LifecycleAssumption DEF WorldOK
  <2>3. new \in ReportSet
    BY <2>2 DEF ReportSet
  <2>4. ReportIsTrue(new)
    BY <2>2 DEF ReportIsTrue, LastActive
  <2>5. WorldOK' /\ Checkable'
    <3> HIDE DEF new
    <3> QED BY <1>a, <2>1, <2>3 DEF WorldOK, Checkable
  <2>6. ReportsAreTrue'
    <3>1. \A s \in Sources : reports'[s] = IF s = source THEN new ELSE reports[s]
      <4> HIDE DEF new
      <4> QED BY <1>a, <2>1 DEF WorldOK
    <3>2. \A s \in Sources : reports'[s] # None =>
            (reports'[s].status = "Active" => reports'[s].checked_at <= LastActive + Skew)
      <4> HIDE DEF new
      <4> QED BY <1>a, <2>4, <3>1 DEF ReportsAreTrue, ReportIsTrue
    <3>3. LastActive' = LastActive
      BY <2>1 DEF LastActive
    <3> QED BY <3>2, <3>3 DEF ReportsAreTrue, ReportIsTrue
  <2>7. GrantsAreTrue'
    BY <2>1, GrantsStayTrue
  <2> QED BY <1>q, <2>5, <2>6, <2>7
<1>4. ASSUME NEW key \in Keys, Withdraw(key) PROVE AgeInvariant'
  <2>1. WorldOK' /\ Checkable'
    BY <1>a, <1>4 DEF Withdraw, WorldOK, Checkable
  <2>2. ReportsAreTrue' /\ GrantsAreTrue'
    BY <1>4, ReportsStayTrue, GrantsStayTrue DEF Withdraw
  <2> QED BY <1>q, <2>1, <2>2
<1>5. ASSUME NEW source \in Sources, NEW posture \in Postures, VerifyWithSources(source, posture)
      PROVE  AgeInvariant'
  <2>1. UNCHANGED <<document, clock, revoked_at, reports, published, stored>>
    BY <1>5 DEF VerifyWithSources
  <2>2. WorldOK' /\ Checkable'
    BY <1>a, <2>1 DEF WorldOK, Checkable
  <2>3. ReportsAreTrue'
    BY <2>1, ReportsStayTrue
  <2>4. PICK key \in SigningKeys(document, published) :
          /\ RequiresRevocationCheck(document) => reports[source] # None
          /\ held' = [verified_at |-> clock, posture |-> posture, issuer |-> document.issuer,
                      key |-> key, ownership |-> document.ownership,
                      revocation |-> IF RequiresRevocationCheck(document)
                                     THEN IntoRecord(reports[source], source) ELSE None]
    BY <1>5 DEF VerifyWithSources
  <2>5. key \in Keys /\ clock \in Nat
    BY <1>a DEF WorldOK, SigningKeys
  <2>6. /\ held'.revocation \in Records \cup {None}
        /\ held'.revocation # None <=> RequiresRevocationCheck(document)
        /\ held'.revocation # None => EvidenceIsTrue(held'.revocation)
    BY <2>4, ReportedEvidenceIsTrue
  <2>7. held' \in Metadata
    BY <2>4, <2>5, <2>6 DEF Metadata
  <2>8. GrantIsTrue(held)'
    BY <2>1, <2>6, <2>7, GrantIsTrueUnchanged
  <2>9. GrantsAreTrue'
    BY <1>a, <2>1, <2>8, GrantsStayTrueBesidesHeld
  <2> QED BY <1>q, <2>2, <2>3, <2>9
<1>6. ASSUME NEW posture \in Postures, VerifyAgain(posture) PROVE AgeInvariant'
  <2>1. /\ UNCHANGED <<document, clock, revoked_at, reports, published, stored>>
        /\ held # None
        /\ held' = [held EXCEPT !.verified_at = clock, !.posture = posture]
    BY <1>6 DEF VerifyAgain
  <2>2. WorldOK' /\ Checkable'
    BY <1>a, <2>1 DEF WorldOK, Checkable
  <2>3. ReportsAreTrue'
    BY <2>1, ReportsStayTrue
  <2>4. GrantIsTrue(held) /\ clock \in Nat
    BY <1>a, <2>1 DEF GrantsAreTrue, WorldOK
  <2>5. held' \in Metadata /\ held'.revocation = held.revocation
    BY <2>1, <2>4 DEF GrantIsTrue, Metadata
  <2>6. GrantIsTrue(held)'
    BY <2>1, <2>4, <2>5, GrantIsTrueUnchanged DEF GrantIsTrue
  <2>7. GrantsAreTrue'
    BY <1>a, <2>1, <2>6, GrantsStayTrueBesidesHeld
  <2> QED BY <1>q, <2>2, <2>3, <2>7
<1>7. CASE Store \/ Load \/ Crash
  <2>1. /\ UNCHANGED <<document, clock, revoked_at, reports, published>>
        /\ held' \in {held, stored, None} /\ stored' \in {held, stored}
    BY <1>7 DEF Store, Load, Crash
  <2>2. WorldOK' /\ Checkable'
    BY <1>a, <2>1 DEF WorldOK, Checkable
  <2>3. ReportsAreTrue' /\ GrantsAreTrue'
    BY <2>1, ReportsStayTrue, GrantsStayTrue
  <2> QED BY <1>q, <2>2, <2>3
<1>8. CASE UNCHANGED vars
  <2>1. UNCHANGED <<document, clock, revoked_at, reports, published, held, stored>>
    BY <1>8 DEF vars
  <2>2. WorldOK' /\ Checkable'
    BY <1>a, <2>1 DEF WorldOK, Checkable
  <2>3. ReportsAreTrue' /\ GrantsAreTrue'
    BY <2>1, ReportsStayTrue, GrantsStayTrue
  <2> QED BY <1>q, <2>2, <2>3
<1> QED BY <1>1, <1>2, <1>3, <1>4, <1>5, <1>6, <1>7, <1>8 DEF Next

-----------------------------------------------------------------------------
LEMMA AgeInvariantHolds == Spec => []AgeInvariant
<1>1. Init => AgeInvariant
  BY InitAge
<1>2. AgeInvariant /\ [Next]_vars => AgeInvariant'
  BY NextAge
<1> QED BY <1>1, <1>2, PTL DEF Spec

\* Memory and storage never hold a grant whose evidence is not of the kind
\* that its document asks for: the posture, key and record of every
\* VerifiedTrustGrant are among those that exist.
THEOREM TypeCorrect == Spec => []TypeOK
<1>1. AgeInvariant => TypeOK
  BY DEF AgeInvariant
<1> QED BY <1>1, AgeInvariantHolds, PTL

\* What a revocation ends is over after the issuer's lifetime for an
\* unrevoked status and the skew of its endpoint, for every lifetime, skew
\* and set of sources.
THEOREM RevocationIsBounded == Spec => []BoundedRevocationLag
<1>1. AgeInvariant => BoundedRevocationLag
  <2> SUFFICES ASSUME AgeInvariant, NEW operation \in Operations, MayUse(operation),
                      revoked_at # None, Ends(operation)
               PROVE  clock <= revoked_at + NonRevokedTtl + Skew
    BY DEF BoundedRevocationLag
  <2>1. WorldOK /\ Checkable /\ GrantsAreTrue
    BY AgeInvariantInParts
  <2>2. RequiresRevocationCheck(document)
    BY <2>1 DEF Checkable
  <2>3. held # None
    BY DEF MayUse
  <2>4. GrantIsTrue(held) /\ held.revocation # None
    BY <2>1, <2>2, <2>3 DEF GrantsAreTrue, GrantIsTrue
  <2>5. held.revocation \in Records /\ EvidenceIsTrue(held.revocation)
    BY <2>4 DEF GrantIsTrue, Metadata
  <2>6. ~(clock > held.revocation.fresh_until)
    BY <2>4 DEF MayUse, StaleRevocationData, Checked
  <2>7. held.revocation.status = "Active"
    <3>1. document.revocation # None
      BY <2>2 DEF RequiresRevocationCheck
    <3>2. SUFFICES ASSUME held.revocation.status = "Revoked" PROVE FALSE
      BY <2>5 DEF Records
    <3> QED BY <2>4, <3>1, <3>2 DEF MayUse, Revoked, Checked, Ends, IsMintOperation
  <2>8. held.revocation.fresh_until <= revoked_at + Skew + NonRevokedTtl
    BY <2>5, <2>7 DEF EvidenceIsTrue, LastActive
  <2>9. /\ clock \in Nat /\ revoked_at \in Nat /\ held.revocation.fresh_until \in Nat
        /\ Skew \in Nat /\ NonRevokedTtl \in Nat
    BY <2>1, <2>5, LifecycleAssumption, FreshnessPolicyAssumption DEF WorldOK, Records
  <2> QED BY <2>6, <2>8, <2>9
<1> QED BY <1>1, AgeInvariantHolds, PTL

-----------------------------------------------------------------------------
(* What is in memory or in storage was consistent when it was verified,    *)
(* and consistency looks at nothing that changes afterwards.               *)

GrantsConsistent ==
  \A metadata \in {held, stored} \ {None} : Consistent(document, metadata)

\* The raw form keeps every member that the checks look at.
LEMMA RawFormIsAsConsistent ==
  ASSUME NEW doc \in Documents, NEW metadata
  PROVE  Consistent(RawForConsistencyCheck(doc), metadata) = Consistent(doc, metadata)
<1> DEFINE raw == RawForConsistencyCheck(doc)
<1>1. /\ raw.issuer = doc.issuer /\ raw.key_id = doc.key_id /\ raw.principal = doc.principal
      /\ raw.ownership = doc.ownership
      /\ raw.revocation = IF doc.revocation = None THEN None
                         ELSE [doc.revocation EXCEPT !.effect = "BlockAll"]
  BY DocumentsAssumption DEF RawForConsistencyCheck
<1>2. RequiresRevocationCheck(raw) = RequiresRevocationCheck(doc)
  <2>1. CASE doc.revocation = None
    BY <1>1, <2>1 DEF RequiresRevocationCheck
  <2>2. CASE doc.revocation # None
    <3>1. doc.revocation \in Revocations
      BY <2>2, DocumentsAssumption
    <3>2. raw.revocation \in Revocations /\ raw.revocation.revocable = doc.revocation.revocable
      BY <1>1, <2>2, <3>1 DEF Revocations
    <3>3. raw.revocation # None
      BY <3>2, DocumentsAssumption
    <3> QED BY <2>2, <3>2, <3>3 DEF RequiresRevocationCheck
  <2> QED BY <2>1, <2>2
<1> HIDE DEF raw
<1>3. MetadataChecks(raw, metadata) = MetadataChecks(doc, metadata)
  BY <1>1 DEF MetadataChecks
<1>4. RevocationChecks(raw, metadata) = RevocationChecks(doc, metadata)
  BY <1>2 DEF RevocationChecks
<1>5. Consistent(raw, metadata) = Consistent(doc, metadata)
  BY <1>3, <1>4 DEF Consistent
<1> QED BY <1>5 DEF raw

\* Only a verification brings in metadata, and it checks it.
LEMMA NextConsistent == GrantsConsistent /\ [Next]_vars => GrantsConsistent'
<1> SUFFICES ASSUME GrantsConsistent, [Next]_vars PROVE GrantsConsistent'
  OBVIOUS
<1>1. document' = document
  BY DEF Next, vars, Tick, Revoke, Report, Withdraw, VerifyWithSources, VerifyAgain, Store, Load, Crash
<1>2. ASSUME Consistent(document, held'), stored' = stored PROVE GrantsConsistent'
  <2>1. stored # None => Consistent(document, stored)
    BY DEF GrantsConsistent
  <2> QED BY <1>1, <1>2, <2>1 DEF GrantsConsistent
<1>3. ASSUME NEW source \in Sources, NEW posture \in Postures, VerifyWithSources(source, posture)
      PROVE  GrantsConsistent'
  <2>1. Consistent(document, held') /\ stored' = stored
    BY <1>3 DEF VerifyWithSources, Verifies
  <2> QED BY <1>2, <2>1
<1>4. ASSUME NEW posture \in Postures, VerifyAgain(posture) PROVE GrantsConsistent'
  <2>1. Consistent(document, held') /\ stored' = stored
    BY <1>4 DEF VerifyAgain, Verifies
  <2> QED BY <1>2, <2>1
<1>5. ASSUME held' \in {held, stored, None}, stored' \in {held, stored} PROVE GrantsConsistent'
  <2>1. {held', stored'} \ {None} \subseteq {held, stored} \ {None}
    BY <1>5
  <2> QED BY <1>1, <2>1 DEF GrantsConsistent
<1>6. CASE Tick \/ Revoke \/ Store \/ Load \/ Crash \/ UNCHANGED vars
  BY <1>5, <1>6 DEF vars, Tick, Revoke, Store, Load, Crash
<1>7. ASSUME NEW source \in Sources, NEW ahead \in 0 .. Skew, Report(source, ahead)
      PROVE  GrantsConsistent'
  BY <1>5, <1>7 DEF Report
<1>8. ASSUME NEW key \in Keys, Withdraw(key) PROVE GrantsConsistent'
  BY <1>5, <1>8 DEF Withdraw
<1> QED BY <1>3, <1>4, <1>6, <1>7, <1>8 DEF Next

LEMMA GrantsConsistentHolds == Spec => []GrantsConsistent
<1>1. Init => GrantsConsistent
  BY DEF Init, GrantsConsistent
<1> QED BY <1>1, NextConsistent, PTL DEF Spec

\* A record in storage can be loaded at any time: the application is not
\* locked out by a key that expired or was withdrawn, or by evidence that
\* went stale, since the record was written.
THEOREM StoredRecordsAlwaysLoad == Spec => []StoredRecordsLoad
<1>1. AgeInvariant /\ GrantsConsistent => StoredRecordsLoad
  BY RawFormIsAsConsistent
  DEF AgeInvariant, TypeOK, GrantsConsistent, StoredRecordsLoad, Rehydrates
<1> QED BY <1>1, AgeInvariantHolds, GrantsConsistentHolds, PTL

\* The ninth of the eleven checks is the third on revocation.
LEMMA NinthCheck ==
  ASSUME NEW a, NEW b, NEW c, NEW d, NEW e, NEW f,
         NEW x1, NEW x2, NEW x3, NEW x4, NEW x5
  PROVE  LET checks == <<a, b, c, d, e, f>> \o <<x1, x2, x3, x4, x5>>
         IN  9 \in DOMAIN checks /\ checks[9] = x3
<1> DEFINE first  == <<a, b, c, d, e, f>>
           second == <<x1, x2, x3, x4, x5>>
           S      == {a, b, c, d, e, f, x1, x2, x3, x4, x5}
<1>1. /\ first \in Seq(S) /\ Len(first) = 6
      /\ second \in Seq(S) /\ Len(second) = 5 /\ second[3] = x3
  OBVIOUS
<1> HIDE DEF first, second, S
<1>2. /\ first \o second \in Seq(S) /\ Len(first \o second) = Len(first) + Len(second)
      /\ \A i \in 1 .. Len(first) + Len(second) :
           (first \o second)[i] = IF i <= Len(first) THEN first[i] ELSE second[i - Len(first)]
  BY <1>1, ConcatProperties
<1>3. DOMAIN (first \o second) = 1 .. Len(first \o second)
  BY <1>2, LenProperties
<1>4. 9 \in 1 .. Len(first) + Len(second) /\ ~(9 <= Len(first)) /\ 9 - Len(first) = 3
  BY <1>1
<1>5. (first \o second)[9] = second[9 - Len(first)]
  BY <1>2, <1>4
<1> QED BY <1>1, <1>2, <1>3, <1>4, <1>5 DEF first, second

\* Consistency includes that evidence was fresh when it was verified.
LEMMA ConsistentIsFresh ==
  ASSUME NEW doc, NEW metadata, Consistent(doc, metadata), metadata.revocation # None
  PROVE  IsFreshAt(metadata.revocation, metadata.verified_at)
<1> DEFINE first  == MetadataChecks(doc, metadata)
           second == RevocationChecks(doc, metadata)
           checks == first \o second
           stale  == Check("StaleRevocationRecord",
                           /\ metadata.revocation # None
                           /\ ~IsFreshAt(metadata.revocation, metadata.verified_at))
<1>1. \E a, b, c, d, e, f : first = <<a, b, c, d, e, f>>
  BY Zenon DEF MetadataChecks
<1>2. \E a, b, c, d, e : second = <<a, b, c, d, e>> /\ c = stale
  BY Zenon DEF RevocationChecks
<1>3. 9 \in DOMAIN checks /\ checks[9] = stale
  <2> HIDE DEF first, second, stale
  <2>1. PICK a, b, c, d, e, f : first = <<a, b, c, d, e, f>>
    BY <1>1
  <2>2. PICK x1, x2, x3, x4, x5 : second = <<x1, x2, x3, x4, x5>> /\ x3 = stale
    BY <1>2
  <2>3. checks = <<a, b, c, d, e, f>> \o <<x1, x2, x3, x4, x5>>
    BY <2>1, <2>2
  <2> HIDE DEF checks
  <2> QED BY <2>2, <2>3, NinthCheck
<1>4. ~checks[9].applies
  <2>1. Applying(checks) = {}
    BY DEF Consistent
  <2> HIDE DEF checks
  <2> QED BY <1>3, <2>1 DEF Applying
<1>5. stale.applies <=> /\ metadata.revocation # None
                        /\ ~IsFreshAt(metadata.revocation, metadata.verified_at)
  BY DEF Check
<1> HIDE DEF checks, stale
<1> QED BY <1>3, <1>4, <1>5

\* Verifier and evaluator judge freshness alike: whatever verifies at this
\* instant is usable at it, but for a status or a window that forbids it.
THEOREM VerifiedIsUsable == Spec => []VerifiedMeansUsable
<1>1. AgeInvariant /\ GrantsConsistent => VerifiedMeansUsable
  <2> SUFFICES ASSUME TypeOK, GrantsConsistent, held # None, held.verified_at = clock,
                      NEW operation \in Operations, ~MayUse(operation)
               PROVE  \/ /\ document.window # None
                         /\ ~(/\ document.window.not_before <= clock
                              /\ clock <= document.window.not_after)
                      \/ /\ held.revocation # None
                         /\ held.revocation.status = "Revoked" /\ Ends(operation)
    BY DEF VerifiedMeansUsable, AgeInvariant
  <2>1. /\ clock \in Nat
        /\ document.window # None =>
             document.window.not_before \in Nat /\ document.window.not_after \in Nat
        /\ document.revocation # None =>
             document.revocation.effect \in {"BlockAll", "BlockMintingOnly"}
    BY DocumentsAssumption, LifecycleAssumption DEF TypeOK, Windows, Revocations
  <2>2. /\ held.revocation # None => document.revocation # None
        /\ held.revocation # None => held.revocation.fresh_until \in Nat
    BY DEF TypeOK, Metadata, Records
  <2>3. held.revocation # None => ~(clock > held.revocation.fresh_until)
    <3>1. held.revocation # None => IsFreshAt(held.revocation, held.verified_at)
      BY ConsistentIsFresh DEF GrantsConsistent
    <3> QED BY <2>1, <2>2, <3>1 DEF IsFreshAt
  <2> QED BY <2>1, <2>2, <2>3
      DEF MayUse, StaleRevocationData, Revoked, Checked, NotYetValid, Expired, Ends, IsMintOperation
<1> QED BY <1>1, AgeInvariantHolds, GrantsConsistentHolds, PTL
=============================================================================
