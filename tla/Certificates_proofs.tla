------------------------- MODULE Certificates_proofs -------------------------
(***************************************************************************)
(* Theorems about Certificates, for every number of replicas, whatever is  *)
(* signed and however many signatures are received.                        *)
(***************************************************************************)
EXTENDS Certificates, FiniteSetTheorems, FunctionTheorems, SequenceTheorems,
        TLAPS

LEMMA ThresholdIsNat ==
    ASSUME NEW p
    PROVE  Threshold(p) \in Nat /\ Threshold(p) >= 2
<1>1. TotalNumber \in 4..16
  BY TotalNumberAssumption
<1>2. F \in Nat /\ F >= 1
  BY <1>1 DEF F
<1> QED
  BY <1>2 DEF Threshold, QuorumSize, TimeoutQuorumSize

\* The signature of one replica over p.
Single(r, p) == [x \in {r} |-> p]
Singles(p) == {Single(r, p) : r \in Replica}

\* The signatures of a set of replicas over p in a message.
EntriesOf(S, p) == {<<r, p>> : r \in S}

\* What the leader sends has the signatures of enough replicas, or none.
SentForm(pb) == pb = [for |-> pb.for, sig |-> pb.sig]

SentOk ==
    \A pb \in sent :
        /\ SentForm(pb) /\ pb.for = target
        /\ \/ pb.sig = {}
           \/ \E S \in SUBSET Replica :
                /\ pb.sig = {EntriesOf(S, target)}
                /\ Cardinality(S) >= Threshold(target)

CertInv ==
    /\ target \in Payload
    /\ received \in 0..MaxVotes
    /\ collected \in Seq(Singles(target))
    /\ Len(collected) < Threshold(target) \/ Overlap(collected)
    /\ SentOk

LEMMA InitCertInv == Init => CertInv
BY ThresholdIsNat, CertificatesAssumption DEF Init, CertInv, SentOk

-----------------------------------------------------------------------------
(* Lists of signatures of one replica each. *)

SignersOf(sigs) == UNION {DOMAIN sigs[i] : i \in DOMAIN sigs}

\* Whose signature is the i-th?
SignerOf(sigs, i) == CHOOSE r \in Replica : sigs[i] \in {Single(r, p) : p \in Payload}

LEMMA SignerOfSingle ==
    ASSUME NEW p \in Payload, NEW sigs \in Seq(Singles(p)), NEW i \in 1..Len(sigs)
    PROVE  /\ SignerOf(sigs, i) \in Replica
           /\ sigs[i] = Single(SignerOf(sigs, i), p)
           /\ DOMAIN sigs[i] = {SignerOf(sigs, i)}
<1>1. PICK r \in Replica : sigs[i] = Single(r, p)
  BY DEF Singles
<1>2. \E s \in Replica : sigs[i] \in {Single(s, q) : q \in Payload}
  BY <1>1
<1>3. /\ SignerOf(sigs, i) \in Replica
      /\ sigs[i] \in {Single(SignerOf(sigs, i), q) : q \in Payload}
  BY <1>2 DEF SignerOf
<1>4. PICK q \in Payload : sigs[i] = Single(SignerOf(sigs, i), q)
  BY <1>3
<1>5. DOMAIN sigs[i] = {r} /\ DOMAIN sigs[i] = {SignerOf(sigs, i)}
  BY <1>1, <1>4 DEF Single
<1>6. SignerOf(sigs, i) = r
  BY <1>5
<1> QED
  BY <1>1, <1>3, <1>5, <1>6

\* Without repetition there are as many signers as signatures, and never more.
LEMMA CountSigners ==
    ASSUME NEW p \in Payload, NEW sigs \in Seq(Singles(p))
    PROVE  /\ SignersOf(sigs) \in SUBSET Replica
           /\ Cardinality(SignersOf(sigs)) <= Len(sigs)
           /\ ~Overlap(sigs) => Cardinality(SignersOf(sigs)) = Len(sigs)
<1> DEFINE n == Len(sigs)
           S == SignersOf(sigs)
           f == [i \in 1..n |-> SignerOf(sigs, i)]
<1>1. n \in Nat /\ DOMAIN sigs = 1..n
  OBVIOUS
<1>2. \A i \in 1..n : SignerOf(sigs, i) \in Replica /\ DOMAIN sigs[i] = {SignerOf(sigs, i)}
  BY SignerOfSingle
<1>3. S = {SignerOf(sigs, i) : i \in 1..n}
  BY <1>1, <1>2 DEF SignersOf
<1>4. S \in SUBSET Replica
  BY <1>2, <1>3
<1>5. f \in Surjection(1..n, S)
  <2>1. f \in [1..n -> S]
    BY <1>3
  <2>2. \A r \in S : \E i \in 1..n : f[i] = r
    BY <1>3
  <2> QED
    BY <2>1, <2>2, Fun_IsSurj
<1>6. Cardinality(S) <= n
  BY <1>1, <1>5, FS_SurjCardinalityBound DEF ExistsSurjection
<1>7. ASSUME ~Overlap(sigs) PROVE Cardinality(S) = n
  <2>1. \A i, j \in 1..n : f[i] = f[j] => i = j
    BY <1>1, <1>2, <1>7 DEF Overlap
  <2>2. f \in Injection(1..n, S)
    BY <1>5, <2>1, Fun_IsInj DEF Surjection
  <2>3. f \in Bijection(1..n, S)
    BY <1>5, <2>2 DEF Bijection
  <2> QED
    BY <1>1, <2>3, FS_CountingElements DEF ExistsBijection
<1> QED
  BY <1>4, <1>6, <1>7

\* Combined, they go into a message as the entries of their signers.
LEMMA CombinedToProto ==
    ASSUME NEW p \in Payload, NEW sigs \in Seq(Singles(p)),
           Len(sigs) >= 2, ~Overlap(sigs)
    PROVE  QuorumSignatureToProto(Combine(sigs)) = {EntriesOf(SignersOf(sigs), p)}
<1> DEFINE m == Merge(sigs)
<1>1. Combine(sigs) = {m}
  BY DEF Combine
<1>2. DOMAIN m = SignersOf(sigs)
  BY DEF Merge, SignersOf
<1>3. \A r \in SignersOf(sigs) : m[r] = p
  <2> SUFFICES ASSUME NEW r \in SignersOf(sigs) PROVE m[r] = p
    OBVIOUS
  <2> DEFINE i == CHOOSE j \in DOMAIN sigs : r \in DOMAIN sigs[j]
  <2>1. i \in DOMAIN sigs /\ r \in DOMAIN sigs[i]
    BY DEF SignersOf
  <2>2. m[r] = sigs[i][r]
    BY DEF Merge, SignersOf
  <2> HIDE DEF i
  <2>3. i \in 1..Len(sigs)
    BY <2>1
  <2>4. sigs[i] = Single(SignerOf(sigs, i), p) /\ DOMAIN sigs[i] = {SignerOf(sigs, i)}
    BY <2>3, SignerOfSingle
  <2> QED
    BY <2>1, <2>2, <2>4 DEF Single
<1> HIDE DEF m
<1>4. {<<r, m[r]>> : r \in DOMAIN m} = EntriesOf(SignersOf(sigs), p)
  BY <1>2, <1>3 DEF EntriesOf
<1>5. QuorumSignatureToProto({m}) = {{<<r, m[r]>> : r \in DOMAIN m}}
  BY DEF QuorumSignatureToProto
<1> QED
  BY <1>1, <1>4, <1>5

\* The receiver finds in the message what the signers signed.
LEMMA ProtoRestored ==
    ASSUME NEW p, NEW S
    PROVE  QuorumSignatureFromProto({EntriesOf(S, p)}) = {[r \in S |-> p]}
<1> DEFINE E == EntriesOf(S, p)
<1>1. {e[1] : e \in E} = S
  <2>1. \A e \in E : e[1] \in S
    BY DEF EntriesOf
  <2>2. \A r \in S : <<r, p>> \in E /\ <<r, p>>[1] = r
    BY DEF EntriesOf
  <2> HIDE DEF E
  <2> QED
    BY <2>1, <2>2
<1>2. \A r \in S : (CHOOSE e \in E : e[1] = r) = <<r, p>>
  BY DEF EntriesOf
<1> HIDE DEF E
<1>3. Restore(E) = [r \in S |-> p]
  <2> DEFINE entry(r) == CHOOSE e \in E : e[1] = r
             f == [r \in S |-> entry(r)[2]]
  <2>1. Restore(E) = f
    BY <1>1, Zenon DEF Restore
  <2>2. \A r \in S : entry(r) = <<r, p>>
    BY <1>2
  <2> HIDE DEF entry
  <2>3. \A r \in S : f[r] = p
    BY <2>2
  <2> QED
    BY <2>1, <2>3
<1>4. QuorumSignatureFromProto({E}) = {Restore(E)}
  BY DEF QuorumSignatureFromProto
<1> QED
  BY <1>3, <1>4 DEF E

-----------------------------------------------------------------------------
(* The leader. *)

LEMMA CollectKeepsCertInv ==
    ASSUME CertInv, sent = {}, NEW r \in Replica, NEW p \in Payload,
           NEW about \in Payload, Collect(r, p, about), UNCHANGED target, received' \in 0..MaxVotes
    PROVE  CertInv'
<1> DEFINE sigs == collected \o [i \in 1..1 |-> CHOOSE m \in Sign(r, p) : TRUE]
           cert == CreateCert(target, sigs)
<1>1. Threshold(target) \in Nat /\ Threshold(target) >= 2
  BY ThresholdIsNat
<1>2. target \in Payload
  BY DEF CertInv
<1>3. p = target /\ about = target
  BY DEF Collect, Accepts, Sign, Verify
<1>4. sigs \in Seq(Singles(target)) /\ Len(sigs) \in Nat
  <2> DEFINE new == [i \in 1..1 |-> CHOOSE m \in Sign(r, p) : TRUE]
  <2>1. (CHOOSE m \in Sign(r, p) : TRUE) = Single(r, target)
    BY <1>3 DEF Sign, Single
  <2>2. Single(r, target) \in Singles(target)
    BY DEF Singles
  <2>3. new \in Seq(Singles(target))
    <3> HIDE DEF Singles
    <3>1. new \in [1..1 -> Singles(target)]
      BY <2>1, <2>2
    <3> HIDE DEF new
    <3> QED
      BY <3>1, SeqDef
  <2>4. collected \in Seq(Singles(target))
    BY DEF CertInv
  <2> HIDE DEF new
  <2>5. collected \o new \in Seq(Singles(target))
    BY <2>3, <2>4
  <2> QED
    BY <2>5 DEF new
<1>5. Threshold(target)' = Threshold(target)
  BY DEF Threshold
<1>6. Singles(target)' = Singles(target)
  BY DEF Singles, Single
<1>7. /\ \/ /\ Len(sigs) < Threshold(target)
            /\ collected' = sigs
            /\ UNCHANGED sent
         \/ /\ Len(sigs) >= Threshold(target)
            /\ cert.sig = NilSig
            /\ collected' = sigs
            /\ UNCHANGED sent
         \/ /\ collected' = <<>>
            /\ Len(sigs) >= Threshold(target)
            /\ sent' = {CertToProto(cert)}
  BY <1>3 DEF Collect
<1>8. /\ cert.for = target /\ cert.sig = Combine(sigs)
      /\ cert = [for |-> cert.for, sig |-> cert.sig]
  BY DEF CreateCert
<1>9. /\ CertToProto(cert).for = target
      /\ CertToProto(cert).sig = QuorumSignatureToProto(Combine(sigs))
      /\ SentForm(CertToProto(cert))
  BY <1>8 DEF CertToProto, SentForm
<1> HIDE DEF sigs, cert
<1>10. CASE Len(sigs) < Threshold(target) /\ collected' = sigs /\ UNCHANGED sent
  BY <1>2, <1>4, <1>5, <1>6, <1>10 DEF CertInv, SentOk
<1>11. CASE /\ Len(sigs) >= Threshold(target)
            /\ cert.sig = NilSig
            /\ collected' = sigs
            /\ UNCHANGED sent
  <2>1. Len(sigs) >= 2 /\ Combine(sigs) = {}
    BY <1>1, <1>4, <1>8, <1>11 DEF NilSig
  <2>2. Overlap(sigs)
    BY <1>4, <2>1 DEF Combine
  <2> QED
    BY <1>2, <1>4, <1>6, <1>11, <2>2 DEF CertInv, SentOk, Overlap
<1>12. CASE /\ collected' = <<>>
            /\ Len(sigs) >= Threshold(target)
            /\ sent' = {CertToProto(cert)}
  <2>1. SentOk'
    <3>1. CASE Overlap(sigs)
      <4>1. Combine(sigs) = {}
        BY <3>1 DEF Combine, NilSig
      <4>2. CertToProto(cert).sig = {}
        BY <1>9, <4>1 DEF QuorumSignatureToProto
      <4> QED
        BY <1>9, <1>12, <4>2 DEF SentOk
    <3>2. CASE ~Overlap(sigs)
      <4>1. CertToProto(cert).sig = {EntriesOf(SignersOf(sigs), target)}
        BY <1>1, <1>2, <1>4, <1>9, <1>12, <3>2, CombinedToProto
      <4>2. /\ SignersOf(sigs) \in SUBSET Replica
            /\ Cardinality(SignersOf(sigs)) >= Threshold(target)
        BY <1>2, <1>4, <1>12, <3>2, CountSigners
      <4>3. EntriesOf(SignersOf(sigs), target)' = EntriesOf(SignersOf(sigs)', target)
        BY DEF EntriesOf
      <4> DEFINE pb == CertToProto(cert)
                 S == SignersOf(sigs)
      <4>4. /\ SentForm(pb) /\ pb.for = target
            /\ pb.sig = {EntriesOf(S, target)}
            /\ S \in SUBSET Replica
            /\ Cardinality(S) >= Threshold(target)
            /\ sent' = {pb}
        BY <1>9, <1>12, <4>1, <4>2
      <4> HIDE DEF pb, S
      <4> QED
        BY <1>5, <4>4 DEF SentOk, EntriesOf
    <3> QED
      BY <3>1, <3>2
  <2>2. collected' \in Seq(Singles(target)) /\ Len(collected') < Threshold(target)
    BY <1>1, <1>12
  <2> QED
    BY <1>2, <1>5, <1>6, <2>1, <2>2 DEF CertInv
<1> QED
  BY <1>7, <1>10, <1>11, <1>12

LEMMA NextCertInv == CertInv /\ [Next]_vars => CertInv'
<1> SUFFICES ASSUME CertInv, [Next]_vars PROVE CertInv'
  OBVIOUS
<1>1. ASSUME NEW r \in Replica, NEW p \in Payload, NEW about \in Payload,
             Receive(r, p, about)
      PROVE  CertInv'
  <2>1. received' \in 0..MaxVotes /\ UNCHANGED target /\ sent = {}
    BY <1>1, CertificatesAssumption DEF Receive, CertInv
  <2>2. CASE Collect(r, p, about)
    BY <2>1, <2>2, CollectKeepsCertInv
  <2>3. CASE UNCHANGED <<collected, sent>>
    BY <2>1, <2>3 DEF CertInv, SentOk, Threshold, Singles, Single, Overlap
  <2> QED
    BY <1>1, <2>2, <2>3 DEF Receive
<1>2. CASE UNCHANGED vars
  BY <1>2 DEF CertInv, SentOk, Threshold, Singles, Single, Overlap, vars
<1> QED
  BY <1>1, <1>2 DEF Next

LEMMA CertInvCorrect == Spec => []CertInv
BY InitCertInv, NextCertInv, PTL DEF Spec

LEMMA CertInvAccepted == CertInv => AcceptedForTarget
<1> SUFFICES ASSUME CertInv, NEW pb \in sent,
                    ~VerifyPanics(CertFromProto(pb)), NEW p \in Payload
             PROVE  VerifyCert(p, CertFromProto(pb)) <=> p = target
  BY DEF AcceptedForTarget
<1> DEFINE c == CertFromProto(pb)
<1>1. c.sig = QuorumSignatureFromProto(pb.sig)
  BY DEF CertInv, SentOk, CertFromProto
<1>2. pb.sig # {}
  BY <1>1 DEF VerifyPanics, QuorumSignatureFromProto, NilSig
<1>3. PICK S \in SUBSET Replica :
        /\ pb.sig = {EntriesOf(S, target)}
        /\ Cardinality(S) >= Threshold(target)
  BY <1>2 DEF CertInv, SentOk
<1> DEFINE m == [r \in S |-> target]
<1>4. c.sig = {m}
  BY <1>1, <1>3, ProtoRestored
<1>5. S # {}
  <2>1. Cardinality({}) = 0
    BY FS_EmptySet
  <2> QED
    BY <1>3, <2>1, ThresholdIsNat
<1>6. DOMAIN m = S /\ \A r \in S : m[r] = target
  OBVIOUS
<1> HIDE DEF c, m
<1>7. VerifyCert(p, c) <=> Cardinality(S) >= Threshold(p) /\ Verify(m, p)
  BY <1>4, <1>6 DEF VerifyCert
<1>8. Verify(m, p) <=> p = target
  BY <1>5, <1>6 DEF Verify
<1> QED
  BY <1>3, <1>7, <1>8 DEF c

LEMMA CertInvFormed == CertInv => FormedUnlessRepeated
<1> SUFFICES ASSUME CertInv, Cardinality(Signers) >= Threshold(target)
             PROVE  Overlap(collected)
  BY DEF FormedUnlessRepeated
<1>1. /\ Cardinality(SignersOf(collected)) <= Len(collected)
      /\ SignersOf(collected) \in SUBSET Replica
  BY CountSigners DEF CertInv
<1>2. IsFiniteSet(Replica)
  BY TotalNumberAssumption, FS_Interval DEF Replica
<1>3. Cardinality(Signers) \in Nat
  BY <1>1, <1>2, FS_Subset, FS_CardinalityType DEF Signers, SignersOf
<1>4. Len(collected) \in Nat /\ Threshold(target) \in Nat
  BY ThresholdIsNat DEF CertInv
<1>5. ~(Len(collected) < Threshold(target))
  BY <1>1, <1>3, <1>4 DEF Signers, SignersOf
<1> QED
  BY <1>5 DEF CertInv

LEMMA CertInvTyped == CertInv => TypeOK
<1> SUFFICES ASSUME CertInv PROVE TypeOK
  OBVIOUS
<1>1. \A m \in Singles(target) : m \in Multi
  <2> SUFFICES ASSUME NEW r \in Replica PROVE Single(r, target) \in Multi
    BY DEF Singles
  <2>1. Single(r, target) \in [{r} -> Payload]
    BY DEF Single, CertInv
  <2>2. {r} \in SUBSET Replica
    OBVIOUS
  <2> QED
    BY <2>1, <2>2 DEF Multi
<1>2. \A i \in DOMAIN collected : collected[i] \in Multi
  BY <1>1 DEF CertInv
<1>3. ASSUME NEW pb \in sent
      PROVE  pb \in [for : Payload, sig : SUBSET SUBSET (Replica \X Payload)]
  <2>1. pb.for \in Payload /\ pb.sig \in SUBSET SUBSET (Replica \X Payload)
    BY DEF CertInv, SentOk, EntriesOf
  <2>2. SentForm(pb)
    BY DEF CertInv, SentOk
  <2> QED
    BY <2>1, <2>2 DEF SentForm
<1> QED
  BY <1>2, <1>3 DEF CertInv, TypeOK

\* What a leader sends is accepted by everyone, as a certificate about what the
\* leader wanted one about and as a certificate about nothing else.
THEOREM AcceptedForTargetCorrect == Spec => []AcceptedForTarget
BY CertInvCorrect, CertInvAccepted, PTL

\* Only a replica that signs twice keeps a leader from forming a certificate out
\* of enough signatures.
THEOREM FormedUnlessRepeatedCorrect == Spec => []FormedUnlessRepeated
BY CertInvCorrect, CertInvFormed, PTL

\* What the leader collects are signatures of replicas over its target, what it
\* sends is a certificate with signatures of replicas or with none.
THEOREM CertificatesTypeCorrect == Spec => []TypeOK
BY CertInvCorrect, CertInvTyped, PTL
=============================================================================
