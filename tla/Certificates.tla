---------------------------- MODULE Certificates ----------------------------
(***************************************************************************)
(* crypto/crypto.go, crypto/ecdsa, the certificates of types/types.go and  *)
(* their protobuf forms (convert.go): how a leader makes a certificate out *)
(* of the signatures it collects, and what the receivers accept.           *)
(*                                                                         *)
(* A signature of one or more replicas (Multi) is a function from signers  *)
(* to what each signed; one that is nil is {}, any other {m}.  ECDSA is    *)
(* taken as unforgeable: a signature verifies against what was signed.     *)
(* The modules of the protocol keep of all this that a certificate is for  *)
(* one block and that nobody votes twice.                                  *)
(***************************************************************************)
EXTENDS NodeManager, Sequences, FiniteSets

CONSTANTS
    Item,     \* blocks, views and timeout certificates, as far as told apart
    MaxVotes  \* bound on the signatures that the leader receives

ASSUME CertificatesAssumption == MaxVotes \in Nat

TimeoutQuorumSize == F + 1

\* What is signed: the bytes of a block, of a view (a wish), or of a view with
\* its timeout certificate (a vote for it).
Payload == {"block", "view", "timeout"} \X Item

-----------------------------------------------------------------------------
(* Multi-signatures. *)

NilSig == {}
Multi == UNION {[s -> Payload] : s \in SUBSET Replica}

\* Mutant: replicas counted from one.
Sign_FromOne(r, p) == {[x \in {r + 1} |-> p]}

Sign(r, p) == {[x \in {r} |-> p]}

Overlap(sigs) ==
    \E i, j \in DOMAIN sigs : i # j /\ DOMAIN sigs[i] \cap DOMAIN sigs[j] # {}

Merge(sigs) ==
    [r \in UNION {DOMAIN sigs[i] : i \in DOMAIN sigs} |->
        LET i == CHOOSE j \in DOMAIN sigs : r \in DOMAIN sigs[j] IN sigs[i][r]]

\* Mutant: two signatures of one replica are taken for one.
Combine_Overlapping(sigs) == IF Len(sigs) < 2 THEN NilSig ELSE {Merge(sigs)}

\* Mutant: two signatures are not enough.
Combine_NotTwo(sigs) ==
    IF Len(sigs) <= 2 \/ Overlap(sigs) THEN NilSig ELSE {Merge(sigs)}

\* An error, with nil, for less than two signatures or overlapping ones.
Combine(sigs) ==
    IF Len(sigs) < 2 \/ Overlap(sigs) THEN NilSig ELSE {Merge(sigs)}

\* Every signature is verified, each in a goroutine.  Nil would panic.
Verify(m, p) == DOMAIN m # {} /\ \A r \in DOMAIN m : m[r] = p

\* A message holds the list of the signatures with their signers, or nothing.
QuorumSignatureToProto(sig) == {{<<r, m[r]>> : r \in DOMAIN m} : m \in sig}

Restore(entries) ==
    [r \in {e[1] : e \in entries} |-> (CHOOSE e \in entries : e[1] = r)[2]]
QuorumSignatureFromProto(pb) == {Restore(entries) : entries \in pb}

-----------------------------------------------------------------------------
(* Certificates, of a block, a view or a timeout certificate. *)

\* How many signatures a certificate about p takes.
Threshold(p) == IF p[1] = "view" THEN TimeoutQuorumSize ELSE QuorumSize

CreateCert(p, sigs) == [for |-> p, sig |-> Combine(sigs)]

CertToProto(c) == [c EXCEPT !.sig = QuorumSignatureToProto(@)]
CertFromProto(pb) == [pb EXCEPT !.sig = QuorumSignatureFromProto(@)]

\* VerifyQuorumCert, VerifyTimeoutCert and VerifyTimeoutQuorumCert panic, or
\* dereference nil, without a signature.  Genesis and view 0, whose
\* certificates are always valid, are none of the items.
VerifyPanics(c) == c.sig = NilSig

VerifyCert(p, c) ==
    \E m \in c.sig : Cardinality(DOMAIN m) >= Threshold(p) /\ Verify(m, p)

-----------------------------------------------------------------------------
(* A leader collects signatures. *)

VARIABLES
    target,    \* what the leader wants a certificate about
    collected, \* the signatures it has verified, in order
    received,  \* how many it has received
    sent       \* the certificate in the message it sends, once there is one

vars == <<target, collected, received, sent>>

Init ==
    /\ target \in Payload
    /\ collected = <<>>
    /\ received = 0
    /\ sent = {}

\* A signature over p is verified against what its message carries.
Accepts(r, p, about) == \E m \in Sign(r, p) : Verify(m, about)

\* There is a list for each block and view.  This one is the target's: the
\* message is about the target, and is accepted.
\* The certificate is made from what there is once it is enough.  If that
\* fails, the list is kept, but for votes for a timeout certificate, where
\* the error is dropped and the message sent without a signature.
Collect(r, p, about) ==
    LET sigs == collected \o [i \in 1..1 |-> CHOOSE m \in Sign(r, p) : TRUE]
        cert == CreateCert(about, sigs)
    IN  /\ about = target
        /\ Accepts(r, p, about)
        /\ \/ /\ Len(sigs) < Threshold(target)
              /\ collected' = sigs
              /\ UNCHANGED sent
           \/ /\ Len(sigs) >= Threshold(target)
              /\ cert.sig = NilSig /\ target[1] # "timeout"
              /\ collected' = sigs
              /\ UNCHANGED sent
           \/ /\ Len(sigs) >= Threshold(target)
              /\ cert.sig # NilSig \/ target[1] = "timeout"
              /\ collected' = <<>>
              /\ sent' = {CertToProto(cert)}

\* A message about anything, with the signature of r over p, is received,
\* possibly again.  One about something else goes to another list, one that
\* does not verify to none.
Receive(r, p, about) ==
    /\ received < MaxVotes
    /\ sent = {}
    /\ received' = received + 1
    /\ \/ Collect(r, p, about)
       \/ /\ about # target \/ ~Accepts(r, p, about)
          /\ UNCHANGED <<collected, sent>>
    /\ UNCHANGED target

Next == \E r \in Replica, p, about \in Payload : Receive(r, p, about)

Spec == Init /\ [][Next]_vars

-----------------------------------------------------------------------------
(* Properties. *)

TypeOK ==
    /\ target \in Payload
    /\ received \in 0..MaxVotes
    /\ \A i \in DOMAIN collected : collected[i] \in Multi
    /\ sent \subseteq [for : Payload, sig : SUBSET SUBSET (Replica \X Payload)]

\* The protocol's idea of a certificate: the one a leader sends is accepted by
\* all, about the block (view, timeout certificate) it was made for and about
\* no other.  So VerifyQuorumCert compares blocks, and the signatures in a
\* certificate can be left out of the other modules.
AcceptedForTarget ==
    \A pb \in sent :
        LET c == CertFromProto(pb)
        IN  ~VerifyPanics(c) => \A p \in Payload : VerifyCert(p, c) <=> p = target

\* Who has signed what the leader has collected.
Signers == UNION {DOMAIN collected[i] : i \in DOMAIN collected}

\* A leader with signatures of enough replicas has sent its certificate,
\* unless one of them signed twice: then it never will.  The lists of the
\* protocol have no such doubles (CountedOnce, WishesCountedOnce).
FormedUnlessRepeated ==
    Cardinality(Signers) >= Threshold(target) => Overlap(collected)
=============================================================================
