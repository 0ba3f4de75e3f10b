---------------------------- MODULE HotStuffData ----------------------------
(***************************************************************************)
(* The data of the protocol: hashes, quorum certificates, blocks and       *)
(* messages (types/types.go, model/block.go, crypto/crypto.go and the      *)
(* protobuf messages).                                                     *)
(*                                                                         *)
(* A hash is the identity of a block.  sha256 covers the proposer and the  *)
(* time of the proposal, and a replica's clock never shows a time twice,   *)
(* so <<proposer, time>> identifies the block.  A certificate keeps the    *)
(* view and the hash; its signatures are always those of the quorum that   *)
(* the leader counted, so their set is left out.                           *)
(***************************************************************************)
EXTENDS NodeManager

CONSTANTS
    Cmd,    \* the client's commands
    NoCmd   \* the command of the genesis block

ASSUME NoCmdAssumption == NoCmd \notin Cmd

Hash == Nat \X Nat
ZeroHash == <<0, 0>>      \* types.Hash{}: no block has it
GenesisHash == <<0, 1>>

QuorumCert == [view : View, hash : Hash]
ZeroQC == [view |-> 0, hash |-> ZeroHash]  \* types.QuorumCert{}
GenesisQC == [view |-> 0, hash |-> GenesisHash]

Block == [hash : Hash, view : View, proposer : Nat, cmd : Cmd \cup {NoCmd},
          cert : QuorumCert]
Genesis == [hash |-> GenesisHash, view |-> 0, proposer |-> 0, cmd |-> NoCmd,
            cert |-> ZeroQC]

\* CreateLeaf takes the parent from the certificate, and so does genesis.
Parent(b) == b.cert.hash

\* The certificate of the votes for block b.  The genesis case of the code
\* only serves the initial HighQC, which is GenesisQC.
CreateQuorumCert(b) == [view |-> b.view, hash |-> b.hash]

\* The signatures of qc are checked against the bytes of the block that
\* comes with it, so they hold iff the votes were for that block.
VerifyQuorumCert(b, qc) == qc.hash = GenesisHash \/ qc.hash = b.hash

VoteType == {"PrepareVote", "PreCommitVote", "CommitVote"}
LeaderType == {"Prepare", "PreCommit", "Commit", "Decide"}

\* A vote is unsigned (PartialCert = nil) when a faulty replica casts it.
VoteMsg == [type : VoteType, view : View, from : Replica, block : Block,
            signed : BOOLEAN]
LeaderMsg == [type : LeaderType, view : View, block : Block, qc : QuorumCert]
\* from is not in the code's message; it tells two equal ones apart.
NewViewMsg == [type : {"NewView"}, view : View, from : Replica,
               qc : QuorumCert]
Msg == VoteMsg \cup LeaderMsg \cup NewViewMsg
=============================================================================
