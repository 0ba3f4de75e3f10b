----------------------------- MODULE BlockChain -----------------------------
(***************************************************************************)
(* service/blockchain.go: the blocks a replica stores, here a set of       *)
(* blocks.  blockAtHeight is only written, and is left out.                *)
(***************************************************************************)
EXTENDS HotStuffData

Has(chain, h) == \E b \in chain : b.hash = h
Get(chain, h) == CHOOSE b \in chain : b.hash = h

Store(chain, b) == {x \in chain : x.hash # b.hash} \cup {b}

\* Walk from block towards its ancestors until the target's height.
Extends(chain, block, target) ==
    LET walk[b \in chain \cup {block}] ==
            IF b.view > target.view
            THEN Has(chain, Parent(b)) /\ walk[Get(chain, Parent(b))]
            ELSE b.hash = target.hash
    IN  walk[block]

\* Mutant: the grandparent is evicted.
CleanTarget_Grandparent(chain, b) ==
    IF Has(chain, Parent(b)) THEN Parent(Get(chain, Parent(b))) ELSE ZeroHash

\* The hash of the block's great-grandparent, if its parent and grandparent
\* are stored, and ZeroHash (which no block has) otherwise.
CleanTarget(chain, b) ==
    IF Has(chain, Parent(b)) /\ Has(chain, Parent(Get(chain, Parent(b))))
    THEN Parent(Get(chain, Parent(Get(chain, Parent(b)))))
    ELSE ZeroHash

Clean(chain, b) == {x \in chain : x.hash # CleanTarget(chain, b)}
=============================================================================
