----------------------------- MODULE LightClient -----------------------------
(***************************************************************************)
(* The light client (protocol/light_client/*.js, checkpoint.js,            *)
(* consensus/stake_weighted_quorum.js): a caller asks an explorer, which   *)
(* it does not trust, for a balance, a locked balance, an action or an     *)
(* anchored checkpoint, and gets an answer that validators signed for.     *)
(*                                                                         *)
(* A chain is a sequence of heights with one true state each.  One set of  *)
(* validators signs for all chains, at blocks of BTC: honest validators    *)
(* sign the checkpoint of the true state; the faulty ones sign anything.   *)
(* The explorer serves any checkpoint, with any proof that can be walked   *)
(* out of the hashes it knows (MerkleProofs).  The caller asks about BTC.  *)
(* A checkpoint is                                                         *)
(*    chain, height, seq   what it is about (chain: with its network)      *)
(*    snapshot  the block of BTC whose validators sign it                  *)
(*    state     the state whose roots it carries, Undefined if rootless    *)
(*    super     the height it supersedes from, or Undefined                *)
(*    fold      the archive batch folded into it, or Undefined             *)
(***************************************************************************)
EXTENDS MerkleProofs, FiniteSetsExt

CONSTANTS
    Gates,        \* activation height of every consensus gate, or Undefined
    ReorgBuffer,  \* CANONICAL_REORG_BUFFER
    SourceOf,     \* validator -> the address whose stake it signs for
    WeightOf,     \* address -> its stake
    Faulty,       \* validators that sign whatever they are asked to
    States,       \* name -> chain, balances, locked balances, members, block rows
    TrueState,    \* chain, height -> the name of the state the chain is really in
    Checkpoints,  \* checkpoints the explorer may serve
    Pinned,       \* the checkpoint shipped with the SDK
    Asked,        \* addresses a caller may ask about
    AskedHeights, \* lower bounds a caller may set, or Undefined
    Claimable,    \* amounts a proof may claim
    Anchors,      \* anchor rows the explorer may serve
    MinDepth,     \* DEFAULT_ANCHOR_MIN_DEPTH
    CacheMax      \* VALIDATOR_SET_CACHE_MAX

VARIABLES
    trusted,   \* the checkpoint followForward has reached
    cache,     \* validatorSetCache: the set an explorer named for a height, oldest first
    result     \* what the last call returned

lightVars == <<trusted, cache, result>>

\* GateRegistry.activeAt, resolveThreshold, reached: an unpinned gate is off.
ActiveAt(gate, clock) == Gates[gate] # Undefined /\ clock >= Gates[gate]

-----------------------------------------------------------------------------
(* Roots and signatures. *)

BalanceEntries(s) ==
    LET chain == States[s].chain
        held == DOMAIN States[s].balances
        locked == DOMAIN States[s].locked
        keyed == [k \in {BalanceKey(chain, a) : a \in held} |->
                     AmountLeaf(States[s].balances[CHOOSE a \in held : BalanceKey(chain, a) = k])]
        escrowed == [k \in {EscrowKey(chain, a) : a \in locked} |->
                     AmountLeaf(States[s].locked[CHOOSE a \in locked : EscrowKey(chain, a) = k])]
    IN  [k \in DOMAIN keyed \cup DOMAIN escrowed |->
            IF k \in DOMAIN keyed THEN keyed[k] ELSE escrowed[k]]

\* A source counts once, whatever number of keys signs for it.
StakeOf(members) ==
    LET W(src) == WeightOf[src] IN MapThenSumSet(W, {SourceOf[v] : v \in members})

\* Only BTC commits its stakes.
StakeEntries(s) ==
    LET members == States[s].members
        keys == {StakeKey(v) : v \in members} \cup {StakeTotalKey}
    IN  [k \in IF States[s].chain = "BTC" THEN keys ELSE {} |->
            IF k = StakeTotalKey THEN StakeTotalLeaf(StakeOf(members))
            ELSE LET v == CHOOSE v \in members : StakeKey(v) = k
                 IN  StakeMemberLeaf(SourceOf[v], WeightOf[SourceOf[v]])]

SubRoots == [s \in DOMAIN States |-> [balances |-> SmtRoot(BalanceEntries(s)),
                                      stakes |-> SmtRoot(StakeEntries(s))]]

StateRootOf == [s \in DOMAIN States |-> StateRoot(SubRoots[s])]

BlockRootOf == [s \in DOMAIN States |-> FixedMerkleRoot(BlockMerkleLeaves(States[s].rows))]

\* isCheckpointCommitmentActive: from here on the roots are among the signed
\* fields.
CommitmentActive(cp) == ActiveAt("commitment", cp.snapshot)

CommitmentMissing(cp) == CommitmentActive(cp) /\ cp.state = Undefined

SupersessionDisallowed(cp) == cp.super # Undefined /\ ~ActiveAt("supersede", cp.snapshot)

\* canonicalCheckpoint, supersedeSuffix, buildEquivCanonical: the fields that
\* are signed.  The state stands for its two roots.
CanonicalCheckpoint(cp) ==
    [cp EXCEPT !.state = IF CommitmentActive(cp) THEN cp.state ELSE Undefined,
               !.super = IF ActiveAt("supersede", cp.snapshot) THEN cp.super ELSE Undefined]

\* A checkpoint that is really the chain's; the hub signs no other.
IsTrue(cp) ==
    cp.state \in {Undefined, TrueState[cp.chain][cp.height]} /\ cp.super = Undefined

\* verifySignature over the canonical string of cp.
VerifySignature(cp, v) ==
    \/ v \in Faulty
    \/ \E true \in Checkpoints : IsTrue(true) /\ CanonicalCheckpoint(true) = CanonicalCheckpoint(cp)

-----------------------------------------------------------------------------
(* Quorums. *)

\* verifyCheckpoint: the count that is needed of n validators.
Quorum(n) ==
    IF n <= 1 THEN 1
    ELSE LET third == 2 * ((n - 1) \div 3) + 1
             half == (n + 2) \div 2
         IN  IF third > half THEN third ELSE half

\* meetsStakeThreshold: more than two thirds of the stake of the set.
MeetsStakeThreshold(members, signers) ==
    /\ StakeOf(members) > 0
    /\ 3 * StakeOf(signers \cap members) > 2 * StakeOf(members)

Signers(cp, members) == {v \in members : VerifySignature(cp, v)}

\* verifyCheckpoint.
VerifyCheckpoint(cp, members) ==
    /\ ~CommitmentMissing(cp) /\ ~SupersessionDisallowed(cp)
    /\ IF ActiveAt("weighted", cp.snapshot)
       THEN MeetsStakeThreshold(members, Signers(cp, members))
       ELSE members # {} /\ Cardinality(Signers(cp, members)) >= Quorum(Cardinality(members))

-----------------------------------------------------------------------------
(* What the properties rest on. *)

\* The validators in force at a block of BTC.
MembersAt(block) == States[TrueState["BTC"][block]].members

IsCheckpoint(cp) ==
    cp = [chain |-> cp.chain, height |-> cp.height, seq |-> cp.seq, snapshot |-> cp.snapshot,
          state |-> cp.state, super |-> cp.super, fold |-> cp.fold]

\* Every checkpoint an explorer may show, and the one shipped with the SDK.
Presented == Checkpoints \cup {Pinned} \cup {a.cp : a \in Anchors}

\* Checkpoints are about heights their chain has; the one shipped with the SDK
\* is BTC's own and has its roots.
ASSUME CheckpointsAssumption ==
    /\ \A c \in DOMAIN TrueState : \A h \in DOMAIN TrueState[c] :
          TrueState[c][h] \in DOMAIN States /\ States[TrueState[c][h]].chain = c
    /\ \A cp \in Presented :
          /\ IsCheckpoint(cp) /\ cp.seq \in Nat
          /\ cp.chain \in DOMAIN TrueState /\ cp.height \in DOMAIN TrueState[cp.chain]
          /\ cp.snapshot \in DOMAIN TrueState["BTC"]
          /\ cp.state \in DOMAIN States \cup {Undefined}
    /\ Pinned.chain = "BTC" /\ IsTrue(Pinned) /\ Pinned.state # Undefined
    /\ IsFiniteSet(Anchors)

\* No two keys of a tree collide, and a hash is not Undefined.
ASSUME KeysAssumption ==
    /\ StakeTotalKey \in Bits(Depth)
    /\ \A v \in DOMAIN SourceOf : /\ StakeKey(v) \in Bits(Depth) \ {StakeTotalKey}
                                 /\ Undefined # StakeMemberLeaf(SourceOf[v], WeightOf[SourceOf[v]])
    /\ \A v, w \in DOMAIN SourceOf : StakeKey(v) = StakeKey(w) => v = w
    /\ LET addresses == Asked \cup UNION {DOMAIN States[s].balances \cup DOMAIN States[s].locked :
                                             s \in DOMAIN States}
       IN  \A a, b \in addresses : \A c \in DOMAIN TrueState :
              /\ BalanceKey(c, a) \in Bits(Depth) /\ EscrowKey(c, a) \in Bits(Depth)
              /\ BalanceKey(c, a) # EscrowKey(c, b)
              /\ a # b => BalanceKey(c, a) # BalanceKey(c, b) /\ EscrowKey(c, a) # EscrowKey(c, b)

\* The faulty validators hold at most two thirds of the stake in force; where
\* votes are still counted, they are fewer than a quorum.
ASSUME FaultyAssumption ==
    /\ IsFiniteSet(DOMAIN SourceOf) /\ \A v \in DOMAIN SourceOf : WeightOf[SourceOf[v]] \in Nat
    /\ \A s \in DOMAIN States : States[s].members \subseteq DOMAIN SourceOf
    /\ \A h \in DOMAIN TrueState["BTC"] :
          3 * StakeOf(MembersAt(h) \cap Faulty) <= 2 * StakeOf(MembersAt(h))
    /\ \A cp \in Presented : \A h \in {cp.snapshot, Pinned.height} :
          \/ ActiveAt("weighted", cp.snapshot)
          \/ Cardinality(MembersAt(h) \cap Faulty) < Quorum(Cardinality(MembersAt(h)))

\* The rows of a block are sequences.
ASSUME RowsAssumption ==
    \A s \in DOMAIN States : \A kind \in {"ledger", "actions", "contracts"} :
        States[s].rows[kind] \in Seq(Range(States[s].rows[kind]))

-----------------------------------------------------------------------------
\* buriedSnapshotBlock.
BuriedSnapshotBlock(b) ==
    IF ~ActiveAt("burial", b) THEN b
    ELSE IF b > ReorgBuffer THEN b - ReorgBuffer ELSE 0

-----------------------------------------------------------------------------
(* The proofs an explorer can put together from the tree of state s. *)

\* A path of 3 or 4 steps from the state root, the true one being of 3, then the
\* path of the key.
SubRootPaths == UNION {Bits(n) : n \in 3..4}

LowFirst(bits) == Number(Reverse(bits))

ProofsOf ==
    [s \in DOMAIN States |-> [key \in Bits(Depth) |->
        {[subRoot |-> Walk(StateRootOf[s], b), index |-> LowFirst(b),
          siblings |-> Reverse(WalkSiblings(StateRootOf[s], b)),
          leaf |-> l, amount |-> amt,
          compressed |-> CompressSmtProof(WalkSiblings(Walk(StateRootOf[s], b), key))] :
            b \in {b \in SubRootPaths : CanWalk(StateRootOf[s], b \o key)},
            l \in {Undefined} \cup {AmountLeaf(x) : x \in Claimable}, amt \in Claimable}]]

\* The sub-root sits in its own slot under the trusted state root.
SubRootBound(p, name, root) ==
    /\ p.index = SlotOf(name)
    /\ VerifyFixedMerkleProof(root, p.subRoot, p)

\* verifyBalanceProof and verifyLockedBalanceProof, whose key is the caller's.
VerifyAmountProof(p, key, root) ==
    /\ SubRootBound(p, "balances", root)
    /\ IF p.leaf = Undefined THEN p.amount = 0 ELSE p.leaf = AmountLeaf(p.amount)
    /\ VerifyCompressedSmtProof(p.subRoot, key, p.leaf, p.compressed)

\* verifyActionProof.
VerifyActionProof(row, p, root) == VerifyFixedMerkleProof(root, ActionsLeaf(row), p)

\* The proofs of a state's stakes tree.
StakeProofs ==
    [s \in DOMAIN States |-> [key \in Bits(Depth) |-> Prove(StakeEntries(s), key)]]

\* Mutant: the committed total is not compared with the members' stake.
VerifyValidatorSetTotalless(s, claim) ==
    /\ claim.slot = SlotOf("stakes")
    /\ \A m \in claim.members :
          LET p == StakeProofs[s][StakeKey(m.v)]
          IN  /\ p.leaf = StakeMemberLeaf(SourceOf[m.v], m.weight)
              /\ VerifyCompressedSmtProof(SubRoots[s].stakes, StakeKey(m.v), p.leaf, p.compressed)

\* verifyValidatorSetProof against the state root of s, and the check of
\* verifyCheckpointWithProvenSet that nobody was left out: the members' stake
\* is the committed total, proved by a leaf of its own.
VerifyValidatorSet(s, claim) ==
    /\ claim.slot = SlotOf("stakes")
    /\ \A m \in claim.members :
          LET p == StakeProofs[s][StakeKey(m.v)]
          IN  /\ p.leaf = StakeMemberLeaf(SourceOf[m.v], m.weight)
              /\ VerifyCompressedSmtProof(SubRoots[s].stakes, StakeKey(m.v), p.leaf, p.compressed)
    /\ LET p == StakeProofs[s][StakeTotalKey]
       IN  /\ claim.total # Undefined /\ p.leaf = StakeTotalLeaf(claim.total)
           /\ VerifyCompressedSmtProof(SubRoots[s].stakes, StakeTotalKey, p.leaf, p.compressed)
           /\ StakeOf({m.v : m \in claim.members}) = claim.total

\* What an explorer may claim about the validators of a state.
SetClaims(s) ==
    [members : SUBSET {[v |-> v, weight |-> WeightOf[SourceOf[v]]] : v \in DOMAIN SourceOf},
     slot : {SlotOf("balances"), SlotOf("stakes")},
     total : {Undefined} \cup {StakeOf(m) : m \in SUBSET DOMAIN SourceOf}]

-----------------------------------------------------------------------------
(* The calls. *)

\* The answer of a call, with the checkpoint it rests on.
Verified(kind, trust, cp, about, claim) ==
    [kind |-> kind, verified |-> TRUE, trust |-> trust, checkpoint |-> cp, about |-> about,
     claim |-> claim]

Refused(kind) == [kind |-> kind, verified |-> FALSE, trust |-> Undefined,
                  checkpoint |-> Undefined, about |-> Undefined, claim |-> Undefined]

\* A step of followForward: the next served checkpoint above the trusted one,
\* on the same chain, with signed roots and a quorum of the validators proved
\* from the trusted state root.
FollowForward(next, claim) ==
    /\ next.height > trusted.height
    /\ next.chain = trusted.chain
    /\ CommitmentActive(next) /\ ActiveAt("weighted", next.snapshot)
    /\ BuriedSnapshotBlock(next.snapshot) >= 0
    /\ ~CommitmentMissing(next) /\ ~SupersessionDisallowed(next)
    /\ VerifyValidatorSet(trusted.state, claim)
    /\ LET members == {m.v : m \in claim.members}
       IN  MeetsStakeThreshold(members, Signers(next, members))
    /\ trusted' = next
    /\ UNCHANGED <<cache, result>>

\* explorerValidators: the set the explorer named first for this height is
\* kept, the oldest entry making room.
Cached(height) == {e \in Range(cache) : e.height = height}

ExplorerValidators(height, named) ==
    IF Cached(height) = {} THEN named ELSE (CHOOSE e \in Cached(height) : TRUE).members

Remember(height, named) ==
    cache' = IF Cached(height) # {} THEN cache
             ELSE Append(IF Len(cache) >= CacheMax THEN Tail(cache) ELSE cache,
                         [height |-> height, members |-> named])

\* resolveQuorum and resolveBalanceCheckpoint.  Neither compares the chain of the
\* checkpoint with the one that is asked about.
QuorumOf(trust, cp, named) ==
    CASE trust = "checkpoint" -> cp = trusted
      [] trust = "validators" -> VerifyCheckpoint(cp, MembersAt(cp.snapshot))
      [] trust = "pinned" ->
            \/ VerifyCheckpoint(cp, States[Pinned.state].members)
            \/ /\ cp.chain = "BTC" /\ cp.height > Pinned.height
               /\ CanonicalCheckpoint(cp) = CanonicalCheckpoint(trusted)
               /\ cp.state = trusted.state
      [] trust = "explorer" -> VerifyCheckpoint(cp, ExplorerValidators(cp.height, named))

\* The validator sets an explorer may name.
NamedSets == {DOMAIN SourceOf, Faulty}

Trusts == {"checkpoint", "validators", "pinned", "explorer"}

\* Mutant: the key of the proof is the one the explorer echoes.
QueriedKeyEchoed(kind, chain, asked, echoed) ==
    IF kind = "locked" THEN EscrowKey(chain, echoed) ELSE BalanceKey(chain, echoed)

\* The key the caller's own address stands for, on the checkpoint's chain.
QueriedKey(kind, chain, asked, echoed) ==
    IF kind = "locked" THEN EscrowKey(chain, asked) ELSE BalanceKey(chain, asked)

\* verifyBalance and verifyLockedBalance, the quorum apart; a locked balance is
\* committed from the escrow gate on.  The checkpoint must have a root; that the
\* root is among its signed fields is not asked.  A proof labelled with another
\* chain or height than the checkpoint's is refused, so none is served.
VerifyAmount(kind, cp, asked, least, echoed, p) ==
    /\ least # Undefined => cp.height >= least
    /\ cp.state # Undefined
    /\ kind = "locked" => ActiveAt("escrow", cp.height)
    /\ VerifyAmountProof(p, QueriedKey(kind, cp.chain, asked, echoed), StateRootOf[cp.state])

\* verifyAction, the quorum apart: row is what the explorer says the action at
\* index is.
VerifyAction(cp, index, row, p) ==
    /\ cp.state # Undefined
    /\ row.index = index
    /\ VerifyActionProof(row, p, BlockRootOf[cp.state])

\* A call that is answered with checkpoint cp and a proof of one of claims, or
\* with a proof that fails.
Ask(kind, cp, about, claims) ==
    \E trust \in Trusts, named \in NamedSets :
        /\ \/ result' = Refused(kind)
           \/ /\ QuorumOf(trust, cp, named)
              /\ \E claim \in claims : result' = Verified(kind, trust, cp, about, claim)
        /\ IF trust = "explorer" THEN Remember(cp.height, named) ELSE named = Faulty /\ UNCHANGED cache
        /\ UNCHANGED trusted

\* verifyAnchoredCheckpoint.
VerifyAnchoredCheckpoint(cp, members, depth) ==
    /\ cp.state # Undefined
    /\ CommitmentActive(cp)
    /\ VerifyCheckpoint(cp, members)
    /\ depth >= MinDepth

\* isCheckpointSectionRow: a folded row counts from its gate on.
IsCheckpointSectionRow(row, height) == row.version = 3 => ActiveAt("fold", height)

AnchoredCheckpointRows(rows) ==
    {a \in rows : /\ a.cp.chain = "BTC" /\ a.cp.state # Undefined
                  /\ IsCheckpointSectionRow(a, a.claimedHeight)}

\* anchorToCheckpoint, attachFoldArchiveFromExplorer: the archive of a folded row
\* is attached when one archive section bears the same signatures.
AnchorToCheckpoint(rec) == [rec.cp EXCEPT !.fold = IF rec.version = 3 THEN rec.archive ELSE @]

\* resolveValidatorSet.
ResolveValidatorSet(trust, cp, named) ==
    CASE trust = "pinned" -> States[Pinned.state].members
      [] trust = "validators" -> MembersAt(cp.snapshot)
      [] trust = "explorer" -> ExplorerValidators(cp.height, named)

\* fetchAnchoredCheckpoint: the newest section row of the chain, unless it is
\* superseded or its depth is the explorer's word only and the caller wanted
\* better.  A height the caller knows judges the row once more.
FetchAnchoredCheckpoint(rows, opts, named) ==
    LET sections == AnchoredCheckpointRows(rows)
        rec == CHOOSE a \in sections : \A b \in sections : b.cp.seq <= a.cp.seq
        height == IF opts.callerHeight THEN rec.realHeight ELSE rec.claimedHeight
        cp == AnchorToCheckpoint(rec)
        asks == /\ rec.supersededBy = Undefined \/ opts.allowSuperseded
                /\ opts.requireTrustedDepth => opts.callerHeight
                /\ IsCheckpointSectionRow(rec, height)
        ok == /\ sections # {} /\ asks
              /\ VerifyAnchoredCheckpoint(cp, ResolveValidatorSet(opts.trust, cp, named),
                                          opts.tip - height + 1)
    IN  /\ result' = IF ok THEN Verified("anchor", opts.trust, cp, [row |-> rec, opts |-> opts],
                                         cp.state)
                     ELSE Refused("anchor")
        /\ IF sections # {} /\ asks /\ opts.trust = "explorer"
           THEN Remember(cp.height, named) ELSE UNCHANGED cache
        /\ UNCHANGED trusted

AnchorOptions ==
    [trust : {"pinned", "validators", "explorer"}, callerHeight : BOOLEAN,
     requireTrustedDepth : BOOLEAN, allowSuperseded : BOOLEAN, tip : {4}]

\* One row is looked at, the newest: of three and more, two tell the same.
AnchorSets == {rows \in SUBSET Anchors : Cardinality(rows) <= 2}

LightInit ==
    /\ trusted = Pinned
    /\ cache = <<>>
    /\ result = Refused("none")

\* The caller has taken the answer.
TakeResult ==
    /\ result.kind # "none"
    /\ result' = Refused("none")
    /\ UNCHANGED <<trusted, cache>>

\* The state whose trees the explorer proves from: no other hashes to the roots
\* of the checkpoint.
ServedState(cp) == IF cp.state = Undefined THEN Pinned.state ELSE cp.state

AskAmount ==
    \E kind \in {"balance", "locked"}, cp \in Checkpoints, asked \in Asked, least \in AskedHeights :
        LET Proofs(echoed) ==
                {p \in ProofsOf[ServedState(cp)][QueriedKey(kind, cp.chain, echoed, echoed)] :
                    VerifyAmount(kind, cp, asked, least, echoed, p)}
        IN  Ask(kind, cp, [address |-> asked, least |-> least],
                UNION {{p.amount : p \in Proofs(echoed)} : echoed \in Asked})

AskAction ==
    \E cp \in Checkpoints, index \in {1, 2} :
        LET rows == States[ServedState(cp)].rows
            leaves == BlockMerkleLeaves(rows)
            Proven(act) == \E i \in 1..Len(rows.actions), at \in 1..Len(leaves) :
                              VerifyAction(cp, index, [rows.actions[i] EXCEPT !.action = act],
                                           FixedMerkleProof(leaves, at - 1))
        IN  Ask("action", cp, index, {act \in {"SEND", "MINT"} : Proven(act)})

LightNext ==
    \/ /\ result.kind = "none"
       /\ \E next \in Checkpoints, claim \in SetClaims(trusted.state) : FollowForward(next, claim)
    \/ result.kind = "none" /\ AskAmount
    \/ result.kind = "none" /\ AskAction
    \/ /\ result.kind = "none"
       /\ \E rows \in AnchorSets, opts \in AnchorOptions, named \in NamedSets :
             /\ opts.trust # "explorer" => named = Faulty
             /\ FetchAnchoredCheckpoint(rows, opts, named)
    \/ TakeResult

LightSpec == LightInit /\ [][LightNext]_lightVars

-----------------------------------------------------------------------------
TrueAmount(kind, cp, address) ==
    LET s == States[TrueState[cp.chain][cp.height]]
        held == IF kind = "locked" THEN s.locked ELSE s.balances
    IN  IF address \in DOMAIN held THEN held[address] ELSE 0

\* The roots of the checkpoint that comes with the answer were signed for, or
\* the caller had vouched for them.
RootsVouched == CommitmentActive(result.checkpoint) \/ result.trust = "checkpoint"

\* What the client calls verified is true, whatever the explorer served, unless
\* the caller left it to the explorer to name the validators: a balance, locked
\* balance or action is, where the checkpoint's roots are vouched for, the one of
\* the chain and the height the checkpoint names, and no older than the caller
\* asked for (online_verify.js, proof_checks.js); an anchored checkpoint carries
\* the roots of the chain asked for, is buried in truth if the caller asked for
\* depths it can vouch for, and not superseded unless the caller would have it so
\* (anchored_checkpoint.js).
VerifiedIsTrue ==
    (result.verified /\ result.trust # "explorer") =>
        LET cp == result.checkpoint
        IN  CASE result.kind \in {"balance", "locked"} ->
                    /\ RootsVouched => result.claim = TrueAmount(result.kind, cp, result.about.address)
                    /\ result.about.least # Undefined => cp.height >= result.about.least
              [] result.kind = "action" ->
                    RootsVouched =>
                        \E row \in Range(States[TrueState[cp.chain][cp.height]].rows.actions) :
                            row.index = result.about /\ row.action = result.claim
              [] result.kind = "anchor" ->
                    /\ cp.chain = "BTC" /\ result.claim = TrueState["BTC"][cp.height]
                    /\ result.about.opts.requireTrustedDepth =>
                          result.about.opts.tip - result.about.row.realHeight + 1 >= MinDepth
                    /\ result.about.row.supersededBy # Undefined => result.about.opts.allowSuperseded

\* Following the chain of validator sets from the pinned checkpoint never
\* leaves the true chain (validator_set_follow.js, followForward).
FollowedIsTrue == trusted.chain = "BTC" /\ IsTrue(trusted) /\ trusted.state # Undefined
=============================================================================
