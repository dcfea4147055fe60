----------------------------- MODULE ChainWalk ------------------------------
(***************************************************************************)
(* verify_chain (verify-types, chain.rs): from one AuditProof back through *)
(* its declared parents to a proof that declares none, asking the caller's *)
(* fetch callback for each parent.                                         *)
(*                                                                         *)
(* A node is what the ChainNode trait shows of an AuditProof; "sound" says *)
(* whether its verify_self() succeeds.  The callback is the environment:   *)
(* it may answer with any node at all, the wrong one included, or none.    *)
(* A ChainVerification is the sequence of the verified nodes, leaf first,  *)
(* as flatten() gives it.                                                  *)
(*                                                                         *)
(* Step 5 of verify_chain_impl, the answer from the in-walk cache, is not  *)
(* an action: the cache is empty whenever the walk gets that far, which is *)
(* theorem CacheIsNeverConsulted of Walks_proofs.                          *)
(***************************************************************************)
EXTENDS Integers, Sequences, Optional

CONSTANTS
  CapsuleIds,   \* capsule_id values
  OrgIds,       \* org_id values
  MaxDepths     \* the max_depth values verify_chain is called with

ASSUME MaxDepthsAssumption == MaxDepths \subseteq Nat
ASSUME CapsuleIdsAssumption == NoValue \notin CapsuleIds

Nodes == [capsule_id : CapsuleIds, org_id : OrgIds,
          parent : CapsuleIds \cup {NoValue}, sound : BOOLEAN]

ASSUME NodesAssumption == NoValue \notin Nodes

VARIABLES
  leaf,       \* the AuditProof the caller asks about
  maxDepth,   \* the max_depth argument
  replies,    \* history: what the callback answered, in order
  path,       \* the nodes of the open verify_chain_impl calls, the leaf first
  visited,    \* the visited set
  cache,      \* the in-walk cache: capsule_id -> verified chain
  returned,   \* what the innermost call returned; empty while it still runs
  failure     \* the ChainVerificationError, "none" while there is none

vars == <<leaf, maxDepth, replies, path, visited, cache, returned, failure>>

Init ==
  /\ leaf \in Nodes
  /\ maxDepth \in MaxDepths
  /\ replies = <<>>
  /\ path = <<leaf>>
  /\ visited = {leaf.capsule_id}
  /\ cache = <<>>
  /\ returned = <<>>
  /\ failure = "none"

-----------------------------------------------------------------------------
(* The descent, one call of verify_chain_impl.                             *)

Node == path[Len(path)]

Descending == failure = "none" /\ returned = <<>>

Fail(error) ==
  /\ failure' = error
  /\ UNCHANGED <<leaf, maxDepth, path, visited, cache, returned>>

VerifySelfFails ==
  /\ Descending
  /\ ~Node.sound
  /\ Fail("SingleVerificationFailed")
  /\ UNCHANGED replies

\* The one way a descent ends well: a node with no parent.
ReachGenesis ==
  /\ Descending
  /\ Node.sound
  /\ Node.parent = NoValue
  /\ returned' = <<Node>>
  /\ UNCHANGED <<leaf, maxDepth, replies, path, visited, cache, failure>>

HasParent == Descending /\ Node.sound /\ Node.parent # NoValue

\* Mutant: the guard counts the parent that is not fetched yet.
ShallowerByOne == Len(path) + 1 >= maxDepth

\* current_depth is the number of open calls.
AtMaxDepth == Len(path) >= maxDepth

ExceedDepth == HasParent /\ AtMaxDepth /\ Fail("DepthExceeded") /\ UNCHANGED replies

\* Mutant: only the leaf's capsule is remembered.
OnlyLeafVisited == Node.parent = leaf.capsule_id

AlreadyVisited == Node.parent \in visited

\* Mutant: the error of a revisit is swallowed.
SwallowCycle == HasParent /\ ~AtMaxDepth /\ AlreadyVisited /\ UNCHANGED vars

DetectCycle ==
  HasParent /\ ~AtMaxDepth /\ AlreadyVisited /\ Fail("CycleDetected") /\ UNCHANGED replies

\* Every check before the callback has passed, and the callback answers.
Asks(answer) ==
  /\ HasParent
  /\ ~AtMaxDepth
  /\ ~AlreadyVisited
  /\ replies' = Append(replies, answer)

ParentNotFound == Asks(NoValue) /\ Fail("ParentNotFound")

IsDeclaredParent(parent) == parent.capsule_id = Node.parent

ParentIdMismatch ==
  \E parent \in Nodes :
    Asks(parent) /\ ~IsDeclaredParent(parent) /\ Fail("ParentIdMismatch")

\* Mutant: the organisation is compared with nothing.
AnyCustomer(parent) == TRUE

SameCustomer(parent) == Node.org_id = parent.org_id

CrossCustomerLinkage ==
  \E parent \in Nodes :
    /\ Asks(parent)
    /\ IsDeclaredParent(parent)
    /\ ~SameCustomer(parent)
    /\ Fail("CrossCustomerLinkage")

\* The parent is marked as visited and the function calls itself on it.
Descend ==
  \E parent \in Nodes :
    /\ Asks(parent)
    /\ IsDeclaredParent(parent)
    /\ SameCustomer(parent)
    /\ visited' = visited \cup {Node.parent}
    /\ path' = Append(path, parent)
    /\ UNCHANGED <<leaf, maxDepth, cache, returned, failure>>

-----------------------------------------------------------------------------
(* The way back: each caller stores its parent's chain and prepends itself. *)

Caller == path[Len(path) - 1]

\* Mutant: the chain is stored under the parent's own parent.
CacheGrandparent ==
  cache' = [id \in DOMAIN cache \cup {Node.parent} |->
              IF id = Node.parent THEN returned ELSE cache[id]]

CacheParent ==
  cache' = [id \in DOMAIN cache \cup {Caller.parent} |->
              IF id = Caller.parent THEN returned ELSE cache[id]]

Return ==
  /\ returned # <<>>
  /\ Len(path) > 1
  /\ CacheParent
  /\ returned' = <<Caller>> \o returned
  /\ path' = SubSeq(path, 1, Len(path) - 1)
  /\ UNCHANGED <<leaf, maxDepth, replies, visited, failure>>

Accepted == returned # <<>> /\ Len(path) = 1
Rejected == failure # "none"

Walk ==
  \/ VerifySelfFails \/ ReachGenesis \/ ExceedDepth \/ DetectCycle
  \/ ParentNotFound \/ ParentIdMismatch \/ CrossCustomerLinkage
  \/ Descend \/ Return

\* The caller has its answer.
Answered == (Accepted \/ Rejected) /\ UNCHANGED vars

Next == Walk \/ Answered

\* The function runs to its end, and the callback always comes back.
Spec == Init /\ [][Next]_vars /\ WF_vars(Walk)

-----------------------------------------------------------------------------
(* Properties.                                                             *)

\* The leaf and everything the callback answered, in order.
Walked == <<leaf>> \o replies

\* A chain of sound proofs of one customer, each the declared parent of the
\* one before it, that repeats no capsule and ends at a genesis.
FaultFree(chain) ==
  /\ \A i \in DOMAIN chain : chain[i] \in Nodes
  /\ \A i \in DOMAIN chain : chain[i].sound
  /\ \A i \in DOMAIN chain : chain[i].org_id = chain[1].org_id
  /\ \A i \in 2 .. Len(chain) : chain[i].capsule_id = chain[i - 1].parent
  /\ \A i, j \in DOMAIN chain : chain[i].capsule_id = chain[j].capsule_id => i = j

EndsAtGenesis(chain) == chain[Len(chain)].parent = NoValue

\* Depth 0 still admits the leaf itself.
WithinDepth(chain) == Len(chain) <= maxDepth \/ Len(chain) = 1

\* One verdict per walk; what is visited is what is open, plus what returned.
TypeOK ==
  /\ path # <<>>
  /\ Len(path) <= Len(Walked)
  /\ visited \subseteq CapsuleIds
  /\ DOMAIN cache \subseteq visited
  /\ failure \in {"none", "SingleVerificationFailed", "DepthExceeded", "CycleDetected",
                  "ParentNotFound", "ParentIdMismatch", "CrossCustomerLinkage"}
  /\ Rejected => returned = <<>>

\* chain.rs, 278-294: what verify_chain returns is the whole chain as the
\* callback gave it, leaf first, and that chain is one customer's, sound,
\* without repetition, within max_depth and down to a genesis.
AcceptedChainIsWhole ==
  Accepted =>
    /\ returned = Walked
    /\ FaultFree(Walked)
    /\ EndsAtGenesis(Walked)
    /\ WithinDepth(Walked)

\* A walk that is refused although nothing in it is wrong has read max_depth
\* proofs, or is sent back to one it has read: a chain of exactly max_depth
\* proofs is accepted.
RefusedOnlyForCause ==
  Rejected /\ FaultFree(Walked) =>
    /\ ~EndsAtGenesis(Walked)
    /\ \/ Len(Walked) >= maxDepth
       \/ \E i \in DOMAIN Walked : Walked[i].capsule_id = Walked[Len(Walked)].parent

\* The callback is asked for no capsule it was asked for before, nor for the
\* leaf, and never on behalf of a proof that is not sound or not the leaf's
\* customer's.
AsksOncePerCapsule ==
  \A k \in DOMAIN replies :
    /\ Walked[k].sound
    /\ Walked[k].org_id = leaf.org_id
    /\ \A j \in 1 .. k : Walked[j].capsule_id # Walked[k].parent

\* Whatever the callback answers, also one that never stops answering with
\* a further parent, the walk ends (chain.rs, 18-20).
WalkEnds == <>(Accepted \/ Rejected)
=============================================================================
