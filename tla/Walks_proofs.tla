---------------------------- MODULE Walks_proofs ----------------------------
(***************************************************************************)
(* Proofs about the walks that keep something on the way: ChainWalk, for   *)
(* every set of capsules and customers, every max_depth and every          *)
(* behaviour of the callback; the run over a directory of CommandLine, for *)
(* every tree of files and every change of it while it is read; and the    *)
(* walk of EgressStreams over the trail of any number of streams.          *)
(***************************************************************************)
EXTENDS ChainWalk, CommandLine, EgressStreams, Common_proofs, TLAPS

-----------------------------------------------------------------------------
(***************************************************************************)
(* The parent chain.                                                       *)
(***************************************************************************)

Replies == Nodes \cup {NoValue}

\* Whatever a state holds, it holds sequences of nodes.
Typed ==
  /\ leaf \in Nodes
  /\ maxDepth \in Nat
  /\ replies \in Seq(Replies)
  /\ path \in Seq(Nodes)
  /\ path # <<>>
  /\ returned \in Seq(Nodes)
  /\ visited \subseteq CapsuleIds
  /\ failure \in {"none", "SingleVerificationFailed", "DepthExceeded", "CycleDetected",
                  "ParentNotFound", "ParentIdMismatch", "CrossCustomerLinkage"}

\* The open calls are a beginning of the walk, all of it on the way down.
PathIsWalked ==
  /\ Len(path) <= Len(Walked)
  /\ \A i \in 1 .. Len(path) : path[i] = Walked[i]
  /\ Descending => Len(path) = Len(Walked)

\* Every proof a parent was asked for passed the checks before the callback.
AskersChecked ==
  \A k \in 1 .. Len(replies) :
    /\ Walked[k] \in Nodes
    /\ Walked[k].sound
    /\ Walked[k].org_id = leaf.org_id
    /\ \A j \in 1 .. k : Walked[j].capsule_id # Walked[k].parent

\* Every answer walked into is the parent that was asked for.
AnswersLinked ==
  ~Rejected =>
    \A k \in 1 .. Len(replies) :
      /\ replies[k] \in Nodes
      /\ replies[k].capsule_id = Walked[k].parent
      /\ replies[k].org_id = leaf.org_id

VisitedIsWalked ==
  ~Rejected => /\ \A i \in 1 .. Len(Walked) : Walked[i].capsule_id \in visited
               /\ \A id \in visited :
                    \E i \in 1 .. Len(Walked) : Walked[i].capsule_id = id

DepthKept == Len(replies) = 0 \/ Len(replies) + 1 <= maxDepth

\* On the way back, what was returned is the rest of the walk, to its genesis.
ReturnedIsWalked ==
  returned # <<>> =>
    /\ failure = "none"
    /\ Len(path) + Len(returned) = Len(Walked) + 1
    /\ \A i \in 1 .. Len(returned) : returned[i] = Walked[Len(path) + i - 1]
    /\ Walked[Len(Walked)].sound
    /\ EndsAtGenesis(Walked)

CacheFilledOnReturn ==
  /\ returned = <<>> => DOMAIN cache = {}
  /\ DOMAIN cache \subseteq visited

IInv ==
  /\ Typed
  /\ PathIsWalked
  /\ AskersChecked
  /\ AnswersLinked
  /\ VisitedIsWalked
  /\ DepthKept
  /\ ReturnedIsWalked
  /\ CacheFilledOnReturn
  /\ RefusedOnlyForCause

-----------------------------------------------------------------------------
(* What Walked is made of.                                                 *)

\* The leaf comes first, the replies follow.
LEMMA WalkedShape ==
  ASSUME leaf \in Nodes, replies \in Seq(Replies)
  PROVE  /\ Walked \in Seq(Replies)
         /\ Len(Walked) = Len(replies) + 1
         /\ Walked[1] = leaf
         /\ \A k \in 1 .. Len(replies) : Walked[k + 1] = replies[k]
<1>1. leaf \in Replies BY DEF Replies
<1> QED BY <1>1 DEF Walked

\* One more reply is one more proof walked.
LEMMA WalkedGrows ==
  ASSUME leaf \in Nodes, replies \in Seq(Replies), leaf' = leaf,
         NEW answer \in Replies, replies' = Append(replies, answer)
  PROVE  /\ Walked' \in Seq(Replies)
         /\ Len(Walked') = Len(Walked) + 1
         /\ Len(replies') = Len(replies) + 1
         /\ Walked'[Len(Walked) + 1] = answer
         /\ \A i \in 1 .. Len(Walked) : Walked'[i] = Walked[i]
         /\ \A k \in 1 .. Len(replies) : replies'[k] = replies[k]
         /\ replies'[Len(replies) + 1] = answer
<1>1. leaf \in Replies BY DEF Replies
<1>2. replies' \in Seq(Replies) OBVIOUS
<1> QED BY <1>1, <1>2 DEF Walked

\* Nothing asked, nothing more walked.
LEMMA WalkedStays ==
  ASSUME leaf' = leaf, replies' = replies
  PROVE  Walked' = Walked
BY DEF Walked

-----------------------------------------------------------------------------

LEMMA InitIInv == Init => IInv
<1> SUFFICES ASSUME Init PROVE IInv
  OBVIOUS
<1>1. leaf \in Nodes /\ replies = <<>> /\ replies \in Seq(Replies)
  BY DEF Init
<1>2. Len(Walked) = 1 /\ Walked[1] = leaf /\ Len(replies) = 0
  BY <1>1, WalkedShape
<1>3. Typed
  BY <1>1, MaxDepthsAssumption DEF Init, Typed, Nodes
<1>4. PathIsWalked
  BY <1>1, <1>2 DEF Init, PathIsWalked
<1>5. AskersChecked /\ AnswersLinked /\ DepthKept
  BY <1>2 DEF AskersChecked, AnswersLinked, DepthKept
<1>6. VisitedIsWalked
  BY <1>2 DEF Init, VisitedIsWalked
<1>7. ReturnedIsWalked /\ RefusedOnlyForCause
  BY DEF Init, ReturnedIsWalked, RefusedOnlyForCause, Rejected
<1>8. CacheFilledOnReturn
  BY DEF Init, CacheFilledOnReturn
<1> QED
  BY <1>3, <1>4, <1>5, <1>6, <1>7, <1>8 DEF IInv

-----------------------------------------------------------------------------
(* The steps down.                                                         *)

\* The innermost open call is on the last proof walked.
LEMMA NodeIsLastWalked ==
  ASSUME IInv, Descending
  PROVE  /\ Len(path) = Len(Walked)
         /\ Node = Walked[Len(Walked)]
         /\ Node \in Nodes
         /\ Node.org_id = leaf.org_id
         /\ \A i \in 1 .. Len(Walked) : Walked[i].org_id = leaf.org_id /\ Walked[i] \in Nodes
<1>1. Len(path) = Len(Walked) /\ Len(path) \in Nat /\ Len(path) >= 1
  BY DEF IInv, Typed, PathIsWalked
<1>2. Node = Walked[Len(Walked)] /\ Node \in Nodes
  BY <1>1 DEF IInv, Typed, PathIsWalked, Node
<1>3. /\ Len(Walked) = Len(replies) + 1
      /\ Walked[1] = leaf
      /\ \A k \in 1 .. Len(replies) : Walked[k + 1] = replies[k]
      /\ Len(replies) \in Nat
  BY WalkedShape DEF IInv, Typed
<1>4. ASSUME NEW i \in 1 .. Len(Walked)
      PROVE  Walked[i].org_id = leaf.org_id /\ Walked[i] \in Nodes
  <2>1. CASE i = 1
    BY <1>3, <2>1 DEF IInv, Typed
  <2>2. CASE i # 1
    <3>1. i - 1 \in 1 .. Len(replies) /\ Walked[i] = replies[i - 1]
      BY <1>3, <2>2
    <3> QED
      BY <3>1 DEF IInv, AnswersLinked, Descending, Rejected
  <2> QED
    BY <2>1, <2>2
<1> QED
  BY <1>1, <1>2, <1>3, <1>4

\* What a call of the callback leaves true whatever it answers.
LEMMA AskKeepsHistory ==
  ASSUME IInv, NEW answer \in Replies, Asks(answer), UNCHANGED <<leaf, maxDepth>>
  PROVE  /\ AskersChecked'
         /\ DepthKept'
         /\ replies' \in Seq(Replies)
<1>1. Descending /\ Node.sound /\ ~AtMaxDepth /\ ~AlreadyVisited
  BY DEF Asks, HasParent
<1>2. /\ leaf \in Nodes /\ replies \in Seq(Replies) /\ leaf' = leaf
      /\ replies' = Append(replies, answer)
  BY DEF IInv, Typed, Asks
<1>3. /\ Len(Walked') = Len(Walked) + 1
      /\ Len(replies') = Len(replies) + 1
      /\ \A i \in 1 .. Len(Walked) : Walked'[i] = Walked[i]
      /\ Len(Walked) = Len(replies) + 1
      /\ Len(replies) \in Nat
  BY <1>2, WalkedGrows, WalkedShape
<1>4. AskersChecked'
  <2> SUFFICES ASSUME NEW k \in 1 .. Len(replies')
               PROVE  /\ Walked'[k] \in Nodes
                      /\ Walked'[k].sound
                      /\ Walked'[k].org_id = leaf.org_id
                      /\ \A j \in 1 .. k : Walked'[j].capsule_id # Walked'[k].parent
    BY <1>2 DEF AskersChecked
  <2>1. Walked'[k] = Walked[k] /\ \A j \in 1 .. k : Walked'[j] = Walked[j]
    BY <1>3
  <2>2. CASE k <= Len(replies)
    BY <2>1, <2>2, <1>3 DEF IInv, AskersChecked
  <2>3. CASE k = Len(replies) + 1
    <3>1. Walked[k] = Node /\ Node \in Nodes /\ Node.org_id = leaf.org_id
      BY <1>1, <1>3, <2>3, NodeIsLastWalked
    <3>2. \A j \in 1 .. k : Walked[j].capsule_id \in visited
      BY <1>1, <1>3, <2>3 DEF IInv, VisitedIsWalked, Descending, Rejected
    <3> QED
      BY <1>1, <2>1, <3>1, <3>2 DEF AlreadyVisited
  <2> QED
    BY <1>3, <2>2, <2>3
<1>5. DepthKept'
  <2>1. Len(path) = Len(replies) + 1
    BY <1>1, <1>3, NodeIsLastWalked
  <2> QED
    BY <1>1, <1>3, <2>1 DEF AtMaxDepth, DepthKept, IInv, Typed
<1> QED
  BY <1>2, <1>4, <1>5

Errors == {"SingleVerificationFailed", "DepthExceeded", "CycleDetected",
           "ParentNotFound", "ParentIdMismatch", "CrossCustomerLinkage"}

\* A refusal before the callback is asked changes nothing but the verdict.
LEMMA RefusalKeepsIInv ==
  ASSUME IInv, Descending, NEW e \in Errors, Fail(e), replies' = replies,
         RefusedOnlyForCause'
  PROVE  IInv'
<1>1. Walked' = Walked
  BY WalkedStays DEF Fail
<1>2. Rejected' /\ ~Descending' /\ returned' = <<>>
  BY DEF Fail, Rejected, Descending, Errors
<1>3. Typed' /\ PathIsWalked' /\ AskersChecked' /\ DepthKept'
  BY <1>1, <1>2 DEF IInv, Fail, Errors, Typed, PathIsWalked, AskersChecked, DepthKept
<1>4. AnswersLinked' /\ VisitedIsWalked' /\ ReturnedIsWalked'
  BY <1>2 DEF AnswersLinked, VisitedIsWalked, ReturnedIsWalked
<1>5. CacheFilledOnReturn'
  BY <1>2 DEF IInv, Fail, CacheFilledOnReturn, Descending
<1> QED
  BY <1>3, <1>4, <1>5 DEF IInv

\* Nor does a refusal of what the callback answered.
LEMMA RefusedAnswerKeepsIInv ==
  ASSUME IInv, NEW answer \in Replies, Asks(answer), NEW e \in Errors, Fail(e),
         RefusedOnlyForCause'
  PROVE  IInv'
<1>1. Rejected' /\ ~Descending' /\ returned' = <<>> /\ Descending
  BY DEF Fail, Rejected, Descending, Errors, Asks, HasParent
<1>2. AskersChecked' /\ DepthKept' /\ replies' \in Seq(Replies)
  BY AskKeepsHistory DEF Fail
<1>3. Typed'
  BY <1>1, <1>2 DEF IInv, Fail, Errors, Typed
<1>4. PathIsWalked'
  <2>1. /\ Len(Walked') = Len(Walked) + 1
        /\ \A i \in 1 .. Len(Walked) : Walked'[i] = Walked[i]
        /\ Len(Walked) \in Nat
    BY WalkedGrows, WalkedShape DEF IInv, Typed, Asks, Fail
  <2>2. Len(path) = Len(Walked) /\ path' = path
    BY <1>1, NodeIsLastWalked DEF Fail
  <2> QED
    BY <1>1, <2>1, <2>2 DEF IInv, PathIsWalked
<1>5. AnswersLinked' /\ VisitedIsWalked' /\ ReturnedIsWalked'
  BY <1>1 DEF AnswersLinked, VisitedIsWalked, ReturnedIsWalked
<1>6. CacheFilledOnReturn'
  BY <1>1 DEF IInv, Fail, CacheFilledOnReturn, Descending
<1> QED
  BY <1>2, <1>3, <1>4, <1>5, <1>6 DEF IInv

\* Each of the six refusals has its cause in the walk.
LEMMA RefusalsHaveCause ==
  ASSUME IInv,
         \/ VerifySelfFails \/ ExceedDepth \/ DetectCycle
         \/ ParentNotFound \/ ParentIdMismatch \/ CrossCustomerLinkage
  PROVE  IInv'
<1> DEFINE n == Len(Walked)
<1>1. /\ n = Len(replies) + 1 /\ Len(replies) \in Nat /\ Walked[1] = leaf
      /\ DOMAIN Walked = 1 .. n
  BY WalkedShape DEF IInv, Typed
<1>2. ASSUME NEW answer \in Replies, Asks(answer), leaf' = leaf
      PROVE  /\ Len(Walked') = n + 1 /\ Walked'[n + 1] = answer /\ DOMAIN Walked' = 1 .. n + 1
             /\ Walked'[n] = Node /\ Walked'[1] = leaf
             /\ Node.org_id = leaf.org_id
  <2>1. Descending
    BY <1>2 DEF Asks, HasParent
  <2> QED
    BY <1>1, <1>2, <2>1, WalkedGrows, NodeIsLastWalked DEF IInv, Typed, Asks
<1>3. CASE VerifySelfFails
  <2>1. Descending /\ Walked' = Walked /\ Walked[n] = Node /\ ~Node.sound
    BY <1>3, NodeIsLastWalked, WalkedStays DEF VerifySelfFails, Fail
  <2>2. ~FaultFree(Walked')
    BY <1>1, <2>1 DEF FaultFree
  <2> QED
    BY <1>3, <2>1, <2>2, RefusalKeepsIInv DEF VerifySelfFails, RefusedOnlyForCause, Errors
<1>4. CASE ExceedDepth
  <2>1. /\ Descending /\ Walked' = Walked /\ Walked[n] = Node /\ n >= maxDepth
        /\ maxDepth' = maxDepth /\ Node.parent # NoValue
    BY <1>4, NodeIsLastWalked, WalkedStays DEF ExceedDepth, HasParent, AtMaxDepth, Fail
  <2>2. RefusedOnlyForCause'
    BY <2>1 DEF RefusedOnlyForCause, EndsAtGenesis
  <2> QED
    BY <1>4, <2>1, <2>2, RefusalKeepsIInv DEF ExceedDepth, Errors
<1>5. CASE DetectCycle
  <2>1. /\ Descending /\ Walked' = Walked /\ Walked[n] = Node
        /\ Node.parent \in visited /\ Node.parent # NoValue
    BY <1>5, NodeIsLastWalked, WalkedStays DEF DetectCycle, HasParent, AlreadyVisited, Fail
  <2>2. \E i \in 1 .. n : Walked[i].capsule_id = Node.parent
    BY <2>1 DEF IInv, VisitedIsWalked, Descending, Rejected
  <2>3. RefusedOnlyForCause'
    BY <1>1, <2>1, <2>2 DEF RefusedOnlyForCause, EndsAtGenesis
  <2> QED
    BY <1>5, <2>1, <2>3, RefusalKeepsIInv DEF DetectCycle, Errors
<1>6. CASE ParentNotFound
  <2>1. NoValue \in Replies /\ Asks(NoValue) /\ Fail("ParentNotFound") /\ leaf' = leaf
    BY <1>6 DEF ParentNotFound, Replies, Fail
  <2>2. ~FaultFree(Walked')
    BY <1>1, <1>2, <2>1, NodesAssumption DEF FaultFree
  <2> QED
    BY <2>1, <2>2, RefusedAnswerKeepsIInv DEF RefusedOnlyForCause, Errors
<1>7. CASE ParentIdMismatch
  <2>1. PICK parent \in Nodes : /\ Asks(parent) /\ parent.capsule_id # Node.parent
                                /\ Fail("ParentIdMismatch") /\ leaf' = leaf
    BY <1>7 DEF ParentIdMismatch, IsDeclaredParent, Fail
  <2>2. parent \in Replies
    BY DEF Replies
  <2>3. ~FaultFree(Walked')
    BY <1>1, <1>2, <2>1, <2>2 DEF FaultFree
  <2> QED
    BY <2>1, <2>2, <2>3, RefusedAnswerKeepsIInv DEF RefusedOnlyForCause, Errors
<1>8. CASE CrossCustomerLinkage
  <2>1. PICK parent \in Nodes : /\ Asks(parent) /\ parent.org_id # Node.org_id
                                /\ Fail("CrossCustomerLinkage") /\ leaf' = leaf
    BY <1>8 DEF CrossCustomerLinkage, SameCustomer, Fail
  <2>2. parent \in Replies
    BY DEF Replies
  <2>3. ~FaultFree(Walked')
    BY <1>1, <1>2, <2>1, <2>2 DEF FaultFree
  <2> QED
    BY <2>1, <2>2, <2>3, RefusedAnswerKeepsIInv DEF RefusedOnlyForCause, Errors
<1> QED
  BY <1>3, <1>4, <1>5, <1>6, <1>7, <1>8

\* A genesis turns the walk round.
LEMMA GenesisKeepsIInv == IInv /\ ReachGenesis => IInv'
<1> SUFFICES ASSUME IInv, ReachGenesis PROVE IInv'
  OBVIOUS
<1>1. /\ Descending /\ Node.sound /\ Node.parent = NoValue
      /\ returned' = <<Node>>
      /\ UNCHANGED <<leaf, maxDepth, replies, path, visited, cache, failure>>
  BY DEF ReachGenesis
<1>2. Walked' = Walked /\ failure = "none" /\ ~Rejected /\ ~Rejected'
  BY <1>1, WalkedStays DEF Descending, Rejected
<1>3. Len(path) = Len(Walked) /\ Node = Walked[Len(Walked)] /\ Node \in Nodes
  BY <1>1, NodeIsLastWalked
<1>4. returned' \in Seq(Nodes) /\ Len(returned') = 1 /\ returned'[1] = Node /\ returned' # <<>>
  BY <1>1, <1>3
<1>5. Typed'
  BY <1>1, <1>4 DEF IInv, Typed
<1>6. PathIsWalked' /\ AskersChecked' /\ DepthKept'
  BY <1>1, <1>2, <1>4 DEF IInv, PathIsWalked, AskersChecked, DepthKept, Descending
<1>7. AnswersLinked' /\ VisitedIsWalked'
  BY <1>1, <1>2 DEF IInv, AnswersLinked, VisitedIsWalked
<1>8. ReturnedIsWalked'
  <2>1. Len(path) \in Nat /\ Len(path) >= 1
    BY DEF IInv, Typed
  <2> QED
    BY <1>1, <1>2, <1>3, <1>4, <2>1 DEF ReturnedIsWalked, EndsAtGenesis
<1>9. CacheFilledOnReturn' /\ RefusedOnlyForCause'
  BY <1>1, <1>2, <1>4 DEF IInv, CacheFilledOnReturn, RefusedOnlyForCause
<1> QED
  BY <1>5, <1>6, <1>7, <1>8, <1>9 DEF IInv

\* A parent that is the declared one and the same customer's is walked into.
LEMMA DescendKeepsIInv == IInv /\ Descend => IInv'
<1> SUFFICES ASSUME IInv, Descend PROVE IInv'
  OBVIOUS
<1>1. PICK parent \in Nodes :
        /\ Asks(parent)
        /\ parent.capsule_id = Node.parent
        /\ Node.org_id = parent.org_id
        /\ visited' = visited \cup {Node.parent}
        /\ path' = Append(path, parent)
        /\ UNCHANGED <<leaf, maxDepth, cache, returned, failure>>
  BY DEF Descend, IsDeclaredParent, SameCustomer
<1>2. Descending /\ Descending' /\ ~Rejected /\ ~Rejected' /\ parent \in Replies
  BY <1>1 DEF Asks, HasParent, Descending, Rejected, Replies
<1>3. AskersChecked' /\ DepthKept' /\ replies' \in Seq(Replies)
  BY <1>1, <1>2, AskKeepsHistory
<1>4. /\ Len(path) = Len(Walked) /\ Node = Walked[Len(Walked)] /\ Node.org_id = leaf.org_id
  BY <1>2, NodeIsLastWalked
<1>5. /\ Len(Walked') = Len(Walked) + 1
      /\ Walked'[Len(Walked) + 1] = parent
      /\ \A i \in 1 .. Len(Walked) : Walked'[i] = Walked[i]
      /\ Len(replies') = Len(replies) + 1
      /\ \A k \in 1 .. Len(replies) : replies'[k] = replies[k]
      /\ replies'[Len(replies) + 1] = parent
  BY <1>1, <1>2, WalkedGrows DEF IInv, Typed, Asks
<1>6. Len(Walked) = Len(replies) + 1 /\ Len(replies) \in Nat
  BY WalkedShape DEF IInv, Typed
<1>7. Typed'
  <2>1. parent.capsule_id \in CapsuleIds
    BY DEF Nodes
  <2> QED
    BY <1>1, <1>3, <2>1 DEF IInv, Typed
<1>8. PathIsWalked'
  <2>1. Len(path') = Len(path) + 1 /\ path'[Len(path) + 1] = parent
        /\ \A i \in 1 .. Len(path) : path'[i] = path[i]
    BY <1>1 DEF IInv, Typed
  <2>2. ASSUME NEW i \in 1 .. Len(path') PROVE path'[i] = Walked'[i]
    BY <2>1, <1>4, <1>5, <1>6 DEF IInv, PathIsWalked
  <2> QED
    BY <2>1, <2>2, <1>4, <1>5, <1>6 DEF PathIsWalked
<1>9. AnswersLinked'
  <2> SUFFICES ASSUME NEW k \in 1 .. Len(replies')
               PROVE  /\ replies'[k] \in Nodes
                      /\ replies'[k].capsule_id = Walked'[k].parent
                      /\ replies'[k].org_id = leaf.org_id
    BY <1>1 DEF AnswersLinked
  <2>1. CASE k <= Len(replies)
    BY <1>2, <1>5, <1>6, <2>1 DEF IInv, AnswersLinked
  <2>2. CASE k = Len(replies) + 1
    BY <1>1, <1>4, <1>5, <1>6, <2>2
  <2> QED
    BY <1>5, <1>6, <2>1, <2>2
<1>10. VisitedIsWalked'
  <2>1. ASSUME NEW i \in 1 .. Len(Walked') PROVE Walked'[i].capsule_id \in visited'
    BY <1>1, <1>2, <1>5, <1>6 DEF IInv, VisitedIsWalked
  <2>2. ASSUME NEW id \in visited'
        PROVE  \E i \in 1 .. Len(Walked') : Walked'[i].capsule_id = id
    BY <1>1, <1>2, <1>5, <1>6 DEF IInv, VisitedIsWalked
  <2> QED
    BY <2>1, <2>2 DEF VisitedIsWalked
<1>11. ReturnedIsWalked' /\ RefusedOnlyForCause'
  BY <1>2 DEF ReturnedIsWalked, RefusedOnlyForCause, Descending
<1>12. CacheFilledOnReturn'
  BY <1>1 DEF IInv, CacheFilledOnReturn
<1> QED
  BY <1>3, <1>7, <1>8, <1>9, <1>10, <1>11, <1>12 DEF IInv

\* A caller prepends the proof it stands on, which is the one walked before.
LEMMA ReturnKeepsIInv == IInv /\ Return => IInv'
<1> SUFFICES ASSUME IInv, Return PROVE IInv'
  OBVIOUS
<1> DEFINE d == Len(path)
<1>1. /\ returned # <<>> /\ d > 1
      /\ returned' = <<Caller>> \o returned
      /\ path' = SubSeq(path, 1, d - 1)
      /\ UNCHANGED <<leaf, maxDepth, replies, visited, failure>>
      /\ CacheParent
  BY DEF Return
<1>2. Walked' = Walked /\ failure = "none" /\ ~Rejected /\ ~Rejected'
  BY <1>1, WalkedStays DEF IInv, ReturnedIsWalked, Rejected
<1>3. d \in Nat /\ Caller = path[d - 1] /\ Caller \in Nodes /\ Caller = Walked[d - 1]
  BY <1>1 DEF IInv, Typed, Caller, PathIsWalked
<1>4. /\ path' \in Seq(Nodes) /\ Len(path') = d - 1 /\ path' # <<>>
      /\ \A i \in 1 .. d - 1 : path'[i] = path[i]
  <2>1. path \in Seq(Nodes)
    BY DEF IInv, Typed
  <2>2. path' = SubSeq(path, 1, d - 1) /\ 1 \in 1 .. d /\ d - 1 \in 1 .. d
    BY <1>1, <1>3
  <2>3. path' \in Seq(Nodes) /\ Len(path') = d - 1
    BY <2>1, <2>2
  <2>4. \A i \in 1 .. d - 1 : path'[i] = path[i]
    BY <2>1, <2>2
  <2>5. Len(path') # 0
    BY <1>1, <1>3, <2>3
  <2>6. path' # <<>>
    BY <2>5
  <2> QED
    BY <2>3, <2>4, <2>6
<1>5. /\ returned' \in Seq(Nodes) /\ Len(returned') = Len(returned) + 1 /\ returned' # <<>>
      /\ returned'[1] = Caller /\ Len(returned) \in Nat
      /\ \A i \in 1 .. Len(returned) : returned'[i + 1] = returned[i]
  BY <1>1, <1>3 DEF IInv, Typed
<1>6. Typed'
  BY <1>1, <1>4, <1>5 DEF IInv, Typed
<1>7. PathIsWalked' /\ AskersChecked' /\ DepthKept'
  <2>1. ~Descending'
    BY <1>5 DEF Descending
  <2>2. PathIsWalked'
    BY <1>2, <1>3, <1>4, <2>1, WalkedShape DEF IInv, Typed, PathIsWalked
  <2> QED
    BY <1>1, <1>2, <2>2 DEF IInv, AskersChecked, DepthKept
<1>8. AnswersLinked' /\ VisitedIsWalked' /\ RefusedOnlyForCause'
  BY <1>1, <1>2 DEF IInv, AnswersLinked, VisitedIsWalked, RefusedOnlyForCause
<1>9. ReturnedIsWalked'
  <2>1. /\ d + Len(returned) = Len(Walked) + 1
        /\ \A i \in 1 .. Len(returned) : returned[i] = Walked[d + i - 1]
        /\ Walked[Len(Walked)].sound
        /\ EndsAtGenesis(Walked)
    BY <1>1 DEF IInv, ReturnedIsWalked
  <2>2. ASSUME NEW i \in 1 .. Len(returned') PROVE returned'[i] = Walked[d - 1 + i - 1]
    <3>1. CASE i = 1
      BY <1>3, <1>5, <3>1
    <3>2. CASE i # 1
      <4>1. i - 1 \in 1 .. Len(returned) /\ returned'[i] = returned[i - 1]
        BY <1>5, <3>2
      <4>2. returned[i - 1] = Walked[d + (i - 1) - 1]
        BY <2>1, <4>1
      <4> QED
        BY <1>3, <4>1, <4>2
    <3> QED
      BY <3>1, <3>2
  <2>3. d - 1 + Len(returned') = Len(Walked) + 1
    BY <1>3, <1>5, <2>1
  <2> QED
    BY <1>1, <1>2, <1>4, <2>1, <2>2, <2>3 DEF ReturnedIsWalked, EndsAtGenesis
<1>10. CacheFilledOnReturn'
  <2>1. d - 1 \in 1 .. Len(replies) /\ replies[d - 1] = Walked[d]
    <3>1. d <= Len(replies) + 1 /\ \A k \in 1 .. Len(replies) : Walked[k + 1] = replies[k]
      BY WalkedShape DEF IInv, Typed, PathIsWalked
    <3>2. d - 1 \in 1 .. Len(replies) /\ (d - 1) + 1 = d
      BY <1>1, <1>3, <3>1 DEF IInv, Typed
    <3> QED
      BY <3>1, <3>2
  <2>2. Caller.parent = Walked[d].capsule_id
    BY <1>2, <1>3, <2>1 DEF IInv, AnswersLinked
  <2>3. Caller.parent \in visited
    BY <1>1, <1>2, <1>3, <2>2 DEF IInv, VisitedIsWalked, PathIsWalked
  <2>4. DOMAIN cache' = DOMAIN cache \cup {Caller.parent}
    BY <1>1 DEF CacheParent
  <2> QED
    BY <1>1, <1>5, <2>3, <2>4 DEF IInv, CacheFilledOnReturn
<1> QED
  BY <1>6, <1>7, <1>8, <1>9, <1>10 DEF IInv

LEMMA StutterKeepsIInv == IInv /\ UNCHANGED vars => IInv'
<1> SUFFICES ASSUME IInv, UNCHANGED vars PROVE IInv'
  OBVIOUS
<1>1. Walked' = Walked
  BY WalkedStays DEF vars
<1> QED
  BY <1>1 DEF vars, IInv, Typed, PathIsWalked, AskersChecked, AnswersLinked, VisitedIsWalked,
              DepthKept, ReturnedIsWalked, CacheFilledOnReturn, RefusedOnlyForCause,
              EndsAtGenesis, Descending, Rejected

LEMMA NextKeepsIInv == IInv /\ [Next]_vars => IInv'
BY RefusalsHaveCause, GenesisKeepsIInv, DescendKeepsIInv, ReturnKeepsIInv, StutterKeepsIInv
   DEF Next, Walk, Answered

LEMMA InvariantOfSpec == Spec => []IInv
BY InitIInv, NextKeepsIInv, PTL DEF Spec

-----------------------------------------------------------------------------
(* The theorems.                                                           *)

\* What verify_chain returns is the whole chain the callback gave it, leaf
\* first, and that chain is one customer's, sound, without repetition, within
\* max_depth and down to a genesis (chain.rs, 278-294).
THEOREM AcceptedMeansWholeChain == Spec => []AcceptedChainIsWhole
<1>1. ASSUME IInv, Accepted PROVE returned = Walked /\ EndsAtGenesis(Walked) /\ WithinDepth(Walked)
  <2>1. /\ Len(returned) = Len(Walked)
        /\ \A i \in 1 .. Len(returned) : returned[i] = Walked[i]
        /\ EndsAtGenesis(Walked)
    BY <1>1, WalkedShape DEF IInv, Typed, Accepted, ReturnedIsWalked
  <2>2. returned \in Seq(Replies) /\ Walked \in Seq(Replies)
    BY <1>1, WalkedShape DEF IInv, Typed, Replies
  <2>3. returned = Walked
    BY <2>1, <2>2
  <2> QED
    BY <1>1, <2>1, <2>3, WalkedShape DEF IInv, Typed, DepthKept, WithinDepth
<1>2. ASSUME IInv, Accepted PROVE FaultFree(Walked)
  <2> DEFINE n == Len(Walked)
  <2>1. /\ n = Len(replies) + 1 /\ Len(replies) \in Nat
        /\ Walked[1] = leaf /\ leaf \in Nodes /\ DOMAIN Walked = 1 .. n
        /\ \A k \in 1 .. Len(replies) : Walked[k + 1] = replies[k]
    <3>1. leaf \in Nodes /\ replies \in Seq(Replies)
      BY <1>2 DEF IInv, Typed
    <3>2. Len(replies) \in Nat
      BY <3>1
    <3>3. /\ Walked \in Seq(Replies) /\ Len(Walked) = Len(replies) + 1 /\ Walked[1] = leaf
          /\ \A k \in 1 .. Len(replies) : Walked[k + 1] = replies[k]
      BY <3>1, WalkedShape
    <3>4. DOMAIN Walked = 1 .. Len(Walked)
      BY <3>3
    <3> QED
      BY <3>1, <3>2, <3>3, <3>4
  <2>2. ~Rejected /\ Walked[n].sound
    BY <1>2 DEF IInv, Accepted, ReturnedIsWalked, Rejected
  <2>3. ASSUME NEW i \in 2 .. n
        PROVE  /\ Walked[i] \in Nodes
               /\ Walked[i].org_id = leaf.org_id
               /\ Walked[i].capsule_id = Walked[i - 1].parent
    <3>1. i - 1 \in 1 .. Len(replies) /\ Walked[i] = replies[i - 1]
      BY <2>1
    <3> QED
      BY <1>2, <2>2, <3>1 DEF IInv, AnswersLinked
  <2>4. ASSUME NEW i \in 1 .. n PROVE Walked[i] \in Nodes /\ Walked[i].org_id = Walked[1].org_id
    BY <2>1, <2>3
  <2>5. ASSUME NEW i \in 1 .. n PROVE Walked[i].sound
    BY <1>2, <2>1, <2>2 DEF IInv, AskersChecked
  <2>6. ASSUME NEW i \in 1 .. n, NEW j \in 1 .. n, i < j
        PROVE  Walked[i].capsule_id # Walked[j].capsule_id
    <3>1. j \in 2 .. n /\ j - 1 \in 1 .. Len(replies) /\ i \in 1 .. j - 1
      BY <2>1, <2>6
    <3>2. Walked[j].capsule_id = Walked[j - 1].parent
      BY <2>3, <3>1
    <3>3. Walked[i].capsule_id # Walked[j - 1].parent
      BY <1>2, <3>1 DEF IInv, AskersChecked
    <3> QED
      BY <3>2, <3>3
  <2>7. ASSUME NEW i \in 1 .. n, NEW j \in 1 .. n, Walked[i].capsule_id = Walked[j].capsule_id
        PROVE  i = j
    BY <2>1, <2>6, <2>7
  <2> QED
    BY <2>1, <2>3, <2>4, <2>5, <2>7 DEF FaultFree
<1>3. IInv => AcceptedChainIsWhole
  BY <1>1, <1>2 DEF AcceptedChainIsWhole
<1> QED
  BY <1>3, InvariantOfSpec, PTL

\* Every state is of its type, and the cache holds walked capsules only.
THEOREM TypeCorrect == Spec => []TypeOK
<1>1. IInv => TypeOK
  <2> SUFFICES ASSUME IInv PROVE TypeOK
    OBVIOUS
  <2>1. Rejected => returned = <<>>
    BY DEF IInv, ReturnedIsWalked, Rejected
  <2> QED
    BY <2>1 DEF IInv, Typed, PathIsWalked, CacheFilledOnReturn, TypeOK
<1> QED
  BY <1>1, InvariantOfSpec, PTL

\* A walk that is refused although nothing in it is wrong ran into the depth
\* limit or into a capsule it had read.
THEOREM RefusalHasCause == Spec => []RefusedOnlyForCause
<1>1. IInv => RefusedOnlyForCause
  BY DEF IInv
<1> QED
  BY <1>1, InvariantOfSpec, PTL

\* The callback is asked once for a capsule, and only on behalf of a sound
\* proof of the leaf's customer.
THEOREM CallbackAskedOnce == Spec => []AsksOncePerCapsule
<1>1. IInv => AsksOncePerCapsule
  <2> SUFFICES ASSUME IInv PROVE AsksOncePerCapsule
    OBVIOUS
  <2>1. DOMAIN replies = 1 .. Len(replies)
    BY DEF IInv, Typed
  <2> QED
    BY <2>1 DEF IInv, AskersChecked, AsksOncePerCapsule
<1> QED
  BY <1>1, InvariantOfSpec, PTL

\* On the way down the in-walk cache is empty: step 5 of verify_chain_impl
\* never answers, and leaving it out of Walk leaves nothing out.
THEOREM CacheIsNeverConsulted == Spec => [](Descending => DOMAIN cache = {})
<1>1. IInv => (Descending => DOMAIN cache = {})
  BY DEF IInv, CacheFilledOnReturn, Descending
<1> QED
  BY <1>1, InvariantOfSpec, PTL

-----------------------------------------------------------------------------
(***************************************************************************)
(* The run over a directory.                                               *)
(***************************************************************************)

-----------------------------------------------------------------------------
(* The file tree.                                                          *)

LEMMA NodesAre ==
  /\ Len(Parent) \in Nat /\ FileNodes = 1 .. Len(Parent) /\ FileNodes \cup {0} = 0 .. Len(Parent)
  /\ \A n \in FileNodes : Parent[n] \in 0 .. n - 1 /\ Parent[n] \in FileNodes \cup {0}
<1>1. /\ Len(Parent) \in Nat /\ FileNodes = 1 .. Len(Parent)
      /\ \A n \in FileNodes : Parent[n] \in 0 .. n - 1
  BY ParentAssumption DEF FileNodes
<1> QED
  BY <1>1

\* Ancestors is computed from the root down.
LEMMA AncestorsUnfold ==
  /\ Ancestors(0) = {0}
  /\ \A n \in FileNodes : Ancestors(n) = {n} \cup Ancestors(Parent[n])
<1> DEFINE N == Len(Parent)
           Entry0(f, n) == IF n = 0 THEN {0} ELSE {n} \cup f[Parent[n]]
           Chain(f, m) == f = [n \in 0 .. m |-> Entry0(f, n)]
           S == {m \in 0 .. N : \E f : Chain(f, m)}
<1>1. /\ N \in Nat /\ FileNodes = 1 .. N /\ FileNodes \cup {0} = 0 .. N
      /\ \A n \in 1 .. N : Parent[n] \in 0 .. n - 1
  BY NodesAre
<1>2. \A n : Ancestors(n) = (CHOOSE f : Chain(f, N))[n]
  BY <1>1 DEF Ancestors
<1> HIDE DEF N, Entry0
<1>3. ASSUME NEW f, NEW m, Chain(f, m), NEW n \in 0 .. m
      PROVE  f[n] = Entry0(f, n)
  BY <1>3
<1>4. 0 \in S
  <2> DEFINE f == [n \in 0 .. 0 |-> {0}]
  <2>1. Chain(f, 0) /\ 0 \in 0 .. N
    BY <1>1 DEF Entry0
  <2> QED
    BY <2>1, Zenon
<1>5. ASSUME NEW m \in 0 .. N - 1, m \in S PROVE m + 1 \in S
  <2>1. PICK f : Chain(f, m)
    BY <1>5
  <2> DEFINE g == [n \in 0 .. m + 1 |-> IF n = m + 1 THEN {n} \cup f[Parent[n]] ELSE f[n]]
  <2>2. ASSUME NEW n \in 0 .. m + 1
        PROVE  g[n] = Entry0(g, n)
    <3>1. \A l \in 0 .. m : f[l] = Entry0(f, l) /\ g[l] = f[l]
      <4> HIDE DEF Chain
      <4>1. \A l \in 0 .. m : f[l] = Entry0(f, l)
        BY <1>3, <2>1
      <4> QED
        BY <1>1, <4>1
    <3>2. n # 0 => Parent[n] \in 0 .. m /\ Parent[n] \in 0 .. n - 1
      BY <1>1
    <3>3. CASE n = m + 1
      <4>1. g[n] = {n} \cup f[Parent[n]] /\ n # 0
        BY <1>1, <3>3
      <4> HIDE DEF g
      <4> QED
        BY <3>1, <3>2, <4>1 DEF Entry0
    <3>4. CASE n \in 0 .. m
      <4> HIDE DEF g
      <4> QED
        BY <3>1, <3>2, <3>4 DEF Entry0
    <3> QED
      BY <1>1, <3>3, <3>4
  <2>3. Chain(g, m + 1)
    BY <2>2
  <2>4. m + 1 \in 0 .. N
    BY <1>1
  <2> QED
    BY <2>3, <2>4, Zenon
<1>6. N \in S
  <2> HIDE DEF S
  <2>1. 0 .. N \subseteq S
    BY <1>1, <1>4, <1>5, BoundedInduction
  <2> QED
    BY <1>1, <2>1
<1> DEFINE up == CHOOSE f : Chain(f, N)
<1>7. Chain(up, N)
  BY <1>6
<1> HIDE DEF Chain, up
<1>8. \A n \in 0 .. N : up[n] = Entry0(up, n)
  BY <1>3, <1>7
<1>9. \A n : Ancestors(n) = up[n]
  BY <1>2 DEF up
<1>10. 0 \in 0 .. N /\ \A n \in 1 .. N : n \in 0 .. N /\ n # 0
  BY <1>1
<1> QED
  BY <1>1, <1>8, <1>9, <1>10 DEF Entry0

\* A node's ancestors are nodes with numbers up to its own, and theirs are among them.
LEMMA AncestorsOrder ==
  \A n \in FileNodes \cup {0} :
    /\ n \in Ancestors(n)
    /\ \A a \in Ancestors(n) : /\ a \in FileNodes \cup {0} /\ a <= n
                               /\ Ancestors(a) \subseteq Ancestors(n)
<1> DEFINE N == Len(Parent)
           Holds(n) == /\ n \in Ancestors(n)
                       /\ \A a \in Ancestors(n) : /\ a \in FileNodes \cup {0} /\ a <= n
                                                  /\ Ancestors(a) \subseteq Ancestors(n)
           S == {m \in 0 .. N : \A n \in 0 .. m : Holds(n)}
<1>1. /\ N \in Nat /\ FileNodes = 1 .. N /\ FileNodes \cup {0} = 0 .. N
      /\ \A n \in 1 .. N : Parent[n] \in 0 .. n - 1
  BY NodesAre
<1> HIDE DEF N
<1>2. Holds(0)
  BY AncestorsUnfold
<1>3. 0 \in S
  <2> HIDE DEF Holds
  <2> QED
    BY <1>1, <1>2
<1>4. ASSUME NEW m \in 0 .. N - 1, m \in S PROVE m + 1 \in S
  <2> DEFINE n == m + 1
  <2>1. n \in 1 .. N /\ Parent[n] \in 0 .. m
    BY <1>1
  <2>2. Holds(Parent[n])
    BY <1>4, <2>1
  <2>3. Ancestors(n) = {n} \cup Ancestors(Parent[n])
    BY <1>1, <2>1, AncestorsUnfold
  <2>4. Parent[n] <= n /\ n \in FileNodes
    BY <1>1, <2>1
  <2> HIDE DEF n
  <2>5. Holds(n)
    BY <1>1, <2>1, <2>2, <2>3, <2>4
  <2> HIDE DEF Holds
  <2> QED
    BY <1>1, <1>4, <2>5 DEF n
<1>5. N \in S
  <2> HIDE DEF S
  <2>1. 0 .. N \subseteq S
    BY <1>1, <1>3, <1>4, BoundedInduction
  <2> QED
    BY <1>1, <2>1
<1> HIDE DEF Holds
<1>6. \A n \in FileNodes \cup {0} : Holds(n)
  BY <1>1, <1>5
<1> QED
  BY <1>6 DEF Holds

\* On the way down to a node there is a next one.
LEMMA NextOnTheWay ==
  ASSUME NEW n \in FileNodes \cup {0}, NEW d \in Ancestors(n), d # n
  PROVE  \E c \in Ancestors(n) : c \in FileNodes /\ Parent[c] = d
<1> DEFINE N == Len(Parent)
           Holds(m) == d \in Ancestors(m) /\ d # m => \E c \in Ancestors(m) : c \in FileNodes /\ Parent[c] = d
           S == {l \in 0 .. N : \A m \in 0 .. l : Holds(m)}
<1>1. /\ N \in Nat /\ FileNodes = 1 .. N /\ FileNodes \cup {0} = 0 .. N
      /\ \A m \in 1 .. N : Parent[m] \in 0 .. m - 1
  BY NodesAre
<1> HIDE DEF N
<1>2. Holds(0)
  BY AncestorsUnfold
<1>3. 0 \in S
  <2> HIDE DEF Holds
  <2> QED
    BY <1>1, <1>2
<1>4. ASSUME NEW l \in 0 .. N - 1, l \in S PROVE l + 1 \in S
  <2> DEFINE m == l + 1
  <2>1. m \in 1 .. N /\ Parent[m] \in 0 .. l
    BY <1>1
  <2>2. Holds(Parent[m])
    BY <1>4, <2>1
  <2>3. Ancestors(m) = {m} \cup Ancestors(Parent[m])
    BY <1>1, <2>1, AncestorsUnfold
  <2> HIDE DEF m
  <2>4. Holds(m)
    BY <1>1, <2>1, <2>2, <2>3
  <2> HIDE DEF Holds
  <2> QED
    BY <1>1, <1>4, <2>4 DEF m
<1>5. N \in S
  <2> HIDE DEF S
  <2>1. 0 .. N \subseteq S
    BY <1>1, <1>3, <1>4, BoundedInduction
  <2> QED
    BY <1>1, <2>1
<1>6. Holds(n)
  <2> HIDE DEF Holds
  <2> QED
    BY <1>1, <1>5
<1> QED
  BY <1>6

\* What is there is in directories only.
LEMMA InDirectories ==
  ASSUME NEW f, WellFormed(f), NEW n \in FileNodes, f[n] # "missing",
         NEW a \in Ancestors(n), a # n, a # 0
  PROVE  a \in FileNodes /\ f[a] = "directory"
<1> DEFINE N == Len(Parent)
           Holds(m) == m \in FileNodes /\ f[m] # "missing" /\ a \in Ancestors(m) /\ a # m
                         => f[a] = "directory"
           S == {l \in 0 .. N : \A m \in 0 .. l : Holds(m)}
<1>1. /\ N \in Nat /\ FileNodes = 1 .. N /\ FileNodes \cup {0} = 0 .. N
      /\ \A m \in 1 .. N : Parent[m] \in 0 .. m - 1
  BY NodesAre
<1> HIDE DEF N
<1>2. Holds(0)
  BY <1>1
<1>3. 0 \in S
  <2> HIDE DEF Holds
  <2> QED
    BY <1>1, <1>2
<1>4. ASSUME NEW l \in 0 .. N - 1, l \in S PROVE l + 1 \in S
  <2> DEFINE m == l + 1
  <2>1. m \in 1 .. N /\ Parent[m] \in 0 .. l
    BY <1>1
  <2>2. Holds(Parent[m])
    BY <1>4, <2>1
  <2>3. Ancestors(m) = {m} \cup Ancestors(Parent[m])
    BY <1>1, <2>1, AncestorsUnfold
  <2> HIDE DEF m
  <2>4. Holds(m)
    <3> SUFFICES ASSUME f[m] # "missing", a \in Ancestors(m), a # m PROVE f[a] = "directory"
      OBVIOUS
    <3>1. a \in Ancestors(Parent[m])
      BY <2>3
    <3>2. Parent[m] # 0
      BY <3>1, AncestorsUnfold
    <3>3. f[Parent[m]] = "directory" /\ Parent[m] \in FileNodes
      BY <1>1, <2>1, <3>2 DEF WellFormed
    <3> QED
      BY <2>2, <3>1, <3>3
  <2> HIDE DEF Holds
  <2> QED
    BY <1>1, <1>4, <2>4 DEF m
<1>5. N \in S
  <2> HIDE DEF S
  <2>1. 0 .. N \subseteq S
    BY <1>1, <1>3, <1>4, BoundedInduction
  <2> QED
    BY <1>1, <2>1
<1>6. Holds(n)
  <2> HIDE DEF Holds
  <2> QED
    BY <1>1, <1>5
<1>7. a \in FileNodes \cup {0}
  BY AncestorsOrder
<1> QED
  BY <1>6, <1>7

-----------------------------------------------------------------------------
(* The sort.                                                               *)

\* The place of an element in the stable order.
Before(f, j, i) == f[j] < f[i] \/ (f[j] = f[i] /\ j < i)
Place(f, i) == 1 + Cardinality({j \in DOMAIN f : Before(f, j, i)})

\* Every place is somebody's, and the places are in order.
LEMMA PlacesAreFilled ==
  ASSUME NEW N \in Nat, NEW f, DOMAIN f = 1 .. N, \A i \in 1 .. N : f[i] \in Nat
  PROVE  /\ \A i \in 1 .. N : Place(f, i) \in 1 .. N
         /\ \A k \in 1 .. N : \E i \in 1 .. N : Place(f, i) = k
         /\ \A i, j \in 1 .. N : Place(f, i) = Place(f, j) => i = j
         /\ \A i, j \in 1 .. N : Place(f, i) < Place(f, j) => Before(f, i, j)
<1> DEFINE below(i) == {j \in DOMAIN f : Before(f, j, i)}
           place == [i \in 1 .. N |-> Place(f, i)]
<1>1. IsFiniteSet(1 .. N) /\ Cardinality(1 .. N) = N
  BY FS_Interval
<1>2. ASSUME NEW i \in 1 .. N
      PROVE  /\ Place(f, i) = 1 + Cardinality(below(i))
             /\ IsFiniteSet(below(i)) /\ Cardinality(below(i)) \in Nat
             /\ Place(f, i) \in 1 .. N
  <2>1. below(i) \subseteq 1 .. N /\ i \notin below(i)
    BY DEF Before
  <2>2. IsFiniteSet(below(i)) /\ Cardinality(below(i)) \in Nat /\ Cardinality(below(i)) <= N
    BY <1>1, <2>1, FS_Subset, FS_CardinalityType
  <2>3. Cardinality(below(i)) # N
    BY <1>1, <2>1, FS_Subset
  <2>4. Place(f, i) = 1 + Cardinality(below(i))
    BY DEF Place
  <2> HIDE DEF below
  <2> QED
    BY <2>2, <2>3, <2>4
<1>3. ASSUME NEW i \in 1 .. N, NEW j \in 1 .. N, i # j, ~Before(f, i, j)
      PROVE  Place(f, j) < Place(f, i)
  <2>1. Before(f, j, i)
    BY <1>3 DEF Before
  <2>2. below(j) \subseteq below(i) /\ j \in below(i) /\ j \notin below(j)
    BY <2>1 DEF Before
  <2>3. Cardinality(below(j)) <= Cardinality(below(i)) /\ Cardinality(below(j)) # Cardinality(below(i))
    BY <1>2, <2>2, FS_Subset
  <2> HIDE DEF below
  <2> QED
    BY <1>2, <2>3
<1>4. ASSUME NEW i \in 1 .. N, NEW j \in 1 .. N, Place(f, i) < Place(f, j)
      PROVE  Before(f, i, j)
  <2>1. Place(f, i) \in Nat /\ Place(f, j) \in Nat
    <3> HIDE DEF below
    <3>1. Place(f, i) \in 1 .. N /\ Place(f, j) \in 1 .. N
      BY <1>2
    <3> QED
      BY ONLY <3>1, N \in Nat
  <2>2. i # j
    BY <1>4, <2>1
  <2> QED
    BY <1>3, <1>4, <2>1, <2>2
<1>5. ASSUME NEW i \in 1 .. N, NEW j \in 1 .. N, Place(f, i) = Place(f, j)
      PROVE  i = j
  <2> SUFFICES ASSUME i # j PROVE FALSE
    OBVIOUS
  <2>1. Place(f, i) \in Nat /\ Place(f, j) \in Nat
    <3> HIDE DEF below
    <3>1. Place(f, i) \in 1 .. N /\ Place(f, j) \in 1 .. N
      BY <1>2
    <3> QED
      BY ONLY <3>1, N \in Nat
  <2>2. Before(f, i, j) /\ Before(f, j, i)
    BY <1>3, <1>5, <2>1
  <2> QED
    BY <2>2 DEF Before
<1>6. place \in Injection(1 .. N, 1 .. N)
  BY <1>2, <1>5 DEF Injection, IsInjective
<1>7. place \in Surjection(1 .. N, 1 .. N)
  BY <1>1, <1>6, FS_Injection
<1>8. \A k \in 1 .. N : \E i \in 1 .. N : Place(f, i) = k
  BY <1>7 DEF Surjection
<1> QED
  BY <1>2, <1>4, <1>5, <1>8

\* The sort of distinct paths has the same ones, in their order.
LEMMA InOrderSorts ==
  ASSUME NEW paths \in Seq(FileNodes),
         \A i, j \in DOMAIN paths : paths[i] = paths[j] => i = j
  PROVE  /\ InOrder(paths) \in Seq(FileNodes) /\ Len(InOrder(paths)) = Len(paths)
         /\ \A i, j \in DOMAIN InOrder(paths) : i < j => InOrder(paths)[i] < InOrder(paths)[j]
         /\ \A i \in DOMAIN paths : \E k \in DOMAIN InOrder(paths) : InOrder(paths)[k] = paths[i]
<1> DEFINE N == Len(paths)
           at(k) == CHOOSE i \in DOMAIN paths : Place(paths, i) = k
           sorted == InOrder(paths)
<1>1. N \in Nat /\ DOMAIN paths = 1 .. N /\ \A i \in 1 .. N : paths[i] \in FileNodes /\ paths[i] \in Nat
  BY NodesAre
<1>2. /\ sorted = [k \in 1 .. N |-> sorted[k]] /\ DOMAIN sorted = 1 .. N
      /\ \A k \in 1 .. N : sorted[k] = paths[at(k)]
  <2> DEFINE rank == [i \in DOMAIN paths |->
                        1 + Cardinality({j \in DOMAIN paths :
                              paths[j] < paths[i] \/ (paths[j] = paths[i] /\ j < i)})]
             pick(k) == CHOOSE i \in DOMAIN paths : rank[i] = k
  <2>1. \A i \in DOMAIN paths : rank[i] = Place(paths, i)
    BY DEF Place, Before
  <2>2. sorted = [k \in DOMAIN paths |-> paths[pick(k)]]
    BY DEF InOrder
  <2> HIDE DEF rank
  <2>3. \A k : pick(k) = at(k)
    BY <2>1
  <2> HIDE DEF at, sorted, pick
  <2> QED
    BY <1>1, <2>2, <2>3
<1> HIDE DEF N, sorted
<1>3. /\ \A i \in 1 .. N : Place(paths, i) \in 1 .. N
      /\ \A k \in 1 .. N : \E i \in 1 .. N : Place(paths, i) = k
      /\ \A i, j \in 1 .. N : Place(paths, i) = Place(paths, j) => i = j
      /\ \A i, j \in 1 .. N : Place(paths, i) < Place(paths, j) => Before(paths, i, j)
  BY <1>1, PlacesAreFilled
<1>4. ASSUME NEW k \in 1 .. N
      PROVE  at(k) \in 1 .. N /\ Place(paths, at(k)) = k
  BY <1>1, <1>3
<1> HIDE DEF at
<1>5. sorted \in Seq(FileNodes) /\ Len(sorted) = N /\ DOMAIN sorted = 1 .. N
  <2>1. \A k \in 1 .. N : sorted[k] \in FileNodes
    BY <1>1, <1>2, <1>4
  <2>2. sorted \in [1 .. N -> FileNodes]
    BY <1>2, <2>1
  <2> QED
    BY <1>1, <2>2
<1>6. ASSUME NEW i \in 1 .. N, NEW j \in 1 .. N, i < j PROVE sorted[i] < sorted[j]
  <2>1. Before(paths, at(i), at(j)) /\ at(i) # at(j)
    <3>1. at(i) \in 1 .. N /\ at(j) \in 1 .. N /\ Place(paths, at(i)) < Place(paths, at(j))
      BY <1>4, <1>6
    <3>2. Place(paths, at(i)) # Place(paths, at(j))
      BY <1>4, <1>6
    <3> QED
      BY <1>3, <3>1, <3>2
  <2>2. paths[at(i)] # paths[at(j)]
    BY <1>1, <1>4, <2>1
  <2> QED
    BY <1>2, <2>1, <2>2 DEF Before
<1>7. ASSUME NEW i \in 1 .. N PROVE \E k \in 1 .. N : sorted[k] = paths[i]
  <2>1. PICK k \in 1 .. N : Place(paths, i) = k
    <3>1. Place(paths, i) \in 1 .. N
      BY <1>3
    <3> QED
      BY <3>1
  <2>2. at(k) = i
    BY <1>3, <1>4, <2>1
  <2> QED
    BY <1>2, <2>2
<1> QED
  BY <1>1, <1>5, <1>6, <1>7 DEF N, sorted

-----------------------------------------------------------------------------
(* The invariant.                                                          *)

EntryRecords == [node : FileNodes, stage : Nat, valid : BOOLEAN]

ProgramTyped ==
  /\ fs \in [FileNodes -> Kinds] /\ WellFormed(fs)
  /\ touched \subseteq FileNodes
  /\ target \in FileNodes \cup {0} /\ (command # "batch" => target \in FileNodes)
  /\ phase \in {"manifest", "record", "dispatch", "walk", "files", "done"}
  /\ stack \in Seq(FileNodes \cup {0})
  /\ pending \subseteq FileNodes \X Kinds
  /\ files \in Seq(FileNodes)
  /\ entries \in Seq(EntryRecords)
  /\ ioError \in BOOLEAN
  /\ exit \in {NoValue, 0, 1, 2, 3}
  /\ exit = NoValue <=> phase # "done"

\* What is below a changed node counts as changed.
TouchedBelow == \A m \in FileNodes : \A a \in Ancestors(m) : a \in touched => m \in touched

PhasesInOrder ==
  /\ phase \in {"manifest", "record", "dispatch"} =>
       stack = <<>> /\ pending = {} /\ files = <<>> /\ entries = <<>>
  /\ phase \in {"walk", "files"} => command = "batch"
  /\ phase = "walk" => entries = <<>>
  /\ phase = "files" => stack = <<>> /\ pending = {}

Stacked == {stack[i] : i \in DOMAIN stack}
Waiting == {e[1] : e \in pending}
Frontier == Stacked \cup Waiting

\* What is still to be read: no node twice, none below another, and no file
\* that was found below one of them.
FrontierApart ==
  /\ \A i, j \in DOMAIN stack : stack[i] = stack[j] => i = j
  /\ \A e, g \in pending : e[1] = g[1] => e = g
  /\ Stacked \cap Waiting = {}
  /\ \A x, y \in Frontier : x \in Ancestors(y) => x = y
  /\ \A i, j \in DOMAIN files : files[i] = files[j] => i = j
  /\ \A i \in DOMAIN files : \A x \in Frontier : x \notin Ancestors(files[i])

\* What was read of a node nobody touched is still so.
ReadingHolds ==
  /\ \A e \in pending : e[1] \notin touched => e[2] = fs[e[1]]
  /\ \A x \in Stacked : x \notin touched => IsDirectory(x)
  /\ \A i \in DOMAIN entries : entries[i].node \notin touched => entries[i] = Entry(entries[i].node)

InFiles(n) == \E i \in DOMAIN files : files[i] = n
InEntries(n) == \E i \in DOMAIN entries : entries[i].node = n

\* A file nobody touches is in the report, in the list, or below what is still to be read.
SteadyKept ==
  /\ phase = "walk" => \A n \in Steady : InFiles(n) \/ \E x \in Frontier : x \in Ancestors(n)
  /\ phase = "files" => \A n \in Steady : InFiles(n) \/ InEntries(n)
  /\ phase = "done" /\ BatchReported =>
       /\ \A n \in Steady : InEntries(n)
       /\ exit = 0 => \A i \in DOMAIN entries : entries[i].valid

InPathOrder ==
  /\ \A i, j \in DOMAIN entries : i < j => entries[i].node < entries[j].node
  /\ phase = "files" =>
       /\ \A i, j \in DOMAIN files : i < j => files[i] < files[j]
       /\ \A i \in DOMAIN entries : \A j \in DOMAIN files : entries[i].node < files[j]

ProgramInv ==
  /\ ProgramTyped
  /\ TouchedBelow
  /\ PhasesInOrder
  /\ phase = "walk" => FrontierApart
  /\ ReadingHolds
  /\ SteadyKept
  /\ InPathOrder
  /\ SingleZeroIsEarned

LEMMA EntryTyped ==
  ASSUME NEW n \in FileNodes, fs[n] \in Kinds
  PROVE  Entry(n) \in EntryRecords /\ Entry(n).node = n
BY DEF Entry, EntryRecords, Stage, Valid, Documents

LEMMA StartsRight == ProgramInit => ProgramInv
<1> SUFFICES ASSUME ProgramInit PROVE ProgramInv
  OBVIOUS
<1>1. ProgramTyped
  <2>1. fs \in [FileNodes -> Kinds] /\ WellFormed(fs) /\ touched = {}
    BY DEF ProgramInit
  <2>2. target \in FileNodes \cup {0} /\ (command # "batch" => target \in FileNodes)
    BY TargetsAssumption DEF ProgramInit, FileNodes
  <2>3. /\ phase = "manifest" /\ stack = <<>> /\ pending = {} /\ files = <<>> /\ entries = <<>>
        /\ ioError = FALSE /\ exit = NoValue
    BY DEF ProgramInit
  <2>4. stack \in Seq(FileNodes \cup {0}) /\ files \in Seq(FileNodes) /\ entries \in Seq(EntryRecords)
    BY <2>3
  <2> QED
    BY <2>1, <2>2, <2>3, <2>4 DEF ProgramTyped
<1>2. phase = "manifest" /\ exit = NoValue /\ stack = <<>> /\ pending = {} /\ files = <<>>
      /\ entries = <<>> /\ touched = {}
  BY DEF ProgramInit
<1>3. TouchedBelow /\ PhasesInOrder /\ SteadyKept
  BY <1>2 DEF TouchedBelow, PhasesInOrder, SteadyKept
<1>4. ReadingHolds /\ InPathOrder
  BY <1>2 DEF ReadingHolds, InPathOrder, Stacked
<1>5. SingleZeroIsEarned
  BY <1>2 DEF SingleZeroIsEarned, Finished
<1> QED
  BY <1>1, <1>2, <1>3, <1>4, <1>5 DEF ProgramInv

\* What the invariant says of the tree and of the nodes read stays when both do.
LEMMA OutsideStays ==
  ASSUME ProgramTyped, TouchedBelow, UNCHANGED Outside
  PROVE  /\ fs' \in [FileNodes -> Kinds] /\ WellFormed(fs)' /\ touched' \subseteq FileNodes
         /\ target' \in FileNodes \cup {0} /\ (command' # "batch" => target' \in FileNodes)
         /\ TouchedBelow' /\ Steady' = Steady
         /\ \A n : Entry(n)' = Entry(n) /\ (IsDirectory(n)' <=> IsDirectory(n))
         /\ fs' = fs /\ touched' = touched /\ command' = command /\ manifest' = manifest
<1>1. fs' = fs /\ touched' = touched /\ command' = command /\ manifest' = manifest /\ target' = target
  BY DEF Outside, given
<1>2. WellFormed(fs)' /\ TouchedBelow'
  BY <1>1 DEF ProgramTyped, WellFormed, TouchedBelow
<1>3. Steady' = Steady
  BY <1>1 DEF Steady
<1>4. \A n : Entry(n)' = Entry(n) /\ (IsDirectory(n)' <=> IsDirectory(n))
  BY <1>1 DEF Entry, Stage, Valid, IsDirectory
<1> QED
  BY <1>1, <1>2, <1>3, <1>4 DEF ProgramTyped

-----------------------------------------------------------------------------
(* Each step keeps it.                                                     *)

LEMMA SettlingKeeps ==
  ASSUME ProgramInv, SettleTrustRoot \/ ReadRecord \/ Help
  PROVE  ProgramInv'
<1>1. ProgramTyped /\ TouchedBelow /\ PhasesInOrder
  BY DEF ProgramInv
<1>2. /\ phase \in {"manifest", "record", "dispatch"} /\ UNCHANGED Outside
      /\ UNCHANGED <<stack, pending, files, entries>>
      /\ \/ phase' \in {"record", "dispatch"} /\ exit' = exit /\ ioError' = ioError
         \/ phase' = "done" /\ exit' \in {1, 2} /\ ioError' \in BOOLEAN /\ (exit' = 1 => ioError')
  <2>0. ASSUME FailWith(TRUE)
        PROVE  phase' = "done" /\ exit' \in {1, 2} /\ ioError' \in BOOLEAN /\ (exit' = 1 => ioError')
    BY <2>0 DEF FailWith, Exit
  <2>00. ASSUME Exit(2), UNCHANGED ioError
         PROVE  phase' = "done" /\ exit' \in {1, 2} /\ ioError' \in BOOLEAN /\ (exit' = 1 => ioError')
    <3>1. ioError \in BOOLEAN
      BY <1>1 DEF ProgramTyped
    <3> QED
      BY <2>00, <3>1 DEF Exit
  <2>1. CASE SettleTrustRoot
    BY <2>0, <2>00, <2>1, Zenon DEF SettleTrustRoot
  <2>2. CASE ReadRecord
    BY <2>0, <2>00, <2>2, Zenon DEF ReadRecord
  <2>3. CASE Help
    BY <1>1, <2>3 DEF Help, Exit, ProgramTyped
  <2> QED
    BY <2>1, <2>2, <2>3
<1>3. stack' = <<>> /\ pending' = {} /\ files' = <<>> /\ entries' = <<>>
  BY <1>1, <1>2 DEF PhasesInOrder
<1>4. phase # "done" /\ phase' \notin {"walk", "files"}
  BY <1>2
<1>5. ProgramTyped'
  <2>1. exit' \in {NoValue, 0, 1, 2, 3} /\ (exit' = NoValue <=> phase' # "done") /\ ioError' \in BOOLEAN
        /\ phase' \in {"manifest", "record", "dispatch", "walk", "files", "done"}
    BY <1>1, <1>2, ExitAssumption DEF ProgramTyped
  <2>2. stack' \in Seq(FileNodes \cup {0}) /\ files' \in Seq(FileNodes) /\ entries' \in Seq(EntryRecords)
        /\ pending' \subseteq FileNodes \X Kinds
    BY <1>3
  <2> QED
    BY <1>1, <1>2, <2>1, <2>2, OutsideStays DEF ProgramTyped
<1>6. TouchedBelow'
  BY <1>1, <1>2, OutsideStays
<1>7. PhasesInOrder' /\ ReadingHolds' /\ InPathOrder'
  BY <1>3, <1>4 DEF PhasesInOrder, ReadingHolds, InPathOrder, Stacked
<1>8. SteadyKept'
  <2>1. ~(phase' = "done" /\ BatchReported')
    BY <1>2 DEF BatchReported
  <2> QED
    BY <1>4, <2>1 DEF SteadyKept
<1>9. SingleZeroIsEarned'
  <2>1. CASE exit' = exit
    BY <1>1, <1>4, <2>1 DEF SingleZeroIsEarned, Finished, ProgramTyped
  <2>2. CASE exit' \in {1, 2}
    BY <1>3, <2>2 DEF SingleZeroIsEarned, Finished
  <2> QED
    BY <1>2, <2>1, <2>2
<1> QED
  BY <1>4, <1>5, <1>6, <1>7, <1>8, <1>9 DEF ProgramInv

LEMMA VerifyPathKeeps ==
  ASSUME ProgramInv, VerifyPath
  PROVE  ProgramInv'
<1>1. ProgramTyped /\ TouchedBelow /\ PhasesInOrder
  BY DEF ProgramInv
<1>2. /\ phase = "dispatch" /\ command = "verify" /\ UNCHANGED Outside
      /\ stack' = stack /\ pending' = pending /\ files' = files /\ phase' = "done"
  BY DEF VerifyPath, FailWith, Exit
<1>3. stack' = <<>> /\ pending' = {} /\ files' = <<>> /\ entries = <<>>
  BY <1>1, <1>2 DEF PhasesInOrder
<1>4. \/ /\ fs[target] \in Documents /\ entries' = <<Entry(target)>> /\ ioError' = ioError
         /\ exit' = ExitOf(Stage(fs[target]), Valid(fs[target]))
      \/ entries' = <<>> /\ exit' = 1 /\ ioError' \in BOOLEAN
  <2>1. CASE fs[target] \in Documents
    BY <2>1 DEF VerifyPath, Exit
  <2>2. CASE fs[target] \notin Documents
    BY <1>1, <1>3, <2>2 DEF VerifyPath, FailWith, Exit, ProgramTyped
  <2> QED
    BY <2>1, <2>2
<1>5. target \in FileNodes /\ fs[target] \in Kinds /\ ioError \in BOOLEAN
  BY <1>1, <1>2 DEF ProgramTyped
<1>6. Entry(target) \in EntryRecords /\ Entry(target).node = target
  BY <1>5, EntryTyped
<1>7. /\ \A n : Entry(n)' = Entry(n)
      /\ TouchedBelow' /\ command' = command /\ manifest' = manifest
  BY <1>1, <1>2, OutsideStays
<1>8. /\ entries' \in Seq(EntryRecords) /\ Len(entries') \in {0, 1} /\ DOMAIN entries' = 1 .. Len(entries')
      /\ \A i \in DOMAIN entries' : entries'[i] = Entry(target)
  <2>1. CASE entries' = <<>>
    BY <2>1
  <2>2. CASE entries' = <<Entry(target)>>
    <3> DEFINE entry == Entry(target)
    <3>1. entry \in EntryRecords /\ entries' = <<entry>>
      BY <1>6, <2>2
    <3> HIDE DEF entry
    <3>2. /\ entries' \in Seq(EntryRecords) /\ Len(entries') = 1 /\ DOMAIN entries' = 1 .. 1
          /\ entries'[1] = entry
      BY <3>1
    <3> QED
      BY <3>2 DEF entry
  <2> QED
    BY <1>4, <2>1, <2>2
<1>9. exit' \in 0 .. 3
  BY <1>4 DEF ExitOf
<1>10. ProgramTyped'
  <2>1. exit' \in {NoValue, 0, 1, 2, 3} /\ exit' # NoValue /\ ioError' \in BOOLEAN
    BY <1>4, <1>5, <1>9, ExitAssumption
  <2>2. stack' \in Seq(FileNodes \cup {0}) /\ files' \in Seq(FileNodes) /\ pending' \subseteq FileNodes \X Kinds
    BY <1>3
  <2> QED
    BY <1>1, <1>2, <1>8, <2>1, <2>2, OutsideStays DEF ProgramTyped
<1>11. PhasesInOrder'
  BY <1>2 DEF PhasesInOrder
<1>12. ReadingHolds'
  BY <1>3, <1>6, <1>7, <1>8 DEF ReadingHolds, Stacked
<1>13. SteadyKept'
  BY <1>2, <1>7 DEF SteadyKept, BatchReported
<1>14. InPathOrder'
  BY <1>2, <1>8 DEF InPathOrder
<1>15. SingleZeroIsEarned'
  <2>1. CASE entries' = <<>> /\ exit' = 1
    BY <2>1 DEF SingleZeroIsEarned
  <2>2. CASE /\ fs[target] \in Documents /\ entries' = <<Entry(target)>>
             /\ exit' = ExitOf(Stage(fs[target]), Valid(fs[target]))
    <3>1. Entry(target) = [node |-> target, stage |-> Stage(fs[target]), valid |-> Valid(fs[target])]
      BY <2>2 DEF Entry
    <3>2. entries' # <<>> /\ entries'[1].stage = Stage(fs[target]) /\ entries'[1].valid = Valid(fs[target])
      BY <2>2, <3>1
    <3>3. exit' = 0 => Stage(fs[target]) >= (IF manifest = "verified" THEN 8 ELSE 7)
      BY <2>2 DEF ExitOf, Stage, Valid, Documents
    <3>4. exit' = 3 <=> Valid(fs[target]) /\ Stage(fs[target]) < 7
      BY <2>2 DEF ExitOf, Stage, Valid, Documents
    <3> HIDE DEF SingleZeroIsEarned
    <3> QED
      BY <1>7, <3>2, <3>3, <3>4 DEF SingleZeroIsEarned
  <2> QED
    BY <1>4, <2>1, <2>2
<1> QED
  BY <1>2, <1>7, <1>10, <1>11, <1>12, <1>13, <1>14, <1>15 DEF ProgramInv

LEMMA StartBatchKeeps ==
  ASSUME ProgramInv, StartBatch
  PROVE  ProgramInv'
<1>1. ProgramTyped /\ TouchedBelow /\ PhasesInOrder
  BY DEF ProgramInv
<1>2. /\ phase = "dispatch" /\ command = "batch" /\ UNCHANGED Outside
      /\ pending' = pending /\ files' = files /\ entries' = entries
      /\ \/ IsDirectory(target) /\ phase' = "walk" /\ stack' = <<target>> /\ ioError' = ioError /\ exit' = exit
         \/ phase' = "done" /\ exit' = 1 /\ ioError' = TRUE /\ stack' = stack
  BY <1>1 DEF StartBatch, FailWith, Exit, ProgramTyped
<1>3. pending' = {} /\ files' = <<>> /\ entries' = <<>> /\ stack = <<>>
  BY <1>1, <1>2 DEF PhasesInOrder
<1>4. /\ \A n : (IsDirectory(n)' <=> IsDirectory(n))
      /\ TouchedBelow' /\ command' = command /\ Steady' = Steady
  BY <1>1, <1>2, OutsideStays
<1>5. target \in FileNodes \cup {0} /\ exit \in {NoValue, 0, 1, 2, 3} /\ exit = NoValue /\ ioError \in BOOLEAN
  BY <1>1, <1>2 DEF ProgramTyped
<1>6. /\ stack' \in Seq(FileNodes \cup {0}) /\ Len(stack') \in {0, 1} /\ DOMAIN stack' = 1 .. Len(stack')
      /\ \A i \in DOMAIN stack' : stack'[i] = target /\ IsDirectory(target)
      /\ phase' = "walk" => 1 \in DOMAIN stack'
  <2>1. CASE stack' = <<target>> /\ IsDirectory(target)
    BY <1>5, <2>1
  <2>2. CASE stack' = <<>> /\ phase' = "done"
    BY <2>2
  <2> QED
    BY <1>2, <1>3, <2>1, <2>2
<1>7. ProgramTyped'
  <2>1. exit' \in {NoValue, 0, 1, 2, 3} /\ (exit' = NoValue <=> phase' # "done") /\ ioError' \in BOOLEAN
        /\ phase' \in {"manifest", "record", "dispatch", "walk", "files", "done"}
    <3>1. CASE phase' = "walk" /\ ioError' = ioError /\ exit' = exit
      BY <1>5, <3>1
    <3>2. CASE phase' = "done" /\ exit' = 1 /\ ioError' = TRUE
      <4>1. NoValue # 1
        BY ExitAssumption
      <4> QED
        BY <3>2, <4>1
    <3> QED
      BY <1>2, <3>1, <3>2
  <2>2. files' \in Seq(FileNodes) /\ entries' \in Seq(EntryRecords) /\ pending' \subseteq FileNodes \X Kinds
    BY <1>3
  <2> QED
    BY <1>1, <1>2, <1>6, <2>1, <2>2, OutsideStays DEF ProgramTyped
<1>8. PhasesInOrder'
  BY <1>2, <1>3, <1>4 DEF PhasesInOrder
<1>9. ReadingHolds'
  BY <1>3, <1>4, <1>6 DEF ReadingHolds, Stacked
<1>10. Frontier' \subseteq {target} /\ (phase' = "walk" => Frontier' = {target})
  BY <1>3, <1>6 DEF Frontier, Stacked, Waiting
<1>11. FrontierApart'
  <2>1. \A i, j \in DOMAIN stack' : i = j
    BY <1>6
  <2>2. Waiting' = {} /\ DOMAIN files' = {}
    BY <1>3 DEF Waiting
  <2> QED
    BY <1>3, <1>10, <2>1, <2>2 DEF FrontierApart
<1>12. SteadyKept'
  <2>1. \A n \in Steady' : target \in Ancestors(n)
    BY <1>4 DEF Steady
  <2>2. ~(phase' = "done" /\ BatchReported')
    BY <1>2 DEF BatchReported
  <2>3. phase' # "files"
    BY <1>2
  <2> QED
    BY <1>10, <2>1, <2>2, <2>3 DEF SteadyKept
<1>13. InPathOrder'
  BY <1>2, <1>3 DEF InPathOrder
<1>14. SingleZeroIsEarned'
  BY <1>2, <1>4 DEF SingleZeroIsEarned
<1> QED
  BY <1>4, <1>7, <1>8, <1>9, <1>11, <1>12, <1>13, <1>14 DEF ProgramInv

\* A run that ends in an I/O error reports nothing.
LEMMA FailureKeeps ==
  ASSUME ProgramInv, phase = "walk", UNCHANGED Outside, FailWith(TRUE),
         UNCHANGED <<stack, pending, files, entries>>
  PROVE  ProgramInv'
<1>1. ProgramTyped /\ TouchedBelow /\ PhasesInOrder /\ ReadingHolds /\ InPathOrder
  BY DEF ProgramInv
<1>2. phase' = "done" /\ exit' = 1 /\ ioError' \in BOOLEAN /\ ioError'
  BY DEF FailWith, Exit
<1>3. stack' = stack /\ pending' = pending /\ files' = files /\ entries' = entries /\ NoValue # 1
  BY ExitAssumption
<1>4. /\ \A n : Entry(n)' = Entry(n) /\ (IsDirectory(n)' <=> IsDirectory(n))
      /\ fs' = fs /\ touched' = touched /\ TouchedBelow' /\ command' = command
  BY <1>1, OutsideStays
<1>5. ProgramTyped'
  BY <1>1, <1>2, <1>3, OutsideStays DEF ProgramTyped
<1>6. ReadingHolds'
  BY <1>1, <1>3, <1>4 DEF ReadingHolds, Stacked
<1>7. InPathOrder'
  BY <1>1, <1>2, <1>3 DEF InPathOrder
<1>8. PhasesInOrder' /\ SteadyKept'
  BY <1>2 DEF PhasesInOrder, SteadyKept, BatchReported
<1>9. command' # "verify"
  BY <1>1, <1>4 DEF PhasesInOrder
<1>10. SingleZeroIsEarned'
  BY <1>9 DEF SingleZeroIsEarned
<1> QED
  BY <1>2, <1>4, <1>5, <1>6, <1>7, <1>8, <1>10 DEF ProgramInv

\* While the walk goes on, what a step has to show.
LEMMA WalkKeeps ==
  ASSUME ProgramInv, phase = "walk", phase' = "walk", UNCHANGED Outside,
         UNCHANGED <<entries, ioError, exit>>,
         stack' \in Seq(FileNodes \cup {0}), files' \in Seq(FileNodes),
         pending' \subseteq FileNodes \X Kinds, FrontierApart',
         \A e \in pending' : e[1] \notin touched => e[2] = fs[e[1]],
         \A x \in Stacked' : x \notin touched => IsDirectory(x),
         \A n \in Steady : InFiles(n)' \/ \E x \in Frontier' : x \in Ancestors(n)
  PROVE  ProgramInv'
<1>1. ProgramTyped /\ TouchedBelow /\ PhasesInOrder /\ ReadingHolds /\ InPathOrder
  BY DEF ProgramInv
<1>2. entries' = entries /\ entries = <<>> /\ exit' = exit /\ ioError' = ioError /\ command = "batch"
  BY <1>1 DEF PhasesInOrder
<1>3. /\ \A n : Entry(n)' = Entry(n) /\ (IsDirectory(n)' <=> IsDirectory(n))
      /\ fs' = fs /\ touched' = touched /\ TouchedBelow' /\ command' = command /\ Steady' = Steady
  BY <1>1, OutsideStays
<1>4. ProgramTyped'
  BY <1>1, <1>2, OutsideStays DEF ProgramTyped
<1>5. PhasesInOrder'
  BY <1>2, <1>3 DEF PhasesInOrder
<1>6. ReadingHolds'
  BY <1>2, <1>3 DEF ReadingHolds
<1>7. InPathOrder'
  BY <1>2 DEF InPathOrder
<1>8. SteadyKept'
  BY <1>3 DEF SteadyKept
<1>9. SingleZeroIsEarned'
  BY <1>2, <1>3 DEF SingleZeroIsEarned
<1> QED
  BY <1>3, <1>4, <1>5, <1>6, <1>7, <1>8, <1>9 DEF ProgramInv

LEMMA OpenDirectoryKeeps ==
  ASSUME ProgramInv, OpenDirectory
  PROVE  ProgramInv'
<1> DEFINE d == Last(stack)
<1>1. ProgramTyped /\ TouchedBelow /\ PhasesInOrder /\ FrontierApart /\ ReadingHolds /\ SteadyKept
  BY DEF ProgramInv, OpenDirectory
<1>2. phase = "walk" /\ pending = {} /\ stack # <<>> /\ UNCHANGED Outside /\ files' = files
      /\ entries' = entries
  BY DEF OpenDirectory
<1>3. CASE ~IsDirectory(d)
  <2>1. FailWith(TRUE) /\ UNCHANGED <<stack, pending>>
    BY <1>3 DEF OpenDirectory
  <2> QED
    BY <1>2, <2>1, FailureKeeps
<1>4. CASE IsDirectory(d)
  <2>1. /\ stack' = Front(stack) /\ phase' = phase /\ ioError' = ioError /\ exit' = exit
        /\ pending' = {<<n, fs[n]>> : n \in {m \in FileNodes : Parent[m] = d /\ fs[m] # "missing"}}
    BY <1>4 DEF OpenDirectory
  <2> DEFINE L == Len(stack)
  <2>2. /\ L \in Nat /\ L >= 1 /\ stack' \in Seq(FileNodes \cup {0})
        /\ DOMAIN stack = 1 .. L /\ DOMAIN stack' = 1 .. L - 1
        /\ \A i \in 1 .. L - 1 : stack'[i] = stack[i]
        /\ d = stack[L] /\ d \in FileNodes \cup {0}
    BY <1>1, <1>2, <2>1 DEF ProgramTyped, Front, Last
  <2>3. /\ Waiting = {} /\ Frontier = Stacked /\ d \in Stacked
        /\ Stacked' \subseteq Stacked /\ d \notin Stacked' /\ \A x \in Stacked : x = d \/ x \in Stacked'
    <3>1. Waiting = {} /\ Frontier = Stacked
      BY <1>2 DEF Waiting, Frontier
    <3>2. d \in Stacked /\ Stacked' \subseteq Stacked
      BY <2>2 DEF Stacked
    <3>3. d \notin Stacked'
      BY <1>1, <2>2 DEF Stacked, FrontierApart
    <3>4. \A i \in 1 .. L : i = L \/ i \in 1 .. L - 1
      <4>1. L \in Nat
        BY <2>2
      <4> HIDE DEF L
      <4> QED
        BY ONLY <4>1
    <3>5. \A x \in Stacked : x = d \/ x \in Stacked'
      BY <2>2, <3>4 DEF Stacked
    <3> QED
      BY <3>1, <3>2, <3>3, <3>5
  <2>4. \A e \in pending' : /\ e[1] \in FileNodes /\ e[2] = fs[e[1]] /\ e = <<e[1], fs[e[1]]>>
                            /\ Parent[e[1]] = d /\ e \in FileNodes \X Kinds
    BY <1>1, <2>1 DEF ProgramTyped
  <2> HIDE DEF d
  <2>5. \A y \in Waiting' : /\ y \in FileNodes /\ Ancestors(y) = {y} \cup Ancestors(d) /\ d \in Ancestors(y)
                            /\ y \notin Ancestors(d) /\ y # d
    <3> SUFFICES ASSUME NEW y \in Waiting'
                 PROVE  /\ y \in FileNodes /\ Ancestors(y) = {y} \cup Ancestors(d) /\ d \in Ancestors(y)
                        /\ y \notin Ancestors(d) /\ y # d
      OBVIOUS
    <3>1. y \in FileNodes /\ Parent[y] = d
      BY <2>4 DEF Waiting
    <3>2. d < y /\ y \in Nat /\ d \in Nat
      BY <3>1, NodesAre
    <3>3. Ancestors(y) = {y} \cup Ancestors(d)
      BY <3>1, AncestorsUnfold
    <3>4. d \in Ancestors(d) /\ \A a \in Ancestors(d) : a <= d
      BY <2>2, AncestorsOrder
    <3> QED
      BY <3>1, <3>2, <3>3, <3>4
  <2>6. FrontierApart'
    <3>1. \A i, j \in DOMAIN stack' : stack'[i] = stack'[j] => i = j
      BY <1>1, <2>2 DEF FrontierApart
    <3>2. \A e, g \in pending' : e[1] = g[1] => e = g
      BY <2>4
    <3>3. \A x \in Stacked : \A y \in Waiting' : x # y /\ y \notin Ancestors(x) /\ (x \in Ancestors(y) => x = d)
      <4> SUFFICES ASSUME NEW x \in Stacked, NEW y \in Waiting'
                   PROVE  x # y /\ y \notin Ancestors(x) /\ (x \in Ancestors(y) => x = d)
        OBVIOUS
      <4>1. x \in FileNodes \cup {0} /\ x \in Ancestors(x)
        <5>1. x \in FileNodes \cup {0}
          BY <1>1, <2>2 DEF Stacked, ProgramTyped
        <5> QED
          BY <5>1, AncestorsOrder
      <4>2. y \in Ancestors(x) => d \in Ancestors(x)
        BY <2>5, <4>1, AncestorsOrder
      <4>3. d \in Ancestors(x) => d = x
        BY <1>1, <2>3 DEF FrontierApart
      <4>4. x \in Ancestors(d) => x = d
        BY <1>1, <2>3 DEF FrontierApart
      <4> QED
        BY <2>5, <4>1, <4>2, <4>3, <4>4
    <3>4. \A x, y \in Waiting' : x \in Ancestors(y) => x = y
      BY <2>5
    <3>5. \A x, y \in Frontier' : x \in Ancestors(y) => x = y
      <4>1. \A x, y \in Stacked' : x \in Ancestors(y) => x = y
        BY <1>1, <2>3 DEF FrontierApart
      <4>2. \A x : x \in Frontier' <=> x \in Stacked' \/ x \in Waiting'
        BY DEF Frontier
      <4> QED
        BY <2>3, <3>3, <3>4, <4>1, <4>2
    <3>6. \A i \in DOMAIN files : \A x \in Frontier' : x \notin Ancestors(files[i])
      <4> SUFFICES ASSUME NEW i \in DOMAIN files, NEW x \in Frontier', x \in Ancestors(files[i])
                   PROVE  FALSE
        OBVIOUS
      <4>1. x \notin Stacked
        BY <1>1, <2>3 DEF FrontierApart
      <4>2. x \in Waiting'
        BY <2>3, <4>1 DEF Frontier
      <4>3. files[i] \in FileNodes \cup {0}
        BY <1>1 DEF ProgramTyped
      <4>4. d \in Ancestors(files[i])
        BY <2>5, <4>2, <4>3, AncestorsOrder
      <4> QED
        BY <1>1, <2>3, <4>4 DEF FrontierApart
    <3>7. \A i, j \in DOMAIN files : files[i] = files[j] => i = j
      BY <1>1 DEF FrontierApart
    <3>8. Stacked' \cap Waiting' = {}
      BY <2>3, <3>3
    <3> QED
      BY <1>2, <3>1, <3>2, <3>5, <3>6, <3>7, <3>8 DEF FrontierApart
  <2>7. ASSUME NEW n \in Steady
        PROVE  InFiles(n)' \/ \E x \in Frontier' : x \in Ancestors(n)
    <3>1. CASE InFiles(n)
      BY <1>2, <3>1 DEF InFiles
    <3>2. CASE \E x \in Frontier : x \in Ancestors(n)
      <4>1. PICK x \in Stacked : x \in Ancestors(n)
        BY <2>3, <3>2
      <4>2. CASE x # d
        BY <2>3, <4>1, <4>2 DEF Frontier
      <4>3. CASE x = d
        <5>1. n \in FileNodes /\ fs[n] \in Files /\ fs[n] \in Kinds /\ n # 0
          BY <1>1, NodesAre DEF Steady, ProgramTyped
        <5>2. fs[n] # "missing" /\ fs[n] # "directory"
          BY <5>1 DEF Files, Documents
        <5>3. d # n
          BY <1>4, <5>1, <5>2 DEF IsDirectory
        <5>4. PICK c \in Ancestors(n) : c \in FileNodes /\ Parent[c] = d
          BY <4>1, <4>3, <5>1, <5>3, NextOnTheWay
        <5>5. fs[c] # "missing"
          <6>1. CASE c = n
            BY <5>2, <6>1
          <6>2. CASE c # n
            <7>1. c # 0 /\ WellFormed(fs)
              BY <1>1, <5>4, NodesAre DEF ProgramTyped
            <7>2. fs[c] = "directory"
              BY <5>1, <5>2, <5>4, <6>2, <7>1, InDirectories
            <7> QED
              BY <7>2
          <6> QED
            BY <6>1, <6>2
        <5>6. <<c, fs[c]>> \in pending'
          BY <2>1, <5>4, <5>5
        <5>7. c \in Waiting'
          BY <5>6 DEF Waiting
        <5> QED
          BY <5>4, <5>7 DEF Frontier
      <4> QED
        BY <4>2, <4>3
    <3> QED
      BY <1>1, <1>2, <3>1, <3>2 DEF SteadyKept
  <2>8. pending' \subseteq FileNodes \X Kinds /\ files' \in Seq(FileNodes)
    BY <1>1, <1>2, <2>4 DEF ProgramTyped
  <2>9. \A x \in Stacked' : x \notin touched => IsDirectory(x)
    BY <1>1, <2>3 DEF ReadingHolds
  <2>10. \A e \in pending' : e[1] \notin touched => e[2] = fs[e[1]]
    BY <2>4
  <2> QED
    BY <1>2, <2>1, <2>2, <2>6, <2>7, <2>8, <2>9, <2>10, WalkKeeps
<1> QED
  BY <1>3, <1>4

LEMMA ReadEntryKeeps ==
  ASSUME ProgramInv, NEW e \in pending, ReadEntry(e)
  PROVE  ProgramInv'
<1> DEFINE p == e[1]
<1>1. ProgramTyped /\ TouchedBelow /\ PhasesInOrder /\ FrontierApart /\ ReadingHolds /\ SteadyKept
  BY DEF ProgramInv, ReadEntry
<1>2. /\ phase = "walk" /\ phase' = "walk" /\ UNCHANGED Outside /\ UNCHANGED <<entries, ioError, exit>>
      /\ pending' = pending \ {e}
      /\ stack' = IF e[2] = "directory" THEN Append(stack, p) ELSE stack
      /\ files' = IF e[2] \in Files THEN Append(files, p) ELSE files
  BY DEF ReadEntry
<1>3. p \in FileNodes /\ e[2] \in Kinds /\ "directory" \notin Files
  BY <1>1 DEF ProgramTyped, Files, Documents
<1> HIDE DEF p
<1>4. p \in Waiting /\ p \in Frontier /\ p \notin Stacked
  BY <1>1 DEF Waiting, Frontier, FrontierApart, p
<1>5. /\ Waiting' \subseteq Waiting /\ p \notin Waiting' /\ \A x \in Waiting : x = p \/ x \in Waiting'
  BY <1>1, <1>2 DEF Waiting, FrontierApart, p
<1>6. /\ stack' \in Seq(FileNodes \cup {0})
      /\ e[2] = "directory" => /\ Stacked' = Stacked \cup {p}
                               /\ \A i, j \in DOMAIN stack' : stack'[i] = stack'[j] => i = j
      /\ e[2] # "directory" => Stacked' = Stacked /\ stack' = stack
  <2>1. stack \in Seq(FileNodes \cup {0})
    BY <1>1 DEF ProgramTyped
  <2>2. CASE e[2] = "directory"
    <3>1. /\ stack' \in Seq(FileNodes \cup {0}) /\ DOMAIN stack' = 1 .. Len(stack) + 1
          /\ Len(stack) \in Nat /\ DOMAIN stack = 1 .. Len(stack)
          /\ \A i \in 1 .. Len(stack) : stack'[i] = stack[i]
          /\ stack'[Len(stack) + 1] = p
      BY <1>2, <1>3, <2>1, <2>2
    <3>2. Stacked' = Stacked \cup {p}
      BY <3>1 DEF Stacked
    <3>3. \A i \in 1 .. Len(stack) : stack[i] # p
      BY <1>4, <3>1 DEF Stacked
    <3>4. \A i, j \in DOMAIN stack : stack[i] = stack[j] => i = j
      BY <1>1 DEF FrontierApart
    <3>5. \A i, j \in DOMAIN stack' : stack'[i] = stack'[j] => i = j
      BY <3>1, <3>3, <3>4
    <3> QED
      BY <2>2, <3>1, <3>2, <3>5
  <2>3. CASE e[2] # "directory"
    BY <1>2, <2>1, <2>3 DEF Stacked
  <2> QED
    BY <2>2, <2>3
<1>7. /\ files' \in Seq(FileNodes)
      /\ e[2] \in Files => /\ DOMAIN files' = 1 .. Len(files) + 1 /\ files'[Len(files) + 1] = p
                           /\ \A i \in DOMAIN files : i \in DOMAIN files' /\ files'[i] = files[i]
                           /\ \A i \in DOMAIN files' : i = Len(files) + 1 \/ i \in DOMAIN files
      /\ e[2] \notin Files => files' = files
  <2>1. files \in Seq(FileNodes)
    BY <1>1 DEF ProgramTyped
  <2>2. CASE e[2] \in Files
    BY <1>2, <1>3, <2>1, <2>2
  <2>3. CASE e[2] \notin Files
    BY <1>2, <2>1, <2>3
  <2> QED
    BY <2>2, <2>3
<1>8. Frontier' \subseteq Frontier /\ (e[2] # "directory" => p \notin Frontier')
  BY <1>4, <1>5, <1>6 DEF Frontier
<1>9. /\ \A x \in Frontier : x = p \/ x \in Frontier'
      /\ e[2] = "directory" => p \in Frontier'
  BY <1>5, <1>6 DEF Frontier
<1>10. FrontierApart'
  <2>1. \A i, j \in DOMAIN stack' : stack'[i] = stack'[j] => i = j
    BY <1>1, <1>6 DEF FrontierApart
  <2>2. \A g, h \in pending' : g[1] = h[1] => g = h
    BY <1>1, <1>2 DEF FrontierApart
  <2>3. Stacked' \cap Waiting' = {}
    BY <1>1, <1>5, <1>6 DEF FrontierApart
  <2>4. \A x, y \in Frontier' : x \in Ancestors(y) => x = y
    BY <1>1, <1>8 DEF FrontierApart
  <2>5. CASE e[2] \in Files
    <3>1. \A i \in DOMAIN files : files[i] # p
      <4>1. p \in Ancestors(p)
        BY <1>3, AncestorsOrder
      <4> QED
        BY <1>1, <1>4, <4>1 DEF FrontierApart
    <3>2. \A i, j \in DOMAIN files' : files'[i] = files'[j] => i = j
      <4>1. \A i, j \in DOMAIN files : files[i] = files[j] => i = j
        BY <1>1 DEF FrontierApart
      <4> QED
        BY <1>7, <2>5, <3>1, <4>1
    <3>3. \A x \in Frontier' : x \notin Ancestors(p)
      BY <1>1, <1>3, <1>4, <1>8, <2>5 DEF FrontierApart
    <3>4. \A i \in DOMAIN files : \A x \in Frontier' : x \notin Ancestors(files[i])
      BY <1>1, <1>8 DEF FrontierApart
    <3>5. \A i \in DOMAIN files' : \A x \in Frontier' : x \notin Ancestors(files'[i])
      BY <1>7, <2>5, <3>3, <3>4
    <3> QED
      BY <2>1, <2>2, <2>3, <2>4, <3>2, <3>5 DEF FrontierApart
  <2>6. CASE e[2] \notin Files
    <3>1. /\ \A i, j \in DOMAIN files : files[i] = files[j] => i = j
          /\ \A i \in DOMAIN files : \A x \in Frontier' : x \notin Ancestors(files[i])
      BY <1>1, <1>8 DEF FrontierApart
    <3> QED
      BY <1>7, <2>1, <2>2, <2>3, <2>4, <2>6, <3>1 DEF FrontierApart
  <2> QED
    BY <2>5, <2>6
<1>11. \A x \in Stacked' : x \notin touched => IsDirectory(x)
  <2>1. p \notin touched /\ e[2] = "directory" => IsDirectory(p)
    BY <1>1, <1>3 DEF ReadingHolds, IsDirectory, p
  <2> QED
    BY <1>1, <1>6, <2>1 DEF ReadingHolds
<1>12. ASSUME NEW n \in Steady
       PROVE  InFiles(n)' \/ \E x \in Frontier' : x \in Ancestors(n)
  <2>1. CASE InFiles(n)
    BY <1>7, <2>1 DEF InFiles
  <2>2. CASE \E x \in Frontier : x \in Ancestors(n)
    <3>1. PICK x \in Frontier : x \in Ancestors(n)
      BY <2>2
    <3>2. CASE x # p
      BY <1>9, <3>1, <3>2
    <3>3. CASE x = p
      <4>1. n \in FileNodes /\ n \notin touched /\ fs[n] \in Files
        BY DEF Steady
      <4>2. p \notin touched
        BY <1>1, <3>1, <3>3, <4>1 DEF TouchedBelow
      <4>3. e[2] = fs[p]
        BY <1>1, <4>2 DEF ReadingHolds, p
      <4>4. CASE p = n
        BY <1>7, <4>1, <4>3, <4>4 DEF InFiles
      <4>5. CASE p # n
        <5>1. p # 0 /\ WellFormed(fs)
          BY <1>1, <1>3, NodesAre DEF ProgramTyped
        <5>2. fs[n] # "missing"
          BY <4>1 DEF Files, Documents
        <5>3. fs[p] = "directory"
          BY <3>1, <3>3, <4>1, <4>5, <5>1, <5>2, InDirectories
        <5> QED
          BY <1>9, <3>1, <3>3, <4>3, <5>3
      <4> QED
        BY <4>4, <4>5
    <3> QED
      BY <3>2, <3>3
  <2> QED
    BY <1>1, <1>2, <2>1, <2>2 DEF SteadyKept
<1>13. pending' \subseteq FileNodes \X Kinds /\ \A g \in pending' : g[1] \notin touched => g[2] = fs[g[1]]
  BY <1>1, <1>2 DEF ProgramTyped, ReadingHolds
<1> QED
  BY <1>2, <1>6, <1>7, <1>10, <1>11, <1>12, <1>13, WalkKeeps

LEMMA SortFilesKeeps ==
  ASSUME ProgramInv, SortFiles
  PROVE  ProgramInv'
<1>1. ProgramTyped /\ TouchedBelow /\ PhasesInOrder /\ FrontierApart /\ ReadingHolds /\ SteadyKept
  BY DEF ProgramInv, SortFiles
<1>2. /\ phase = "walk" /\ pending = {} /\ stack = <<>> /\ phase' = "files" /\ files' = InOrder(files)
      /\ UNCHANGED Outside /\ stack' = stack /\ pending' = pending /\ entries' = entries
      /\ ioError' = ioError /\ exit' = exit
  BY DEF SortFiles
<1>3. entries = <<>> /\ command = "batch"
  BY <1>1, <1>2 DEF PhasesInOrder
<1>4. /\ \A n : Entry(n)' = Entry(n) /\ (IsDirectory(n)' <=> IsDirectory(n))
      /\ fs' = fs /\ touched' = touched /\ TouchedBelow' /\ command' = command /\ Steady' = Steady
  BY <1>1, <1>2, OutsideStays
<1>5. /\ files' \in Seq(FileNodes)
      /\ \A i, j \in DOMAIN files' : i < j => files'[i] < files'[j]
      /\ \A i \in DOMAIN files : \E k \in DOMAIN files' : files'[k] = files[i]
  <2>1. files \in Seq(FileNodes) /\ \A i, j \in DOMAIN files : files[i] = files[j] => i = j
    BY <1>1 DEF ProgramTyped, FrontierApart
  <2> QED
    BY <1>2, <2>1, InOrderSorts
<1>6. ProgramTyped'
  BY <1>1, <1>2, <1>5, OutsideStays DEF ProgramTyped
<1>7. PhasesInOrder'
  BY <1>2, <1>3, <1>4 DEF PhasesInOrder
<1>8. ReadingHolds' /\ InPathOrder'
  BY <1>2, <1>3, <1>5 DEF ReadingHolds, InPathOrder, Stacked
<1>9. SteadyKept'
  <2>1. Frontier = {}
    BY <1>2 DEF Frontier, Stacked, Waiting
  <2>2. \A n \in Steady : InFiles(n)'
    BY <1>1, <1>2, <1>5, <2>1 DEF SteadyKept, InFiles
  <2> QED
    BY <1>2, <1>4, <2>2 DEF SteadyKept
<1>10. SingleZeroIsEarned'
  BY <1>3, <1>4 DEF SingleZeroIsEarned
<1> QED
  BY <1>2, <1>4, <1>6, <1>7, <1>8, <1>9, <1>10 DEF ProgramInv

LEMMA VerifyOneKeeps ==
  ASSUME ProgramInv, VerifyOneForBatch
  PROVE  ProgramInv'
<1> DEFINE h == Head(files)
           L == Len(files)
           M == Len(entries)
<1>1. ProgramTyped /\ TouchedBelow /\ PhasesInOrder /\ ReadingHolds /\ SteadyKept /\ InPathOrder
  BY DEF ProgramInv
<1>2. /\ phase = "files" /\ phase' = "files" /\ files # <<>> /\ UNCHANGED Outside
      /\ stack' = stack /\ pending' = pending /\ ioError' = ioError /\ exit' = exit
      /\ files' = Tail(files) /\ entries' = Append(entries, Entry(h))
  BY DEF VerifyOneForBatch
<1>3. /\ L \in Nat /\ L >= 1 /\ DOMAIN files = 1 .. L /\ h = files[1] /\ h \in FileNodes
      /\ files' \in Seq(FileNodes) /\ DOMAIN files' = 1 .. L - 1
      /\ \A i \in 1 .. L - 1 : files'[i] = files[i + 1]
  <2>1. files \in Seq(FileNodes)
    BY <1>1 DEF ProgramTyped
  <2> QED
    BY <1>2, <2>1
<1> HIDE DEF h, L, M
<1>4. Entry(h) \in EntryRecords /\ Entry(h).node = h
  <2>1. fs[h] \in Kinds
    BY <1>1, <1>3 DEF ProgramTyped
  <2> QED
    BY <1>3, <2>1, EntryTyped
<1> DEFINE entry == Entry(h)
<1>5. /\ M \in Nat /\ DOMAIN entries = 1 .. M /\ entries' \in Seq(EntryRecords)
      /\ DOMAIN entries' = 1 .. M + 1 /\ entries'[M + 1] = entry
      /\ \A i \in 1 .. M : entries'[i] = entries[i]
  <2>1. entries \in Seq(EntryRecords) /\ entry \in EntryRecords /\ entries' = Append(entries, entry)
    BY <1>1, <1>2, <1>4 DEF ProgramTyped
  <2> HIDE DEF entry
  <2> QED
    BY <2>1 DEF M
<1> HIDE DEF entry
<1>6. entry.node = h /\ entry = Entry(h)
  BY <1>4 DEF entry
<1>7. /\ \A n : Entry(n)' = Entry(n) /\ (IsDirectory(n)' <=> IsDirectory(n))
      /\ fs' = fs /\ touched' = touched /\ TouchedBelow' /\ command' = command /\ Steady' = Steady
  BY <1>1, <1>2, OutsideStays
<1>8. ProgramTyped'
  BY <1>1, <1>2, <1>3, <1>5, OutsideStays DEF ProgramTyped
<1>9. PhasesInOrder'
  BY <1>1, <1>2, <1>7 DEF PhasesInOrder
<1>10. \A i \in 1 .. M + 1 : i = M + 1 \/ i \in 1 .. M
  BY <1>5
<1>11. ReadingHolds'
  <2>1. pending' = {} /\ Stacked' = {}
    BY <1>1, <1>2 DEF PhasesInOrder, Stacked
  <2>2. \A i \in DOMAIN entries' :
          entries'[i].node \notin touched => entries'[i] = Entry(entries'[i].node)
    BY <1>1, <1>5, <1>6, <1>10 DEF ReadingHolds
  <2> QED
    BY <1>7, <2>1, <2>2 DEF ReadingHolds
<1>12. SteadyKept'
  <2>1. ASSUME NEW n \in Steady PROVE InFiles(n)' \/ InEntries(n)'
    <3>1. CASE InFiles(n)
      <4>1. PICK i \in 1 .. L : files[i] = n
        BY <1>3, <3>1 DEF InFiles
      <4>2. CASE i = 1
        <5>1. entries'[M + 1].node = n /\ M + 1 \in DOMAIN entries'
          BY <1>3, <1>5, <1>6, <4>1, <4>2
        <5> QED
          BY <5>1 DEF InEntries
      <4>3. CASE i # 1
        <5>1. i - 1 \in 1 .. L - 1 /\ (i - 1) + 1 = i
          BY <1>3, <4>3
        <5>2. files'[i - 1] = n
          BY <1>3, <4>1, <5>1
        <5> QED
          BY <1>3, <5>1, <5>2 DEF InFiles
      <4> QED
        BY <4>2, <4>3
    <3>2. CASE InEntries(n)
      <4>1. PICK i \in 1 .. M : entries[i].node = n
        BY <1>5, <3>2 DEF InEntries
      <4>2. i \in DOMAIN entries' /\ entries'[i].node = n
        BY <1>5, <4>1
      <4> QED
        BY <4>2 DEF InEntries
    <3> QED
      BY <1>1, <1>2, <3>1, <3>2 DEF SteadyKept
  <2> QED
    BY <1>2, <1>7, <2>1 DEF SteadyKept
<1>13. InPathOrder'
  <2>1. /\ \A i, j \in 1 .. M : i < j => entries[i].node < entries[j].node
        /\ \A i, j \in 1 .. L : i < j => files[i] < files[j]
        /\ \A i \in 1 .. M : \A j \in 1 .. L : entries[i].node < files[j]
    BY <1>1, <1>2, <1>3, <1>5 DEF InPathOrder
  <2>2. \A i, j \in 1 .. M + 1 : i < j => entries'[i].node < entries'[j].node
    <3> SUFFICES ASSUME NEW i \in 1 .. M + 1, NEW j \in 1 .. M + 1, i < j
                 PROVE  entries'[i].node < entries'[j].node
      OBVIOUS
    <3>1. i \in 1 .. M /\ entries'[i] = entries[i]
      BY <1>5
    <3>2. CASE j \in 1 .. M
      BY <1>5, <2>1, <3>1, <3>2
    <3>3. CASE j = M + 1
      <4>1. entries'[j].node = files[1] /\ 1 \in 1 .. L
        BY <1>3, <1>5, <1>6, <3>3
      <4> QED
        BY <2>1, <3>1, <4>1
    <3> QED
      BY <1>10, <3>2, <3>3
  <2>3. \A j \in 1 .. L - 1 : j + 1 \in 1 .. L /\ 1 < j + 1 /\ 1 \in 1 .. L /\ files'[j] = files[j + 1]
    BY <1>3
  <2>4. \A i, j \in 1 .. L - 1 : i < j => files'[i] < files'[j]
    <3> SUFFICES ASSUME NEW i \in 1 .. L - 1, NEW j \in 1 .. L - 1, i < j
                 PROVE  files'[i] < files'[j]
      OBVIOUS
    <3>1. i + 1 < j + 1 /\ i + 1 \in 1 .. L /\ j + 1 \in 1 .. L
      BY <1>3
    <3> QED
      BY <2>1, <2>3, <3>1
  <2>5. \A i \in 1 .. M + 1 : \A j \in 1 .. L - 1 : entries'[i].node < files'[j]
    <3> SUFFICES ASSUME NEW i \in 1 .. M + 1, NEW j \in 1 .. L - 1
                 PROVE  entries'[i].node < files'[j]
      OBVIOUS
    <3>1. CASE i \in 1 .. M
      BY <1>5, <2>1, <2>3, <3>1
    <3>2. CASE i = M + 1
      <4>1. entries'[i].node = files[1]
        BY <1>3, <1>5, <1>6, <3>2
      <4> QED
        BY <2>1, <2>3, <4>1
    <3> QED
      BY <1>10, <3>1, <3>2
  <2> QED
    BY <1>3, <1>5, <2>2, <2>4, <2>5 DEF InPathOrder
<1>14. SingleZeroIsEarned'
  BY <1>1, <1>2, <1>7 DEF SingleZeroIsEarned, PhasesInOrder
<1> QED
  BY <1>2, <1>7, <1>8, <1>9, <1>11, <1>12, <1>13, <1>14 DEF ProgramInv

LEMMA FinishBatchKeeps ==
  ASSUME ProgramInv, FinishBatch
  PROVE  ProgramInv'
<1>1. ProgramTyped /\ TouchedBelow /\ PhasesInOrder /\ ReadingHolds /\ SteadyKept /\ InPathOrder
  BY DEF ProgramInv
<1>2. /\ phase = "files" /\ phase' = "done" /\ files = <<>> /\ UNCHANGED Outside
      /\ stack' = stack /\ pending' = pending /\ ioError' = ioError /\ files' = files /\ entries' = entries
      /\ exit' = IF \E i \in DOMAIN entries : ~entries[i].valid THEN 1 ELSE 0
  BY DEF FinishBatch, Exit
<1>3. /\ \A n : Entry(n)' = Entry(n) /\ (IsDirectory(n)' <=> IsDirectory(n))
      /\ fs' = fs /\ touched' = touched /\ TouchedBelow' /\ command' = command /\ Steady' = Steady
  BY <1>1, <1>2, OutsideStays
<1>4. exit' \in {0, 1} /\ exit' # NoValue
  <2>1. exit' \in {0, 1}
    BY <1>2
  <2> QED
    BY <2>1, ExitAssumption
<1>5. ProgramTyped'
  <2>1. exit' \in {NoValue, 0, 1, 2, 3}
    BY <1>4
  <2> QED
    BY <1>1, <1>2, <1>4, <2>1, OutsideStays DEF ProgramTyped
<1>6. PhasesInOrder'
  BY <1>2 DEF PhasesInOrder
<1>7. ReadingHolds'
  BY <1>1, <1>2, <1>3 DEF ReadingHolds, Stacked
<1>8. SteadyKept'
  <2>1. \A n \in Steady : InEntries(n)
    BY <1>1, <1>2 DEF SteadyKept, InFiles
  <2>2. exit' = 0 => \A i \in DOMAIN entries : entries[i].valid
    BY <1>2
  <2> QED
    BY <1>2, <1>3, <2>1, <2>2 DEF SteadyKept, InEntries
<1>9. InPathOrder'
  BY <1>1, <1>2 DEF InPathOrder
<1>10. SingleZeroIsEarned'
  BY <1>1, <1>2, <1>3 DEF SingleZeroIsEarned, PhasesInOrder
<1> QED
  BY <1>2, <1>3, <1>5, <1>6, <1>7, <1>8, <1>9, <1>10 DEF ProgramInv

LEMMA ChangeNodeKeeps ==
  ASSUME ProgramInv, NEW n \in FileNodes, NEW kind \in Kinds, ChangeNode(n, kind)
  PROVE  ProgramInv'
<1>1. ProgramTyped /\ TouchedBelow /\ PhasesInOrder /\ ReadingHolds /\ SteadyKept /\ InPathOrder
  BY DEF ProgramInv
<1>2. /\ exit = NoValue /\ UNCHANGED <<given, program>> /\ WellFormed(fs)'
      /\ fs' = [m \in FileNodes |-> IF m = n THEN kind
                                    ELSE IF m \in Below(n) THEN "missing" ELSE fs[m]]
      /\ touched' = touched \cup Below(n)
  BY DEF ChangeNode, WellFormed
<1>3. /\ command' = command /\ target' = target /\ manifest' = manifest /\ phase' = phase
      /\ stack' = stack /\ pending' = pending /\ files' = files /\ entries' = entries
      /\ ioError' = ioError /\ exit' = exit /\ phase # "done"
  BY <1>1, <1>2 DEF given, program, ProgramTyped
<1>4. Below(n) \subseteq FileNodes /\ n \in Below(n) /\ \A m \in FileNodes : m \in Below(n) <=> n \in Ancestors(m)
  <2>1. n \in Ancestors(n)
    BY AncestorsOrder
  <2> QED
    BY <2>1 DEF Below
<1>5. fs' \in [FileNodes -> Kinds]
  <2>1. "missing" \in Kinds
    BY DEF Kinds
  <2> QED
    BY <1>1, <1>2, <2>1 DEF ProgramTyped
<1>6. ASSUME NEW m \in FileNodes, m \notin touched'
      PROVE  m \notin touched /\ fs'[m] = fs[m]
  BY <1>2, <1>4, <1>6
<1>7. TouchedBelow'
  <2> SUFFICES ASSUME NEW m \in FileNodes, NEW a \in Ancestors(m), a \in touched' PROVE m \in touched'
    BY DEF TouchedBelow
  <2>1. CASE a \in touched
    BY <1>1, <1>2, <2>1 DEF TouchedBelow
  <2>2. CASE a \in Below(n)
    <3>1. n \in Ancestors(a)
      BY <2>2 DEF Below
    <3>2. n \in Ancestors(m)
      BY <3>1, AncestorsOrder
    <3> QED
      BY <1>2, <1>4, <3>2
  <2> QED
    BY <1>2, <2>1, <2>2
<1>8. Steady' \subseteq Steady
  BY <1>3, <1>6 DEF Steady
<1>9. ProgramTyped'
  BY <1>1, <1>2, <1>3, <1>4, <1>5 DEF ProgramTyped
<1>10. PhasesInOrder' /\ InPathOrder' /\ SingleZeroIsEarned'
  BY <1>1, <1>2, <1>3 DEF PhasesInOrder, InPathOrder, SingleZeroIsEarned, Finished
<1>11. FrontierApart' = FrontierApart
  BY <1>3 DEF FrontierApart, Frontier, Stacked, Waiting
<1>12. ReadingHolds'
  <2>1. \A e \in pending : e[1] \in FileNodes
    BY <1>1 DEF ProgramTyped
  <2>2. \A e \in pending : e[1] \notin touched' => e[2] = fs'[e[1]]
    BY <1>1, <1>6, <2>1 DEF ReadingHolds
  <2>3. \A x \in Stacked : x \notin touched' => IsDirectory(x)'
    BY <1>1, <1>6, <1>2, <1>4 DEF ReadingHolds, IsDirectory
  <2>4. ASSUME NEW i \in DOMAIN entries PROVE entries[i].node \in FileNodes
    <3>1. entries \in Seq(EntryRecords)
      BY <1>1 DEF ProgramTyped
    <3>2. entries[i] \in EntryRecords
      BY <3>1
    <3> QED
      BY <3>2 DEF EntryRecords
  <2>5. \A m \in FileNodes : m \notin touched' => Entry(m)' = Entry(m)
    <3> SUFFICES ASSUME NEW m \in FileNodes, m \notin touched' PROVE Entry(m)' = Entry(m)
      OBVIOUS
    <3>1. fs'[m] = fs[m]
      BY <1>6
    <3> QED
      BY <1>3, <3>1 DEF Entry, Stage, Valid
  <2>6. \A i \in DOMAIN entries :
          entries[i].node \notin touched' => entries[i] = Entry(entries[i].node)'
    <3> SUFFICES ASSUME NEW i \in DOMAIN entries, entries[i].node \notin touched'
                 PROVE  entries[i] = Entry(entries[i].node)'
      OBVIOUS
    <3>1. PICK m \in FileNodes : m = entries[i].node
      BY <2>4
    <3>2. entries[i] = Entry(m)
      BY <1>1, <1>6, <3>1 DEF ReadingHolds
    <3>3. fs'[m] = fs[m] /\ entries'[i].node = m
      BY <1>3, <1>6, <3>1
    <3> QED
      BY <1>3, <3>2, <3>3 DEF Entry, Stage, Valid
  <2>7. Stacked' = Stacked
    BY <1>3 DEF Stacked
  <2> QED
    BY <1>3, <2>2, <2>3, <2>6, <2>7 DEF ReadingHolds
<1>13. SteadyKept'
  <2>1. \A m : (InFiles(m)' <=> InFiles(m)) /\ (InEntries(m)' <=> InEntries(m))
    BY <1>3 DEF InFiles, InEntries
  <2>2. Frontier' = Frontier
    BY <1>3 DEF Frontier, Stacked, Waiting
  <2> QED
    BY <1>1, <1>3, <1>8, <2>1, <2>2 DEF SteadyKept
<1> QED
  BY <1>3, <1>7, <1>9, <1>10, <1>11, <1>12, <1>13 DEF ProgramInv

LEMMA IdleKeeps ==
  ASSUME ProgramInv, UNCHANGED programVars
  PROVE  ProgramInv'
<1>1. /\ UNCHANGED <<fs, touched, changes, command, target, manifest, record>>
      /\ UNCHANGED <<phase, stack, pending, files, entries, ioError, exit>>
  BY DEF programVars, program, given
<1>2. /\ \A n : Entry(n)' = Entry(n) /\ (IsDirectory(n)' <=> IsDirectory(n))
      /\ Steady' = Steady /\ Stacked' = Stacked /\ Frontier' = Frontier
      /\ \A n : (InFiles(n)' <=> InFiles(n)) /\ (InEntries(n)' <=> InEntries(n))
  BY <1>1 DEF Entry, Stage, Valid, IsDirectory, Steady, Frontier, Stacked, Waiting, InFiles, InEntries
<1>3. ProgramTyped' /\ TouchedBelow'
  BY <1>1 DEF ProgramInv, ProgramTyped, TouchedBelow, WellFormed
<1>4. PhasesInOrder' /\ InPathOrder' /\ SingleZeroIsEarned'
  BY <1>1 DEF ProgramInv, PhasesInOrder, InPathOrder, SingleZeroIsEarned, Finished
<1>5. FrontierApart' = FrontierApart
  BY <1>1 DEF FrontierApart, Frontier, Stacked, Waiting
<1>6. ReadingHolds'
  BY <1>1, <1>2 DEF ProgramInv, ReadingHolds
<1>7. SteadyKept'
  BY <1>1, <1>2 DEF ProgramInv, SteadyKept, BatchReported
<1> QED
  BY <1>1, <1>3, <1>4, <1>5, <1>6, <1>7 DEF ProgramInv

LEMMA ProgramStepKeeps == ProgramInv /\ [ProgramNext]_programVars => ProgramInv'
<1> SUFFICES ASSUME ProgramInv, [ProgramNext]_programVars PROVE ProgramInv'
  OBVIOUS
<1>1. CASE Run
  BY <1>1, SettlingKeeps, VerifyPathKeeps, StartBatchKeeps, OpenDirectoryKeeps, ReadEntryKeeps,
     SortFilesKeeps, VerifyOneKeeps, FinishBatchKeeps, Zenon DEF Run
<1>2. ASSUME NEW n \in FileNodes, NEW kind \in Kinds, ChangeNode(n, kind) PROVE ProgramInv'
  BY <1>2, ChangeNodeKeeps
<1>3. CASE UNCHANGED programVars
  BY <1>3, IdleKeeps
<1> QED
  BY <1>1, <1>2, <1>3 DEF ProgramNext

LEMMA ProgramInvariant == ProgramSpec => []ProgramInv
BY StartsRight, ProgramStepKeeps, PTL DEF ProgramSpec

-----------------------------------------------------------------------------
(* The theorems.                                                           *)

\* What the code promises of a report at its end, from what holds on the way.
THEOREM ReportIsComplete == ProgramSpec => []NothingSteadyIsMissed
<1>1. ProgramInv => NothingSteadyIsMissed
  <2> SUFFICES ASSUME ProgramInv PROVE NothingSteadyIsMissed
    OBVIOUS
  <2>1. ASSUME BatchReported, NEW n \in Steady PROVE \E i \in DOMAIN entries : entries[i] = Entry(n)
    <3>1. phase = "done"
      <4>1. exit # NoValue
        BY <2>1, ExitAssumption DEF BatchReported
      <4> QED
        BY <4>1 DEF ProgramInv, ProgramTyped
    <3>2. PICK i \in DOMAIN entries : entries[i].node = n
      BY <2>1, <3>1 DEF ProgramInv, SteadyKept, InEntries
    <3>3. n \notin touched
      BY DEF Steady
    <3> QED
      BY <3>2, <3>3 DEF ProgramInv, ReadingHolds
  <2>2. \A i, j \in DOMAIN entries : i < j => entries[i].node < entries[j].node
    BY DEF ProgramInv, InPathOrder
  <2> QED
    BY <2>1, <2>2 DEF NothingSteadyIsMissed
<1> QED
  BY <1>1, ProgramInvariant, PTL

\* Exit code 0, of a batch and of one proof.
THEOREM ZeroMeansVerified == ProgramSpec => []ZeroIsEarned
<1>1. ProgramInv => ZeroIsEarned
  <2> SUFFICES ASSUME ProgramInv PROVE ZeroIsEarned
    OBVIOUS
  <2>1. ASSUME BatchReported, exit = 0, NEW n \in Steady PROVE Entry(n).valid
    <3>1. phase = "done"
      <4>1. exit # NoValue
        BY <2>1, ExitAssumption
      <4> QED
        BY <4>1 DEF ProgramInv, ProgramTyped
    <3>2. PICK i \in DOMAIN entries : entries[i].node = n
      BY <2>1, <3>1 DEF ProgramInv, SteadyKept, InEntries
    <3>3. entries[i].valid
      BY <2>1, <3>1 DEF ProgramInv, SteadyKept
    <3>4. n \notin touched
      BY DEF Steady
    <3>5. entries[i] = Entry(n)
      BY <3>2, <3>4 DEF ProgramInv, ReadingHolds
    <3> QED
      BY <3>3, <3>5
  <2>2. SingleZeroIsEarned
    BY DEF ProgramInv
  <2> QED
    BY <2>1, <2>2 DEF ZeroIsEarned, BatchZeroIsEarned
<1> QED
  BY <1>1, ProgramInvariant, PTL

-----------------------------------------------------------------------------
(***************************************************************************)
(* Streaming egress.                                                       *)
(***************************************************************************)

-----------------------------------------------------------------------------
(* The sets of positions of an accumulator.                                *)

Rank(S, i) == Cardinality({j \in S : j <= i})

\* Every place up to the number of the positions has its own.
LEMMA NthOf ==
  ASSUME NEW m \in Nat, NEW S \in SUBSET (1 .. m)
  PROVE  /\ IsFiniteSet(S) /\ Cardinality(S) \in Nat
         /\ \A i \in S : Rank(S, i) \in 1 .. Cardinality(S)
         /\ \A i, j \in S : Rank(S, i) = Rank(S, j) => i = j
         /\ \A k \in 1 .. Cardinality(S) : Nth(S, k) \in S /\ Rank(S, Nth(S, k)) = k
         /\ \A i \in S : \E k \in 1 .. Cardinality(S) : Nth(S, k) = i
<1> DEFINE N == Cardinality(S)
           upto(i) == {j \in S : j <= i}
           rank == [i \in S |-> Rank(S, i)]
<1>1. IsFiniteSet(S) /\ N \in Nat /\ S \subseteq Nat
  <2>1. IsFiniteSet(1 .. m)
    BY FS_Interval
  <2>2. IsFiniteSet(S)
    BY <2>1, FS_Subset
  <2>3. N \in Nat
    BY <2>2, FS_CardinalityType
  <2>4. S \subseteq Nat
    OBVIOUS
  <2> QED
    BY <2>2, <2>3, <2>4
<1>2. ASSUME NEW i \in S
      PROVE  /\ Rank(S, i) = Cardinality(upto(i)) /\ IsFiniteSet(upto(i))
             /\ Rank(S, i) \in 1 .. N
  <2>1. upto(i) \in SUBSET S /\ i \in upto(i)
    BY <1>1
  <2>2. IsFiniteSet(upto(i)) /\ Cardinality(upto(i)) \in Nat /\ Cardinality(upto(i)) <= N
    BY <1>1, <2>1, FS_Subset, FS_CardinalityType
  <2>3. Cardinality(upto(i)) # 0
    BY <2>1, <2>2, FS_EmptySet
  <2>4. Rank(S, i) = Cardinality(upto(i))
    BY DEF Rank
  <2> HIDE DEF upto
  <2> QED
    BY <1>1, <2>2, <2>3, <2>4
<1>3. ASSUME NEW i \in S, NEW j \in S, i < j PROVE Rank(S, i) # Rank(S, j)
  <2>1. i \in Nat /\ j \in Nat
    BY <1>1
  <2>2. \A k \in upto(i) : k \in upto(j)
    BY <1>1, <1>3, <2>1
  <2>3. j \in upto(j) /\ j \notin upto(i)
    BY <1>3, <2>1
  <2>4. IsFiniteSet(upto(j)) /\ upto(i) \in SUBSET upto(j) /\ upto(i) # upto(j)
    BY <1>2, <2>2, <2>3
  <2> HIDE DEF upto
  <2>5. Cardinality(upto(i)) # Cardinality(upto(j))
    BY <2>4, FS_Subset
  <2> QED
    BY <1>2, <2>5
<1>4. ASSUME NEW i \in S, NEW j \in S, Rank(S, i) = Rank(S, j) PROVE i = j
  <2>1. i \in Nat /\ j \in Nat
    BY <1>1
  <2> QED
    BY <1>3, <1>4, <2>1
<1>5. IsFiniteSet(1 .. N) /\ Cardinality(1 .. N) = N
  BY <1>1, FS_Interval
<1>6. rank \in Injection(S, 1 .. N)
  BY <1>2, <1>4 DEF Injection, IsInjective
<1>7. rank \in Surjection(S, 1 .. N)
  BY <1>5, <1>6, FS_Injection
<1>8. \A k \in 1 .. N : \E i \in S : Rank(S, i) = k
  BY <1>7 DEF Surjection
<1>9. ASSUME NEW k \in 1 .. N PROVE Nth(S, k) \in S /\ Rank(S, Nth(S, k)) = k
  <2>1. Nth(S, k) = CHOOSE i \in S : Rank(S, i) = k
    BY DEF Nth, Rank
  <2> QED
    BY <1>8, <2>1
<1> HIDE DEF rank, upto
<1>10. ASSUME NEW i \in S PROVE Rank(S, i) \in 1 .. N /\ Nth(S, Rank(S, i)) = i
  <2>1. Rank(S, i) \in 1 .. N
    BY <1>2
  <2>2. Nth(S, Rank(S, i)) \in S /\ Rank(S, Nth(S, Rank(S, i))) = Rank(S, i)
    BY <1>9, <2>1
  <2> QED
    BY <1>4, <2>1, <2>2
<1> QED
  BY <1>1, <1>2, <1>4, <1>9, <1>10

\* A position behind all others comes last and moves none of them.
LEMMA NthExtends ==
  ASSUME NEW m \in Nat, NEW S \in SUBSET (1 .. m)
  PROVE  LET T == S \cup {m + 1}
         IN  /\ Cardinality(T) = Cardinality(S) + 1
             /\ \A k \in 1 .. Cardinality(S) : Nth(T, k) = Nth(S, k)
             /\ Nth(T, Cardinality(S) + 1) = m + 1
<1> DEFINE T == S \cup {m + 1}
           N == Cardinality(S)
<1>1. /\ IsFiniteSet(S) /\ N \in Nat /\ m + 1 \notin S
      /\ S \subseteq Nat /\ T \in SUBSET (1 .. m + 1)
  BY NthOf
<1>2. Cardinality(T) = N + 1
  BY <1>1, FS_AddElement
<1>3. ASSUME NEW i \in S PROVE Rank(T, i) = Rank(S, i)
  <2>1. {j \in T : j <= i} = {j \in S : j <= i}
    BY <1>1
  <2> QED
    BY <2>1 DEF Rank
<1>4. Rank(T, m + 1) = N + 1
  <2>1. \A j \in T : j \in 1 .. m + 1 /\ j <= m + 1
    BY <1>1
  <2> HIDE DEF T
  <2>2. {j \in T : j <= m + 1} = T
    BY <2>1
  <2> QED
    BY <1>2, <2>2 DEF Rank
<1>5. /\ \A i, j \in T : Rank(T, i) = Rank(T, j) => i = j
      /\ \A k \in 1 .. N + 1 : Nth(T, k) \in T /\ Rank(T, Nth(T, k)) = k
  <2>1. m + 1 \in Nat
    OBVIOUS
  <2> HIDE DEF T
  <2> QED
    BY <1>1, <1>2, <2>1, NthOf
<1>6. /\ \A i, j \in S : Rank(S, i) = Rank(S, j) => i = j
      /\ \A k \in 1 .. N : Nth(S, k) \in S /\ Rank(S, Nth(S, k)) = k
  BY NthOf
<1> HIDE DEF N
<1>7. ASSUME NEW k \in 1 .. N PROVE Nth(T, k) = Nth(S, k)
  <2>1. k \in 1 .. N + 1 /\ k # N + 1
    BY <1>1
  <2>2. Nth(T, k) \in S /\ Rank(T, Nth(T, k)) = k
    BY <1>4, <1>5, <2>1
  <2>3. Nth(S, k) \in S /\ Rank(S, Nth(S, k)) = k
    BY <1>6
  <2>4. Rank(S, Nth(T, k)) = Rank(S, Nth(S, k))
    BY <1>3, <2>2, <2>3
  <2> HIDE DEF T
  <2> QED
    BY <1>6, <2>2, <2>3, <2>4
<1>8. Nth(T, N + 1) = m + 1
  <2>1. N + 1 \in 1 .. N + 1 /\ m + 1 \in T
    BY <1>1
  <2> QED
    BY <1>4, <1>5, <2>1
<1> QED
  BY <1>2, <1>7, <1>8 DEF N

LEMMA FromZero ==
  ASSUME NEW n \in Nat
  PROVE  IsFiniteSet(0 .. n - 1) /\ Cardinality(0 .. n - 1) = n
<1>1. 0 \in Int /\ n - 1 \in Int
  OBVIOUS
<1>2. IsFiniteSet(0 .. n - 1) /\ Cardinality(0 .. n - 1) = IF 0 > n - 1 THEN 0 ELSE n - 1 - 0 + 1
  BY <1>1, FS_Interval
<1> QED
  BY <1>2

\* Leaves whose numbers are 0, 1, ... in some order: the sort puts each where its
\* number says.
LEMMA SeqOrderPlaces ==
  ASSUME NEW chunks, IsList(chunks),
         \A k \in DOMAIN chunks : chunks[k].seq \in 0 .. Len(chunks) - 1,
         \A k, l \in DOMAIN chunks : chunks[k].seq = chunks[l].seq => k = l
  PROVE  /\ DOMAIN InSeqOrder(chunks) = DOMAIN chunks
         /\ \A k \in DOMAIN chunks : InSeqOrder(chunks)[chunks[k].seq + 1] = chunks[k].chunk_hash
         /\ \A p \in DOMAIN chunks : \E k \in DOMAIN chunks : chunks[k].seq + 1 = p
<1> DEFINE N == Len(chunks)
           f == [k \in 1 .. N |-> chunks[k].seq]
           pick(p) == CHOOSE k \in DOMAIN chunks : Place(f, k) = p
<1>1. N \in Nat /\ DOMAIN chunks = 1 .. N
  BY DEF IsList
<1>2. /\ f \in [1 .. N -> 0 .. N - 1] /\ DOMAIN f = 1 .. N
      /\ \A k \in 1 .. N : f[k] = chunks[k].seq /\ f[k] \in Nat
      /\ \A k, l \in 1 .. N : f[k] = f[l] => k = l
  BY <1>1
<1>3. /\ \A k \in 1 .. N : Place(f, k) \in 1 .. N
      /\ \A p \in 1 .. N : \E k \in 1 .. N : Place(f, k) = p
      /\ \A k, l \in 1 .. N : Place(f, k) = Place(f, l) => k = l
  <2> HIDE DEF f, N
  <2> QED
    BY <1>1, <1>2, PlacesAreFilled
<1>4. f \in Bijection(1 .. N, 0 .. N - 1)
  <2> HIDE DEF f, N
  <2>1. f \in Injection(1 .. N, 0 .. N - 1)
    BY <1>2 DEF Injection, IsInjective
  <2>2. IsFiniteSet(0 .. N - 1) /\ Cardinality(0 .. N - 1) = N
    BY <1>1, FromZero
  <2>3. Cardinality(1 .. N) = N
    BY <1>1, FS_Interval
  <2>4. f \in Surjection(1 .. N, 0 .. N - 1)
    BY <2>1, <2>2, <2>3, FS_Injection
  <2> QED
    BY <2>1, <2>4 DEF Bijection
<1>5. ASSUME NEW k \in 1 .. N PROVE Place(f, k) = f[k] + 1
  <2> DEFINE B == {j \in DOMAIN f : Before(f, j, k)}
             g == [j \in B |-> f[j]]
  <2>1. f[k] \in 0 .. N - 1
    BY <1>2
  <2>2. \A j \in B : j \in 1 .. N /\ f[j] < f[k] /\ f[j] \in 0 .. f[k] - 1
    <3> HIDE DEF f, N
    <3> QED
      BY <1>1, <1>2 DEF Before
  <2>3. \A q \in 0 .. f[k] - 1 : \E j \in B : f[j] = q
    <3> HIDE DEF f, N
    <3> TAKE q \in 0 .. f[k] - 1
    <3>1. q \in 0 .. N - 1 /\ q < f[k]
      BY <1>1, <2>1
    <3>2. PICK j \in 1 .. N : f[j] = q
      BY <1>4, <3>1 DEF Bijection, Surjection
    <3> QED
      BY <1>2, <3>1, <3>2 DEF Before
  <2>4. g \in Bijection(B, 0 .. f[k] - 1)
    <3> HIDE DEF f, N, B
    <3>1. g \in [B -> 0 .. f[k] - 1] /\ \A j \in B : g[j] = f[j]
      BY <2>2
    <3>2. \A i, j \in B : g[i] = g[j] => i = j
      BY <1>2, <2>2, <3>1
    <3> HIDE DEF g
    <3> QED
      BY <2>3, <3>1, <3>2 DEF Bijection, Injection, IsInjective, Surjection
  <2>5. IsFiniteSet(0 .. f[k] - 1) /\ Cardinality(0 .. f[k] - 1) = f[k]
    <3> HIDE DEF f, N
    <3>1. f[k] \in Nat
      BY <1>1, <2>1
    <3> QED
      BY <3>1, FromZero
  <2>6. Cardinality(B) = f[k]
    <3>1. IsFiniteSet(B)
      <4>1. B \in SUBSET (1 .. N) /\ IsFiniteSet(1 .. N)
        BY <1>1, <1>2, FS_Interval
      <4> QED
        BY <4>1, FS_Subset
    <3> HIDE DEF f, N, B, g
    <3>2. ExistsBijection(B, 0 .. f[k] - 1)
      BY <2>4 DEF ExistsBijection
    <3> QED
      BY <2>5, <3>1, <3>2, FS_Bijection
  <2>7. Place(f, k) = 1 + Cardinality(B)
    BY DEF Place
  <2> HIDE DEF f, N, B
  <2> QED
    BY <1>1, <2>1, <2>6, <2>7
<1>6. InSeqOrder(chunks) = [p \in 1 .. N |-> chunks[pick(p)].chunk_hash]
  <2> DEFINE B(j, k) == \/ chunks[j].seq < chunks[k].seq
                        \/ chunks[j].seq = chunks[k].seq /\ j < k
             rank == [k \in DOMAIN chunks |-> 1 + Cardinality({j \in DOMAIN chunks : B(j, k)})]
             at(p) == CHOOSE k \in DOMAIN chunks : rank[k] = p
  <2>1. \A k \in 1 .. N : rank[k] = Place(f, k)
    <3> TAKE k \in 1 .. N
    <3>1. {j \in DOMAIN chunks : B(j, k)} = {j \in DOMAIN f : Before(f, j, k)}
      <4> HIDE DEF f, N
      <4> QED
        BY <1>1, <1>2 DEF Before
    <3> QED
      BY <1>1, <3>1 DEF Place
  <2>2. InSeqOrder(chunks) = [p \in DOMAIN chunks |-> chunks[at(p)].chunk_hash]
    BY DEF InSeqOrder
  <2> HIDE DEF rank, f, N
  <2>3. \A p : at(p) = pick(p)
    BY <1>1, <2>1
  <2> HIDE DEF at, pick
  <2> QED
    BY <1>1, <2>2, <2>3
<1>7. \A p \in 1 .. N : pick(p) \in 1 .. N /\ Place(f, pick(p)) = p
  <2> HIDE DEF f, N
  <2> QED
    BY <1>1, <1>3
<1> HIDE DEF pick, f
<1>8. ASSUME NEW k \in 1 .. N PROVE InSeqOrder(chunks)[f[k] + 1] = chunks[k].chunk_hash
  <2>1. f[k] + 1 \in 1 .. N /\ Place(f, k) = f[k] + 1
    BY <1>1, <1>2, <1>5
  <2>2. pick(f[k] + 1) = k
    BY <1>3, <1>7, <2>1
  <2> QED
    BY <1>6, <2>1, <2>2
<1> HIDE DEF N
<1>9. ASSUME NEW p \in 1 .. N PROVE \E k \in 1 .. N : f[k] + 1 = p
  <2>1. PICK k \in 1 .. N : Place(f, k) = p
    BY <1>3
  <2> QED
    BY <1>5, <2>1
<1>10. \A k \in 1 .. N : f[k] = chunks[k].seq
  BY <1>2
<1>11. DOMAIN InSeqOrder(chunks) = DOMAIN chunks
  BY <1>1, <1>6
<1>12. \A k \in DOMAIN chunks : InSeqOrder(chunks)[chunks[k].seq + 1] = chunks[k].chunk_hash
  BY <1>1, <1>8, <1>10
<1>13. ASSUME NEW p \in DOMAIN chunks PROVE \E k \in DOMAIN chunks : chunks[k].seq + 1 = p
  <2>1. PICK k \in 1 .. N : f[k] + 1 = p
    BY <1>1, <1>9
  <2> QED
    BY <1>1, <1>10, <2>1
<1> QED
  BY <1>11, <1>12, <1>13

-----------------------------------------------------------------------------
(* The root of a stream.                                                   *)

\* The levels are computed from the leaves up.
LEMMA StreamLevelsUnfold ==
  ASSUME NEW leaves, IsList(leaves)
  PROVE  /\ StreamLevels(leaves)[0] = [i \in DOMAIN leaves |-> StreamLeaf(leaves[i])]
         /\ \A k \in 1 .. Len(leaves) : StreamLevels(leaves)[k] = StreamLevel(StreamLevels(leaves)[k - 1])
<1> DEFINE N == Len(leaves)
           bottom == [i \in DOMAIN leaves |-> StreamLeaf(leaves[i])]
           Turn(f, n) == IF n = 0 THEN bottom ELSE StreamLevel(f[n - 1])
           Chain(f, m) == f = [n \in 0 .. m |-> Turn(f, n)]
           S == {m \in 0 .. N : \E f : Chain(f, m)}
<1>1. N \in Nat
  BY DEF IsList
<1>2. StreamLevels(leaves) = CHOOSE f : Chain(f, N)
  BY DEF StreamLevels
<1> HIDE DEF N, bottom, Turn
<1>3. ASSUME NEW f, NEW m, Chain(f, m), NEW n \in 0 .. m
      PROVE  f[n] = Turn(f, n)
  BY <1>3
<1>4. 0 \in S
  <2> DEFINE f == [n \in 0 .. 0 |-> bottom]
  <2>1. Chain(f, 0) /\ 0 \in 0 .. N
    BY <1>1 DEF Turn
  <2> QED
    BY <2>1, Zenon
<1>5. ASSUME NEW m \in 0 .. N - 1, m \in S PROVE m + 1 \in S
  <2>1. PICK f : Chain(f, m)
    BY <1>5
  <2> DEFINE g == [n \in 0 .. m + 1 |-> IF n = m + 1 THEN StreamLevel(f[m]) ELSE f[n]]
  <2>2. ASSUME NEW n \in 0 .. m + 1
        PROVE  g[n] = Turn(g, n)
    <3>1. \A l \in 0 .. m : f[l] = Turn(f, l) /\ g[l] = f[l]
      <4> HIDE DEF Chain
      <4>1. \A l \in 0 .. m : f[l] = Turn(f, l)
        BY <1>3, <2>1
      <4> QED
        BY <1>1, <4>1
    <3>2. CASE n = m + 1
      <4>1. g[n] = StreamLevel(f[m]) /\ n # 0 /\ n - 1 = m /\ m \in 0 .. m
        BY <1>1, <3>2
      <4> QED
        BY <3>1, <3>2, <4>1 DEF Turn
    <3>3. CASE n \in 0 .. m
      <4>1. n # 0 => n - 1 \in 0 .. m
        BY <1>1, <3>3
      <4> HIDE DEF g
      <4> QED
        BY <3>1, <3>3, <4>1 DEF Turn
    <3> QED
      BY <1>1, <3>2, <3>3
  <2>3. Chain(g, m + 1)
    BY <2>2
  <2>4. m + 1 \in 0 .. N
    BY <1>1
  <2> QED
    BY <2>3, <2>4, Zenon
<1>6. N \in S
  <2> HIDE DEF S
  <2>1. 0 .. N \subseteq S
    BY <1>1, <1>4, <1>5, BoundedInduction
  <2> QED
    BY <1>1, <2>1
<1>7. Chain(StreamLevels(leaves), N)
  BY <1>2, <1>6
<1> DEFINE f == StreamLevels(leaves)
<1> HIDE DEF Chain, f
<1>8. \A n \in 0 .. N : f[n] = Turn(f, n)
  BY <1>3, <1>7 DEF f
<1>9. 0 \in 0 .. N /\ \A n \in 1 .. N : n \in 0 .. N /\ n # 0
  BY <1>1
<1>10. f[0] = bottom /\ \A n \in 1 .. N : f[n] = StreamLevel(f[n - 1])
  BY <1>8, <1>9 DEF Turn
<1> QED
  BY <1>10 DEF f, N, bottom

\* A level above one of several nodes pairs these and promotes a last odd one.
LEMMA NodesOfLevel ==
  ASSUME NEW level, IsList(level), Len(level) > 1
  PROVE  LET n   == Len(level)
             new == StreamLevel(level)
         IN  /\ IsList(new) /\ Len(new) = (n + 1) \div 2 /\ Len(new) >= 1 /\ Len(new) < n
             /\ \A i \in DOMAIN new :
                  /\ 2 * i - 1 \in DOMAIN level
                  /\ 2 * i <= n => 2 * i \in DOMAIN level
                  /\ new[i] = IF 2 * i <= n THEN StreamNode(level[2 * i - 1], level[2 * i])
                                            ELSE level[2 * i - 1]
             /\ \A j \in DOMAIN level :
                  \E i \in DOMAIN new : j = 2 * i - 1 \/ (j = 2 * i /\ 2 * i <= n)
<1> DEFINE n   == Len(level)
           new == StreamLevel(level)
           half == (n + 1) \div 2
           node(i) == IF 2 * i <= n THEN StreamNode(level[2 * i - 1], level[2 * i])
                                    ELSE level[2 * i - 1]
<1>1. n \in Nat /\ DOMAIN level = 1 .. n
  BY DEF IsList
<1>2. half \in Nat /\ half >= 1 /\ half < n /\ (n = 2 * half \/ n + 1 = 2 * half)
  <2>1. n + 1 \in Nat /\ n > 1
    BY <1>1
  <2>2. half \in Nat /\ (n + 1 = 2 * half \/ n + 1 = 2 * half + 1)
    BY <2>1, Halves
  <2> HIDE DEF half, n
  <2> QED
    BY <1>1, <2>1, <2>2
<1>3. new = [i \in 1 .. half |-> node(i)]
  BY DEF StreamLevel
<1> HIDE DEF half, new, node
<1>4. DOMAIN new = 1 .. half /\ Len(new) = half
  BY <1>2, <1>3
<1>5. \A i \in 1 .. half : 2 * i - 1 \in 1 .. n /\ (2 * i <= n => 2 * i \in 1 .. n)
  <2> HIDE DEF n
  <2> QED
    BY <1>1, <1>2
<1>6. ASSUME NEW j \in 1 .. n
      PROVE  \E i \in 1 .. half : j = 2 * i - 1 \/ (j = 2 * i /\ 2 * i <= n)
  <2> DEFINE i == (j + 1) \div 2
  <2>1. j + 1 \in Nat /\ j \in Nat /\ j >= 1 /\ j <= n
    BY <1>1
  <2>2. i \in Nat /\ (j + 1 = 2 * i \/ j + 1 = 2 * i + 1)
    BY <2>1, Halves
  <2> HIDE DEF i, n
  <2>3. i \in 1 .. half
    BY <1>1, <1>2, <2>1, <2>2
  <2> QED
    BY <1>1, <2>1, <2>2, <2>3
<1>7. \A i \in 1 .. half : new[i] = node(i)
  BY <1>3
<1>8. IsList(new)
  BY <1>2, <1>4 DEF IsList
<1> QED
  BY <1>1, <1>2, <1>4, <1>5, <1>6, <1>7, <1>8 DEF half, new, node

\* Levels of one length that agree are built from levels that agree.
LEMMA LevelDetermines ==
  ASSUME NEW a, IsList(a), NEW b, IsList(b), Len(a) = Len(b),
         \A i \in DOMAIN StreamLevel(a) : StreamLevel(a)[i] = StreamLevel(b)[i]
  PROVE  \A i \in DOMAIN a : a[i] = b[i]
<1> DEFINE la == StreamLevel(a)
           lb == StreamLevel(b)
           n == Len(a)
<1>1. n \in Nat /\ DOMAIN a = 1 .. n /\ DOMAIN b = 1 .. n
  BY DEF IsList
<1>2. CASE n <= 1
  <2>1. la = a /\ lb = b
    BY <1>2 DEF StreamLevel
  <2> QED
    BY <2>1
<1>3. CASE n > 1
  <2>1. /\ IsList(la) /\ Len(la) = (n + 1) \div 2 /\ DOMAIN la = 1 .. Len(la)
        /\ \A i \in DOMAIN la : la[i] = IF 2 * i <= n THEN StreamNode(a[2 * i - 1], a[2 * i]) ELSE a[2 * i - 1]
        /\ \A j \in DOMAIN a : \E i \in DOMAIN la : j = 2 * i - 1 \/ (j = 2 * i /\ 2 * i <= n)
    BY <1>3, NodesOfLevel DEF IsList
  <2>2. /\ IsList(lb) /\ Len(lb) = (n + 1) \div 2 /\ DOMAIN lb = 1 .. Len(lb)
        /\ \A i \in DOMAIN lb : lb[i] = IF 2 * i <= n THEN StreamNode(b[2 * i - 1], b[2 * i]) ELSE b[2 * i - 1]
    BY <1>3, NodesOfLevel DEF IsList
  <2>3. DOMAIN la = DOMAIN lb
    BY <2>1, <2>2
  <2> HIDE DEF la, lb, n
  <2>4. ASSUME NEW i \in DOMAIN la
        PROVE  a[2 * i - 1] = b[2 * i - 1] /\ (2 * i <= n => a[2 * i] = b[2 * i])
    <3>1. la[i] = lb[i]
      BY DEF la, lb
    <3>2. CASE 2 * i <= n
      <4>1. StreamNode(a[2 * i - 1], a[2 * i]) = StreamNode(b[2 * i - 1], b[2 * i])
        BY <2>1, <2>2, <2>3, <3>1, <3>2
      <4> QED
        BY <4>1 DEF StreamNode
    <3>3. CASE ~(2 * i <= n)
      BY <2>1, <2>2, <2>3, <3>1, <3>3
    <3> QED
      BY <3>2, <3>3
  <2> QED
    BY <2>1, <2>4
<1> QED
  BY <1>1, <1>2, <1>3

\* The root and the number of the chunks determine their sequence.
LEMMA StreamRootBinds ==
  ASSUME NEW a, IsList(a), NEW b, IsList(b), Len(a) = Len(b), StreamRoot(a) = StreamRoot(b)
  PROVE  \A i \in DOMAIN a : a[i] = b[i]
<1> DEFINE n == Len(a)
           A == StreamLevels(a)
           B == StreamLevels(b)
           Pair(k) == /\ IsList(A[k]) /\ IsList(B[k]) /\ Len(A[k]) = Len(B[k])
                      /\ Len(A[k]) >= 1 /\ (Len(A[k]) = 1 \/ Len(A[k]) + k <= n)
           Same(k) == \A i \in DOMAIN A[k] : A[k][i] = B[k][i]
<1>1. n \in Nat /\ DOMAIN a = 1 .. n /\ DOMAIN b = 1 .. n
  BY DEF IsList
<1>2. CASE n = 0
  BY <1>1, <1>2
<1>3. CASE n # 0
  <2>1. /\ A[0] = [i \in 1 .. n |-> StreamLeaf(a[i])] /\ B[0] = [i \in 1 .. n |-> StreamLeaf(b[i])]
        /\ \A k \in 1 .. n : A[k] = StreamLevel(A[k - 1]) /\ B[k] = StreamLevel(B[k - 1])
    BY <1>1, StreamLevelsUnfold
  <2>2. A[n][1] = B[n][1]
    <3>1. a # <<>> /\ b # <<>>
      BY <1>3
    <3> QED
      BY <3>1 DEF StreamRoot
  <2> HIDE DEF n, A, B
  <2> DEFINE S == {k \in 0 .. n : Pair(k)}
  <2>3. Pair(0)
    <3>1. DOMAIN A[0] = 1 .. n /\ DOMAIN B[0] = 1 .. n /\ Len(A[0]) = n /\ Len(B[0]) = n
      BY <1>1, <2>1
    <3> QED
      BY <1>1, <1>3, <3>1 DEF IsList
  <2>4. ASSUME NEW k \in 0 .. n - 1, Pair(k) PROVE Pair(k + 1)
    <3>1. A[k + 1] = StreamLevel(A[k]) /\ B[k + 1] = StreamLevel(B[k])
      <4>1. k + 1 \in 1 .. n /\ k + 1 - 1 = k
        BY <1>1
      <4> QED
        BY <2>1, <4>1
    <3>2. CASE Len(A[k]) = 1
      <4>1. A[k + 1] = A[k] /\ B[k + 1] = B[k]
        BY <2>4, <3>1, <3>2 DEF StreamLevel
      <4> QED
        BY <2>4, <3>2, <4>1
    <3>3. CASE Len(A[k]) > 1
      <4>1. /\ IsList(A[k + 1]) /\ Len(A[k + 1]) = (Len(A[k]) + 1) \div 2
            /\ Len(A[k + 1]) >= 1 /\ Len(A[k + 1]) < Len(A[k])
        BY <2>4, <3>1, <3>3, NodesOfLevel
      <4>2. IsList(B[k + 1]) /\ Len(B[k + 1]) = (Len(B[k]) + 1) \div 2
        BY <2>4, <3>1, <3>3, NodesOfLevel
      <4>3. Len(A[k + 1]) + (k + 1) <= n
        <5> DEFINE x == Len(A[k])
                   y == Len(A[k + 1])
        <5>1. x \in Nat /\ y \in Nat /\ x > 1 /\ y < x
          BY <2>4, <3>3, <4>1 DEF IsList
        <5>2. x = 1 \/ x + k <= n
          BY <2>4
        <5>3. k \in Nat
          BY <1>1
        <5> HIDE DEF x, y
        <5>4. y + (k + 1) <= n
          BY ONLY <1>1, <5>1, <5>2, <5>3
        <5> QED
          BY <5>4 DEF y
      <4> QED
        BY <2>4, <4>1, <4>2, <4>3
    <3>4. Len(A[k]) \in Nat /\ Len(A[k]) >= 1
      BY <2>4 DEF IsList
    <3>5. \A x \in Nat : x >= 1 => x = 1 \/ x > 1
      OBVIOUS
    <3> QED
      BY <3>2, <3>3, <3>4, <3>5
  <2> HIDE DEF Pair
  <2>5. 0 .. n \subseteq S
    <3>1. 0 \in S
      BY <1>1, <2>3
    <3>2. \A k \in 0 .. n - 1 : k \in S => k + 1 \in S
      BY <1>1, <2>4
    <3> HIDE DEF S
    <3> QED
      BY <1>1, <3>1, <3>2, BoundedInduction
  <2>6. \A k \in 0 .. n : Pair(k)
    BY <2>5
  <2>7. Same(n)
    <3>1. Len(A[n]) = 1 /\ DOMAIN A[n] = 1 .. 1
      BY <1>1, <2>6 DEF Pair, IsList
    <3> QED
      BY <2>2, <3>1
  <2>8. ASSUME NEW k \in 0 .. n - 1, Same(k + 1) PROVE Same(k)
    <3>1. A[k + 1] = StreamLevel(A[k]) /\ B[k + 1] = StreamLevel(B[k])
      <4>1. k + 1 \in 1 .. n /\ k + 1 - 1 = k
        BY <1>1
      <4> QED
        BY <2>1, <4>1
    <3>2. IsList(A[k]) /\ IsList(B[k]) /\ Len(A[k]) = Len(B[k])
      BY <1>1, <2>6 DEF Pair
    <3> QED
      BY <2>8, <3>1, <3>2, LevelDetermines
  <2> DEFINE T == {t \in 0 .. n : Same(n - t)}
  <2> HIDE DEF Same
  <2>9. 0 .. n \subseteq T
    <3>1. 0 \in T
      BY <1>1, <2>7
    <3>2. ASSUME NEW t \in 0 .. n - 1, t \in T PROVE t + 1 \in T
      <4>1. n - (t + 1) \in 0 .. n - 1 /\ (n - (t + 1)) + 1 = n - t /\ t + 1 \in 0 .. n
        BY <1>1
      <4> QED
        BY <2>8, <3>2, <4>1
    <3> HIDE DEF T
    <3> QED
      BY <1>1, <3>1, <3>2, BoundedInduction
  <2>10. Same(0)
    <3>1. n \in T /\ n - n = 0
      BY <1>1, <2>9
    <3> QED
      BY <3>1
  <2>11. \A i \in 1 .. n : StreamLeaf(a[i]) = StreamLeaf(b[i])
    BY <2>1, <2>10 DEF Same
  <2> QED
    BY <1>1, <2>11 DEF StreamLeaf
<1> QED
  BY <1>2, <1>3

-----------------------------------------------------------------------------
(* The accumulator, event by event.                                        *)

Resets == {"streaming_egress_started", "streaming_egress_completed"}
ResetsBefore(A, c) == {i \in 1 .. c - 1 : A[i].event \in Resets}

Since(A, c) == OpenedBefore(A, c) + 1 .. c - 1
UsedIn(A, c) == {i \in Since(A, c) : IsUsable(A[i])}
ChunksAt(A, c) ==
  [k \in 1 .. Cardinality(UsedIn(A, c)) |->
     [seq |-> A[Nth(UsedIn(A, c), k)].seq, chunk_hash |-> A[Nth(UsedIn(A, c), k)].chunk_hash]]
SpoiltAt(A, c) == \E i \in Since(A, c) : IsMalformed(A[i])

LEMMA AccumulatorIs ==
  ASSUME NEW A, NEW c
  PROVE  AccumulatorAt(A, c) = [chunks |-> ChunksAt(A, c), malformed |-> SpoiltAt(A, c)]
BY Zenon DEF AccumulatorAt, ChunksAt, SpoiltAt, UsedIn, Since

\* The last of the events that reset, or none.
LEMMA OpenedIs ==
  ASSUME NEW A, NEW c \in Nat \ {0}
  PROVE  /\ OpenedBefore(A, c) \in 0 .. c - 1
         /\ OpenedBefore(A, c) # 0 => OpenedBefore(A, c) \in ResetsBefore(A, c)
         /\ \A j \in ResetsBefore(A, c) : j <= OpenedBefore(A, c)
<1> DEFINE R == ResetsBefore(A, c)
<1>1. OpenedBefore(A, c) = CHOOSE i \in R \cup {0} : \A j \in R : j <= i
  BY DEF OpenedBefore, ResetsBefore, Resets
<1>2. R \subseteq 1 .. c - 1
  BY DEF ResetsBefore
<1>3. \E i \in R \cup {0} : \A j \in R : j <= i
  <2> DEFINE T == {n \in 0 .. c - 1 : \E i \in R \cup {0} : \A j \in R : j <= n => j <= i}
  <2>1. 0 \in T
    BY <1>2
  <2>2. ASSUME NEW n \in 0 .. c - 1 - 1, n \in T PROVE n + 1 \in T
    <3>1. PICK i \in R \cup {0} : \A j \in R : j <= n => j <= i
      BY <2>2
    <3>2. n + 1 \in 0 .. c - 1
      OBVIOUS
    <3>3. CASE n + 1 \in R
      BY <3>2, <3>3
    <3>4. CASE n + 1 \notin R
      <4>1. \A j \in R : j <= n + 1 => j <= n
        BY <1>2, <3>4
      <4> QED
        BY <3>1, <3>2, <4>1
    <3> QED
      BY <3>3, <3>4
  <2>3. 0 .. c - 1 \subseteq T
    <3> HIDE DEF T
    <3>1. c - 1 \in Nat
      OBVIOUS
    <3> QED
      BY <2>1, <2>2, <3>1, BoundedInduction
  <2>4. c - 1 \in T
    BY <2>3
  <2>5. \A j \in R : j <= c - 1
    BY <1>2
  <2> QED
    BY <2>4, <2>5
<1> HIDE DEF R
<1>4. OpenedBefore(A, c) \in R \cup {0} /\ \A j \in R : j <= OpenedBefore(A, c)
  BY <1>1, <1>3
<1> QED
  BY <1>2, <1>4 DEF R

\* It is characterised by that.
LEMMA OpenedAlone ==
  ASSUME NEW A, NEW c \in Nat \ {0}, NEW d \in 0 .. c - 1,
         d # 0 => d \in ResetsBefore(A, c),
         \A j \in ResetsBefore(A, c) : j <= d
  PROVE  OpenedBefore(A, c) = d
<1> DEFINE o == OpenedBefore(A, c)
<1>1. /\ o \in 0 .. c - 1 /\ (o # 0 => o \in ResetsBefore(A, c))
      /\ \A j \in ResetsBefore(A, c) : j <= o
  BY OpenedIs
<1> HIDE DEF o
<1>2. o <= d
  BY <1>1
<1>3. d <= o
  BY <1>1
<1> QED
  BY <1>1, <1>2, <1>3 DEF o

\* An event that resets leaves nothing behind it, and so does the beginning.
LEMMA AccumulatorEmpty ==
  ASSUME NEW A, NEW c \in Nat \ {0}, OpenedBefore(A, c) = c - 1
  PROVE  AccumulatorAt(A, c) = EmptyAccumulator
<1>1. Since(A, c) = {}
  BY DEF Since
<1>2. UsedIn(A, c) = {} /\ Cardinality(UsedIn(A, c)) = 0
  BY <1>1, FS_EmptySet DEF UsedIn
<1>3. ChunksAt(A, c) = <<>>
  BY <1>2 DEF ChunksAt
<1>4. SpoiltAt(A, c) = FALSE
  BY <1>1 DEF SpoiltAt
<1> QED
  BY <1>3, <1>4, AccumulatorIs DEF EmptyAccumulator

LEMMA AccumulatorStarts ==
  ASSUME NEW A
  PROVE  AccumulatorAt(A, 1) = EmptyAccumulator
<1>1. OpenedBefore(A, 1) \in 0 .. 1 - 1
  BY OpenedIs
<1>2. OpenedBefore(A, 1) = 1 - 1
  BY <1>1
<1> QED
  BY <1>2, AccumulatorEmpty

LEMMA AccumulatorResets ==
  ASSUME NEW A, NEW c \in Nat \ {0}, A[c].event \in Resets
  PROVE  AccumulatorAt(A, c + 1) = EmptyAccumulator
<1>1. c \in ResetsBefore(A, c + 1) /\ \A j \in ResetsBefore(A, c + 1) : j <= c
  BY DEF ResetsBefore
<1>2. OpenedBefore(A, c + 1) = c + 1 - 1
  BY <1>1, OpenedAlone
<1> QED
  BY <1>2, AccumulatorEmpty

\* Any other event is one more of the open stream.
LEMMA AccumulatorGrows ==
  ASSUME NEW A, NEW c \in Nat \ {0}, A[c].event \notin Resets
  PROVE  /\ Since(A, c + 1) = Since(A, c) \cup {c}
         /\ Since(A, c) \subseteq 1 .. c - 1
<1>1. ResetsBefore(A, c + 1) = ResetsBefore(A, c)
  BY DEF ResetsBefore
<1>2. /\ OpenedBefore(A, c) \in 0 .. c - 1
      /\ OpenedBefore(A, c) # 0 => OpenedBefore(A, c) \in ResetsBefore(A, c)
      /\ \A j \in ResetsBefore(A, c) : j <= OpenedBefore(A, c)
  BY OpenedIs
<1>3. OpenedBefore(A, c + 1) = OpenedBefore(A, c)
  BY <1>1, <1>2, OpenedAlone
<1> QED
  BY <1>2, <1>3 DEF Since

LEMMA AccumulatorTakes ==
  ASSUME NEW A, NEW c \in Nat \ {0}, IsUsable(A[c])
  PROVE  AccumulatorAt(A, c + 1) =
           [AccumulatorAt(A, c) EXCEPT !.chunks =
              Append(@, [seq |-> A[c].seq, chunk_hash |-> A[c].chunk_hash])]
<1> DEFINE S == UsedIn(A, c)
           n == Cardinality(S)
           leaf0(i) == [seq |-> A[i].seq, chunk_hash |-> A[i].chunk_hash]
<1>1. A[c].event \notin Resets /\ ~IsMalformed(A[c])
  BY DEF IsUsable, IsMalformed, Resets
<1>2. Since(A, c + 1) = Since(A, c) \cup {c} /\ Since(A, c) \subseteq 1 .. c - 1
  BY <1>1, AccumulatorGrows
<1>3. UsedIn(A, c + 1) = S \cup {c} /\ S \in SUBSET (1 .. c - 1)
  BY <1>2 DEF UsedIn
<1>4. SpoiltAt(A, c + 1) = SpoiltAt(A, c)
  <2>1. (\E i \in Since(A, c + 1) : IsMalformed(A[i])) <=> (\E i \in Since(A, c) : IsMalformed(A[i]))
    BY <1>1, <1>2
  <2> QED
    BY <2>1 DEF SpoiltAt
<1>5. c - 1 \in Nat /\ (c - 1) + 1 = c
  OBVIOUS
<1> HIDE DEF S
<1>6. n \in Nat
  BY <1>3, <1>5, NthOf
<1>7. /\ Cardinality(S \cup {c}) = n + 1
      /\ \A k \in 1 .. n : Nth(S \cup {c}, k) = Nth(S, k)
      /\ Nth(S \cup {c}, n + 1) = c
  <2>1. PICK m \in Nat : m = c - 1
    BY <1>5
  <2>2. m + 1 = c /\ S \in SUBSET (1 .. m)
    BY <1>3, <2>1
  <2> QED
    BY <2>2, NthExtends
<1>8. ChunksAt(A, c) = [k \in 1 .. n |-> leaf0(Nth(S, k))]
  BY DEF ChunksAt, S
<1>9. ChunksAt(A, c + 1) = [k \in 1 .. n + 1 |-> leaf0(Nth(S \cup {c}, k))]
  BY <1>3, <1>7 DEF ChunksAt
<1> HIDE DEF n, leaf0
<1>10. ChunksAt(A, c + 1) = Append(ChunksAt(A, c), leaf0(c))
  <2>1. \A k \in 1 .. n + 1 :
          leaf0(Nth(S \cup {c}, k)) = IF k = n + 1 THEN leaf0(c) ELSE leaf0(Nth(S, k))
    BY <1>6, <1>7
  <2> DEFINE V == {leaf0(i) : i \in S \cup {c}}
             old == ChunksAt(A, c)
  <2>2. \A k \in 1 .. n : Nth(S, k) \in S
    BY <1>3, <1>5, NthOf DEF n
  <2>3. leaf0(c) \in V /\ \A i \in S : leaf0(i) \in V
    OBVIOUS
  <2> HIDE DEF V
  <2>4. old \in [1 .. n -> V] /\ \A k \in 1 .. n : old[k] = leaf0(Nth(S, k))
    BY <1>8, <2>2, <2>3
  <2> HIDE DEF old
  <2>5. old \in Seq(V) /\ Len(old) = n
    BY <1>6, <2>4
  <2>6. Append(old, leaf0(c)) \in Seq(V) /\ Len(Append(old, leaf0(c))) = n + 1
    BY <1>6, <2>3, <2>5
  <2>7. ASSUME NEW k \in 1 .. n + 1
        PROVE  Append(old, leaf0(c))[k] = leaf0(Nth(S \cup {c}, k))
    <3>1. CASE k = n + 1
      BY <1>6, <1>7, <2>3, <2>5, <3>1
    <3>2. CASE k # n + 1
      <4>1. k \in 1 .. n
        BY <1>6, <3>2
      <4>2. Append(old, leaf0(c))[k] = old[k]
        <5>1. \A x \in V : Append(old, x)[k] = old[k]
          BY ONLY <1>6, <2>5, <4>1
        <5> QED
          BY <2>3, <5>1
      <4> QED
        BY <1>7, <2>4, <4>1, <4>2
    <3> QED
      BY <3>1, <3>2
  <2>8. Append(old, leaf0(c)) = [k \in 1 .. n + 1 |-> leaf0(Nth(S \cup {c}, k))]
    <3> DEFINE new == Append(old, leaf0(c))
    <3> HIDE DEF new
    <3>1. new \in Seq(V) /\ Len(new) = n + 1
      BY <2>6 DEF new
    <3>2. new \in [1 .. n + 1 -> V]
      BY <3>1
    <3> QED
      BY <2>7, <3>2 DEF new
  <2> QED
    BY <1>9, <2>8 DEF old
<1> DEFINE read == ChunksAt(A, c)
           spoilt == SpoiltAt(A, c)
           leaf1 == leaf0(c)
           was == AccumulatorAt(A, c)
<1>11. AccumulatorAt(A, c + 1) = [chunks |-> Append(read, leaf1), malformed |-> spoilt]
  BY <1>4, <1>10, AccumulatorIs
<1>12. was = [chunks |-> read, malformed |-> spoilt]
  BY AccumulatorIs
<1>13. leaf1 = [seq |-> A[c].seq, chunk_hash |-> A[c].chunk_hash]
  BY DEF leaf0
<1> HIDE DEF read, spoilt, leaf1, was
<1>14. AccumulatorAt(A, c + 1) = [was EXCEPT !.chunks = Append(@, leaf1)]
  <2>1. was = [chunks |-> read, malformed |-> spoilt]
    BY <1>12
  <2>2. [[chunks |-> read, malformed |-> spoilt] EXCEPT !.chunks = Append(@, leaf1)] =
          [chunks |-> Append(read, leaf1), malformed |-> spoilt]
    <3> DEFINE more == Append(read, leaf1)
    <3>1. [[chunks |-> read, malformed |-> spoilt] EXCEPT !.chunks = more] =
            [chunks |-> more, malformed |-> spoilt]
      <4> HIDE DEF more
      <4> QED
        OBVIOUS
    <3> QED
      BY <3>1
  <2> QED
    BY <1>11, <2>1, <2>2
<1> QED
  BY <1>13, <1>14 DEF was

LEMMA AccumulatorSpoils ==
  ASSUME NEW A, NEW c \in Nat \ {0}, IsMalformed(A[c])
  PROVE  AccumulatorAt(A, c + 1) = [AccumulatorAt(A, c) EXCEPT !.malformed = TRUE]
<1>1. A[c].event \notin Resets /\ ~IsUsable(A[c])
  BY DEF IsMalformed, Resets
<1>2. Since(A, c + 1) = Since(A, c) \cup {c}
  BY <1>1, AccumulatorGrows
<1>3. UsedIn(A, c + 1) = UsedIn(A, c)
  BY <1>1, <1>2 DEF UsedIn
<1>4. ChunksAt(A, c + 1) = ChunksAt(A, c)
  BY <1>3 DEF ChunksAt
<1>5. SpoiltAt(A, c + 1) = TRUE
  BY <1>2 DEF SpoiltAt
<1>6. /\ AccumulatorAt(A, c + 1) = [chunks |-> ChunksAt(A, c), malformed |-> TRUE]
      /\ AccumulatorAt(A, c) = [chunks |-> ChunksAt(A, c), malformed |-> SpoiltAt(A, c)]
  BY <1>4, <1>5, AccumulatorIs, Zenon
<1>7. \A x, b, t : [[chunks |-> x, malformed |-> b] EXCEPT !.malformed = t]
                      = [chunks |-> x, malformed |-> t]
  OBVIOUS
<1>8. [AccumulatorAt(A, c) EXCEPT !.malformed = TRUE]
        = [[chunks |-> ChunksAt(A, c), malformed |-> SpoiltAt(A, c)] EXCEPT !.malformed = TRUE]
  BY <1>6, Zenon
<1>9. [[chunks |-> ChunksAt(A, c), malformed |-> SpoiltAt(A, c)] EXCEPT !.malformed = TRUE]
        = [chunks |-> ChunksAt(A, c), malformed |-> TRUE]
  BY <1>7
<1> QED
  BY <1>6, <1>8, <1>9, Zenon

LEMMA AccumulatorStays ==
  ASSUME NEW A, NEW c \in Nat \ {0}, A[c].event \notin Resets, A[c].event # "streaming_egress_chunk"
  PROVE  AccumulatorAt(A, c + 1) = AccumulatorAt(A, c)
<1>1. ~IsUsable(A[c]) /\ ~IsMalformed(A[c])
  BY DEF IsMalformed, IsUsable
<1>2. Since(A, c + 1) = Since(A, c) \cup {c}
  BY AccumulatorGrows
<1>3. UsedIn(A, c + 1) = UsedIn(A, c)
  BY <1>1, <1>2 DEF UsedIn
<1>4. ChunksAt(A, c + 1) = ChunksAt(A, c)
  BY <1>3 DEF ChunksAt
<1>5. SpoiltAt(A, c + 1) = SpoiltAt(A, c)
  <2>1. (\E i \in Since(A, c + 1) : IsMalformed(A[i])) <=> (\E i \in Since(A, c) : IsMalformed(A[i]))
    BY <1>1, <1>2
  <2> QED
    BY <2>1 DEF SpoiltAt
<1> QED
  BY <1>4, <1>5, AccumulatorIs

-----------------------------------------------------------------------------
(* The first failure.                                                      *)

Failing(A) == {c \in DOMAIN A : A[c].event = "streaming_egress_completed" /\ FailureAt(A, c) # "none"}

LEMMA NothingFails ==
  ASSUME NEW A, Failing(A) = {}
  PROVE  VerifyStreamingMerkleRoots(A) = "none"
BY DEF VerifyStreamingMerkleRoots, Failing

LEMMA FirstFails ==
  ASSUME NEW A, DOMAIN A \subseteq Nat, NEW c \in Failing(A), \A d \in Failing(A) : c <= d
  PROVE  VerifyStreamingMerkleRoots(A) = FailureAt(A, c)
<1> DEFINE first == CHOOSE x \in Failing(A) : \A other \in Failing(A) : x <= other
<1>1. first \in Failing(A) /\ \A other \in Failing(A) : first <= other
  OBVIOUS
<1>2. Failing(A) \subseteq Nat
  BY DEF Failing
<1>3. first = c
  <2> HIDE DEF first
  <2>1. first <= c /\ c <= first /\ first \in Nat /\ c \in Nat
    BY <1>1, <1>2
  <2> QED
    BY <2>1
<1>4. VerifyStreamingMerkleRoots(A) = FailureAt(A, first)
  BY DEF VerifyStreamingMerkleRoots, Failing
<1> QED
  BY <1>3, <1>4

-----------------------------------------------------------------------------
(* The walk computes what the definition says.                             *)

Roots == {StreamRoot(SubSeq(Content[s], 1, n)) : s \in Streams, n \in Nat}
Readings == ChunkHashes \cup {OtherHash, NoValue}

OtherRecords == [by : {NoValue}, event : {Other}]
StartedRecords == [by : Streams, event : {Started}]
ChunkRecords ==
  [by : Streams, event : [event : {"streaming_egress_chunk"}, seq : Nat, chunk_hash : Readings]]
CompletedRecords ==
  [by : Streams, event : [event : {"streaming_egress_completed"},
                          total_chunks : Nat, streaming_merkle_root : Roots]]
TrailRecords == OtherRecords \cup StartedRecords \cup ChunkRecords \cup CompletedRecords

TrailTyped == trail \in Seq(TrailRecords)

\* Up to the cursor nothing fails, and the accumulator is the one of the next event.
WalkHolds ==
  /\ stage \in {"run", "sealed", "walk", "done"}
  /\ cursor \in 0 .. Len(trail)
  /\ stage \in {"run", "sealed"} => cursor = 0 /\ acc = EmptyAccumulator /\ outcome = "none"
  /\ stage = "walk" => /\ acc = AccumulatorAt(Events, cursor + 1)
                       /\ outcome = "none"
                       /\ \A c \in Failing(Events) : cursor < c
  /\ stage = "done" => outcome = VerifyStreamingMerkleRoots(Events)

\* Events of the trail, by number.
LEMMA EventsAre ==
  ASSUME TrailTyped
  PROVE  /\ Len(trail) \in Nat /\ DOMAIN trail = 1 .. Len(trail) /\ DOMAIN Events = 1 .. Len(trail)
         /\ \A i \in DOMAIN trail : Events[i] = trail[i].event /\ trail[i] \in TrailRecords
BY DEF TrailTyped, Events

\* What every event that is consumed has in common.
LEMMA ConsumeHolds ==
  ASSUME TrailTyped, WalkHolds, NEW kind, Consume(kind)
  PROVE  /\ cursor \in Nat /\ cursor + 1 \in 1 .. Len(trail) /\ cursor' = cursor + 1
         /\ cursor' \in 0 .. Len(trail')
         /\ trail' = trail /\ Events' = Events /\ sent' = sent /\ faults' = faults
         /\ Events[cursor + 1] = Current /\ Current.event = kind
         /\ stage = "walk" /\ outcome = "none"
         /\ acc = AccumulatorAt(Events, cursor + 1)
         /\ \A c \in Failing(Events) : c \in Nat /\ cursor < c
<1>1. /\ stage = "walk" /\ cursor < Len(trail) /\ Current.event = kind
      /\ cursor' = cursor + 1 /\ trail' = trail /\ sent' = sent /\ faults' = faults
  BY DEF Consume
<1>2. /\ Len(trail) \in Nat /\ DOMAIN trail = 1 .. Len(trail) /\ DOMAIN Events = 1 .. Len(trail)
      /\ \A i \in DOMAIN trail : Events[i] = trail[i].event
  BY EventsAre
<1>3. /\ cursor \in 0 .. Len(trail) /\ outcome = "none" /\ acc = AccumulatorAt(Events, cursor + 1)
      /\ \A c \in Failing(Events) : cursor < c
  BY <1>1 DEF WalkHolds
<1>4. cursor \in Nat /\ cursor + 1 \in 1 .. Len(trail) /\ cursor + 1 \in 0 .. Len(trail)
  BY <1>1, <1>2, <1>3
<1>5. Events' = Events
  BY <1>1 DEF Events
<1>6. Events[cursor + 1] = Current
  BY <1>2, <1>4 DEF Current
<1>7. \A c \in Failing(Events) : c \in Nat
  BY <1>2 DEF Failing
<1> QED
  BY <1>1, <1>3, <1>4, <1>5, <1>6, <1>7

\* An event that is not a completed one fails nothing.
LEMMA PassedHolds ==
  ASSUME TrailTyped, WalkHolds, NEW kind, Consume(kind), stage' = "walk", outcome' = "none",
         cursor + 1 \notin Failing(Events),
         acc' = AccumulatorAt(Events, cursor + 1 + 1)
  PROVE  WalkHolds'
<1>1. /\ cursor \in Nat /\ cursor' = cursor + 1 /\ cursor' \in 0 .. Len(trail')
      /\ Events' = Events
      /\ \A c \in Failing(Events) : c \in Nat /\ cursor < c
  BY ConsumeHolds
<1>2. \A c \in Failing(Events) : cursor + 1 < c
  <2> TAKE c \in Failing(Events)
  <2>1. c \in Nat /\ cursor < c /\ c # cursor + 1
    BY <1>1
  <2> QED
    BY <1>1, <2>1
<1>3. Failing(Events)' = Failing(Events)
  BY <1>1 DEF Failing
<1>4. (acc = AccumulatorAt(Events, cursor + 1))'
  BY <1>1 DEF AccumulatorAt
<1> QED
  BY <1>1, <1>2, <1>3, <1>4 DEF WalkHolds

LEMMA WalkStartedHolds ==
  ASSUME TrailTyped, WalkHolds, WalkStarted
  PROVE  WalkHolds'
<1>1. Consume("streaming_egress_started") /\ acc' = EmptyAccumulator
      /\ stage' = stage /\ outcome' = outcome
  BY DEF WalkStarted
<1>2. /\ cursor + 1 \in Nat \ {0} /\ Events[cursor + 1].event = "streaming_egress_started"
      /\ stage = "walk" /\ outcome = "none"
  BY <1>1, ConsumeHolds
<1>3. AccumulatorAt(Events, cursor + 1 + 1) = EmptyAccumulator
  BY <1>2, AccumulatorResets DEF Resets
<1>4. cursor + 1 \notin Failing(Events)
  BY <1>2 DEF Failing
<1> QED
  BY <1>1, <1>2, <1>3, <1>4, PassedHolds

LEMMA WalkChunkHolds ==
  ASSUME TrailTyped, WalkHolds, WalkChunk
  PROVE  WalkHolds'
<1>1. /\ Consume("streaming_egress_chunk") /\ stage' = stage /\ outcome' = outcome
      /\ \/ /\ IsUsable(Current)
            /\ acc' = [acc EXCEPT !.chunks =
                         Append(@, [seq |-> Current.seq, chunk_hash |-> Current.chunk_hash])]
         \/ /\ IsMalformed(Current)
            /\ acc' = [acc EXCEPT !.malformed = TRUE]
  BY DEF WalkChunk
<1>2. /\ cursor + 1 \in Nat \ {0} /\ Events[cursor + 1] = Current
      /\ Current.event = "streaming_egress_chunk"
      /\ stage = "walk" /\ outcome = "none" /\ acc = AccumulatorAt(Events, cursor + 1)
  BY <1>1, ConsumeHolds
<1>3. acc' = AccumulatorAt(Events, cursor + 1 + 1)
  <2>1. CASE IsUsable(Current)
    <3>1. ~IsMalformed(Current)
      BY <2>1 DEF IsMalformed
    <3> QED
      BY <1>1, <1>2, <2>1, <3>1, AccumulatorTakes
  <2>2. CASE IsMalformed(Current)
    <3>1. ~IsUsable(Current)
      BY <2>2 DEF IsMalformed
    <3> QED
      BY <1>1, <1>2, <2>2, <3>1, AccumulatorSpoils
  <2> QED
    BY <1>1, <2>1, <2>2
<1>4. cursor + 1 \notin Failing(Events)
  BY <1>2 DEF Failing
<1> QED
  BY <1>1, <1>2, <1>3, <1>4, PassedHolds

LEMMA WalkOtherHolds ==
  ASSUME TrailTyped, WalkHolds, WalkOther
  PROVE  WalkHolds'
<1>1. /\ Consume("network_allowed") /\ acc' = acc /\ stage' = stage /\ outcome' = outcome
  BY DEF WalkOther, Other
<1>2. /\ cursor + 1 \in Nat \ {0} /\ Events[cursor + 1].event = "network_allowed"
      /\ stage = "walk" /\ outcome = "none" /\ acc = AccumulatorAt(Events, cursor + 1)
  BY <1>1, ConsumeHolds
<1>3. acc' = AccumulatorAt(Events, cursor + 1 + 1)
  BY <1>1, <1>2, AccumulatorStays DEF Resets
<1>4. cursor + 1 \notin Failing(Events)
  BY <1>2 DEF Failing
<1> QED
  BY <1>1, <1>2, <1>3, <1>4, PassedHolds

LEMMA WalkCompletedHolds ==
  ASSUME TrailTyped, WalkHolds, WalkCompleted
  PROVE  WalkHolds'
<1> DEFINE fault == CloseStream(acc, Current)
<1>1. /\ Consume("streaming_egress_completed") /\ outcome' = fault
      /\ \/ fault # "none" /\ stage' = "done"
         \/ fault = "none" /\ acc' = EmptyAccumulator /\ stage' = stage
  BY DEF WalkCompleted
<1>2. /\ cursor + 1 \in Nat \ {0} /\ cursor + 1 \in 1 .. Len(trail) /\ Events[cursor + 1] = Current
      /\ Current.event = "streaming_egress_completed"
      /\ stage = "walk" /\ acc = AccumulatorAt(Events, cursor + 1)
      /\ cursor \in Nat /\ cursor' \in 0 .. Len(trail') /\ Events' = Events
      /\ \A c \in Failing(Events) : c \in Nat /\ cursor < c
  BY <1>1, ConsumeHolds
<1>3. fault = FailureAt(Events, cursor + 1)
  BY <1>2 DEF FailureAt
<1> HIDE DEF fault
<1>4. CASE fault = "none"
  <2>1. AccumulatorAt(Events, cursor + 1 + 1) = EmptyAccumulator
    BY <1>2, AccumulatorResets DEF Resets
  <2>2. cursor + 1 \notin Failing(Events)
    BY <1>3, <1>4 DEF Failing
  <2> QED
    BY <1>1, <1>2, <1>4, <2>1, <2>2, PassedHolds
<1>5. CASE fault # "none"
  <2>1. DOMAIN Events = 1 .. Len(trail) /\ DOMAIN Events \subseteq Nat
    BY EventsAre
  <2>2. cursor + 1 \in Failing(Events)
    BY <1>2, <1>3, <1>5, <2>1 DEF Failing
  <2>3. \A c \in Failing(Events) : cursor + 1 <= c
    BY <1>2
  <2>4. VerifyStreamingMerkleRoots(Events) = fault
    BY <1>3, <2>1, <2>2, <2>3, FirstFails
  <2>5. VerifyStreamingMerkleRoots(Events)' = VerifyStreamingMerkleRoots(Events)
    <3>1. Events' = Events
      BY <1>2
    <3> QED
      BY <3>1 DEF VerifyStreamingMerkleRoots, FailureAt, AccumulatorAt, OpenedBefore
  <2> QED
    BY <1>1, <1>2, <1>5, <2>4, <2>5 DEF WalkHolds
<1> QED
  BY <1>4, <1>5

LEMMA WalkEndHolds ==
  ASSUME TrailTyped, WalkHolds, WalkEnd
  PROVE  WalkHolds'
<1>1. /\ stage = "walk" /\ cursor = Len(trail) /\ stage' = "done"
      /\ trail' = trail /\ cursor' = cursor /\ outcome' = outcome
  BY DEF WalkEnd
<1>2. outcome = "none" /\ cursor \in 0 .. Len(trail) /\ \A c \in Failing(Events) : cursor < c
  BY <1>1 DEF WalkHolds
<1>3. Len(trail) \in Nat /\ DOMAIN Events = 1 .. Len(trail)
  BY EventsAre
<1>4. Failing(Events) = {}
  <2>1. \A c \in Failing(Events) : c \in 1 .. Len(trail)
    BY <1>3 DEF Failing
  <2> QED
    BY <1>1, <1>2, <1>3, <2>1
<1>5. VerifyStreamingMerkleRoots(Events) = "none"
  BY <1>4, NothingFails
<1>6. Events' = Events
  BY <1>1 DEF Events
<1>7. VerifyStreamingMerkleRoots(Events)' = VerifyStreamingMerkleRoots(Events)
  BY <1>6 DEF VerifyStreamingMerkleRoots, FailureAt, AccumulatorAt, OpenedBefore
<1> QED
  BY <1>1, <1>2, <1>5, <1>7 DEF WalkHolds

-----------------------------------------------------------------------------
(* What a trail looks like, before and after the faults.                   *)

KindAt(t, i) == t[i].event.event
ChunkAt(t, i) == KindAt(t, i) = "streaming_egress_chunk"
StartAt(t, i) == KindAt(t, i) = "streaming_egress_started"
EndAt(t, i) == KindAt(t, i) = "streaming_egress_completed"
SameStream(t, i, j) == t[i].by = t[j].by /\ t[i].by \in Streams

\* A stream starts once, ends at most once, and numbers its chunks, each below
\* the total it ends with; the root is the one of what was sent.
InStreamOrder(t) ==
  /\ \A i, j \in DOMAIN t : SameStream(t, i, j) /\ i # j =>
       /\ StartAt(t, i) => i < j
       /\ EndAt(t, i) => j < i
       /\ ChunkAt(t, i) /\ ChunkAt(t, j) => t[i].event.seq # t[j].event.seq
       /\ EndAt(t, i) /\ ChunkAt(t, j) => t[j].event.seq < t[i].event.total_chunks
  /\ \A i \in DOMAIN t : t[i].by \in Streams =>
       \E j \in DOMAIN t : t[j].by = t[i].by /\ StartAt(t, j)
  /\ \A i \in DOMAIN t : ChunkAt(t, i) => t[i].event.seq < Len(Content[t[i].by])
  /\ \A i \in DOMAIN t : EndAt(t, i) =>
       /\ t[i].event.total_chunks <= Len(Content[t[i].by])
       /\ t[i].event.streaming_merkle_root =
            StreamRoot(SubSeq(Content[t[i].by], 1, t[i].event.total_chunks))

\* What sent says of a stream is what the trail says.
AsSent(t, f) ==
  \A s \in Streams :
    /\ f[s] \in {NotStarted, Closed} \cup 0 .. Len(Content[s])
    /\ f[s] = NotStarted => \A i \in DOMAIN t : t[i].by # s
    /\ f[s] # NotStarted => \E i \in DOMAIN t : t[i].by = s /\ StartAt(t, i)
    /\ f[s] # Closed => \A i \in DOMAIN t : t[i].by = s => ~EndAt(t, i)
    /\ f[s] = Closed => \E i \in DOMAIN t : t[i].by = s /\ EndAt(t, i)
    /\ f[s] \notin {NotStarted, Closed} =>
         \A i \in DOMAIN t : t[i].by = s /\ ChunkAt(t, i) => t[i].event.seq < f[s]

\* The kinds of a record, and what each of them holds.
LEMMA RecordKinds ==
  ASSUME NEW r \in TrailRecords
  PROVE  /\ r.event.event \in {"network_allowed", "streaming_egress_started",
                               "streaming_egress_chunk", "streaming_egress_completed"}
         /\ r.event.event = "network_allowed" => r.by = NoValue /\ r.event = Other
         /\ r.event.event # "network_allowed" => r.by \in Streams
         /\ r.event.event = "streaming_egress_started" => r \in StartedRecords
         /\ r.event.event = "streaming_egress_chunk" =>
              r \in ChunkRecords /\ r.event.seq \in Nat /\ r.event.chunk_hash \in Readings
         /\ r.event.event = "streaming_egress_completed" =>
              r \in CompletedRecords /\ r.event.total_chunks \in Nat
         /\ r.by \in Streams \cup {NoValue}
         /\ r.by \in Streams <=> r.event.event # "network_allowed"
<1>1. CASE r \in OtherRecords
  BY <1>1, StreamsAssumption DEF OtherRecords, Other
<1>2. CASE r \in StartedRecords
  BY <1>2 DEF StartedRecords, Started
<1>3. CASE r \in ChunkRecords
  BY <1>3 DEF ChunkRecords
<1>4. CASE r \in CompletedRecords
  BY <1>4 DEF CompletedRecords
<1> QED
  BY <1>1, <1>2, <1>3, <1>4 DEF TrailRecords

LEMMA ContentIs ==
  ASSUME NEW s \in Streams
  PROVE  /\ Content[s] \in Seq(ChunkHashes) /\ Len(Content[s]) \in Nat
         /\ DOMAIN Content[s] = 1 .. Len(Content[s])
         /\ \A k \in 1 .. Len(Content[s]) : Content[s][k] \in ChunkHashes /\ Content[s][k] # NoValue
<1>1. Content[s] \in Seq(ChunkHashes) /\ NoValue \notin ChunkHashes
  BY ContentAssumption
<1> QED
  BY <1>1

\* The trail t is the trail u up to the readings of chunks, the order of the
\* chunks of a stream, and chunks that are gone.
Rearranges(u, t, f) ==
  /\ f \in [DOMAIN t -> DOMAIN u]
  /\ \A k, l \in DOMAIN t : f[k] = f[l] => k = l
  /\ \A k \in DOMAIN t :
       /\ t[k].by = u[f[k]].by
       /\ \/ t[k].event = u[f[k]].event
          \/ ChunkAt(t, k) /\ ChunkAt(u, f[k]) /\ t[k].event.seq = u[f[k]].event.seq
  /\ \A k, l \in DOMAIN t :
       SameStream(t, k, l) /\ f[k] < f[l] /\ ~(ChunkAt(u, f[k]) /\ ChunkAt(u, f[l])) => k < l
  /\ \A i \in DOMAIN u : ~ChunkAt(u, i) => \E k \in DOMAIN t : f[k] = i

LEMMA RearrangedKeeps ==
  ASSUME NEW u, NEW t, NEW f, Rearranges(u, t, f), NEW g,
         InStreamOrder(u), AsSent(u, g)
  PROVE  InStreamOrder(t) /\ AsSent(t, g)
<1>1. /\ \A k \in DOMAIN t : f[k] \in DOMAIN u
      /\ \A k, l \in DOMAIN t : f[k] = f[l] => k = l
      /\ \A k \in DOMAIN t : t[k].by = u[f[k]].by
      /\ \A k, l \in DOMAIN t :
           SameStream(t, k, l) /\ f[k] < f[l] /\ ~(ChunkAt(u, f[k]) /\ ChunkAt(u, f[l])) => k < l
      /\ \A i \in DOMAIN u : ~ChunkAt(u, i) => \E k \in DOMAIN t : f[k] = i
  BY DEF Rearranges
<1>2. ASSUME NEW k \in DOMAIN t
      PROVE  /\ KindAt(t, k) = KindAt(u, f[k])
             /\ ChunkAt(t, k) => t[k].event.seq = u[f[k]].event.seq
             /\ EndAt(t, k) => t[k].event = u[f[k]].event
             /\ ChunkAt(t, k) <=> ChunkAt(u, f[k])
             /\ StartAt(t, k) <=> StartAt(u, f[k])
             /\ EndAt(t, k) <=> EndAt(u, f[k])
             /\ StartAt(t, k) => ~ChunkAt(t, k)
             /\ EndAt(t, k) => ~ChunkAt(t, k)
  <2>1. \/ t[k].event = u[f[k]].event
        \/ ChunkAt(t, k) /\ ChunkAt(u, f[k]) /\ t[k].event.seq = u[f[k]].event.seq
    BY DEF Rearranges
  <2> QED
    BY <2>1 DEF KindAt, ChunkAt, StartAt, EndAt
<1>3. ASSUME NEW i \in DOMAIN u, ~ChunkAt(u, i)
      PROVE  \E k \in DOMAIN t : /\ f[k] = i /\ t[k].by = u[i].by
                                 /\ (StartAt(u, i) => StartAt(t, k)) /\ (EndAt(u, i) => EndAt(t, k))
  <2>1. PICK k \in DOMAIN t : f[k] = i
    BY <1>1, <1>3
  <2> QED
    BY <1>1, <1>2, <2>1
<1>4. \A i \in DOMAIN u : StartAt(u, i) \/ EndAt(u, i) => ~ChunkAt(u, i)
  BY DEF StartAt, EndAt, ChunkAt
<1>5. ASSUME NEW k \in DOMAIN t, NEW l \in DOMAIN t, SameStream(t, k, l), k # l
      PROVE  /\ StartAt(t, k) => k < l
             /\ EndAt(t, k) => l < k
             /\ ChunkAt(t, k) /\ ChunkAt(t, l) => t[k].event.seq # t[l].event.seq
             /\ EndAt(t, k) /\ ChunkAt(t, l) => t[l].event.seq < t[k].event.total_chunks
  <2>1. f[k] \in DOMAIN u /\ f[l] \in DOMAIN u /\ f[k] # f[l] /\ SameStream(u, f[k], f[l])
    BY <1>1, <1>5 DEF SameStream
  <2>2. /\ StartAt(u, f[k]) => f[k] < f[l]
        /\ EndAt(u, f[k]) => f[l] < f[k]
        /\ ChunkAt(u, f[k]) /\ ChunkAt(u, f[l]) => u[f[k]].event.seq # u[f[l]].event.seq
        /\ EndAt(u, f[k]) /\ ChunkAt(u, f[l]) => u[f[l]].event.seq < u[f[k]].event.total_chunks
    BY <2>1 DEF InStreamOrder
  <2>3. SameStream(t, l, k)
    BY <1>5 DEF SameStream
  <2>4. StartAt(t, k) => k < l
    BY <1>1, <1>2, <1>4, <1>5, <2>1, <2>2
  <2>5. EndAt(t, k) => l < k
    BY <1>1, <1>2, <1>4, <2>1, <2>2, <2>3
  <2>6. ChunkAt(t, k) /\ ChunkAt(t, l) => t[k].event.seq # t[l].event.seq
    BY <1>2, <2>2
  <2>7. EndAt(t, k) /\ ChunkAt(t, l) => t[l].event.seq < t[k].event.total_chunks
    BY <1>2, <2>2
  <2> QED
    BY <2>4, <2>5, <2>6, <2>7
<1>6. ASSUME NEW s \in Streams, NEW i \in DOMAIN u, u[i].by = s, StartAt(u, i)
      PROVE  \E k \in DOMAIN t : t[k].by = s /\ StartAt(t, k)
  BY <1>3, <1>4, <1>6
<1>7. ASSUME NEW s \in Streams, NEW i \in DOMAIN u, u[i].by = s, EndAt(u, i)
      PROVE  \E k \in DOMAIN t : t[k].by = s /\ EndAt(t, k)
  BY <1>3, <1>4, <1>7
<1>8. InStreamOrder(t)
  <2>1. ASSUME NEW k \in DOMAIN t, t[k].by \in Streams
        PROVE  \E j \in DOMAIN t : t[j].by = t[k].by /\ StartAt(t, j)
    <3>1. \E j \in DOMAIN u : u[j].by = t[k].by /\ StartAt(u, j)
      BY <1>1, <2>1 DEF InStreamOrder
    <3> QED
      BY <1>6, <2>1, <3>1
  <2>2. ASSUME NEW k \in DOMAIN t, ChunkAt(t, k) PROVE t[k].event.seq < Len(Content[t[k].by])
    <3>1. u[f[k]].event.seq < Len(Content[u[f[k]].by])
      BY <1>1, <1>2, <2>2 DEF InStreamOrder
    <3> QED
      BY <1>1, <1>2, <2>2, <3>1
  <2>3. ASSUME NEW k \in DOMAIN t, EndAt(t, k)
        PROVE  /\ t[k].event.total_chunks <= Len(Content[t[k].by])
               /\ t[k].event.streaming_merkle_root =
                    StreamRoot(SubSeq(Content[t[k].by], 1, t[k].event.total_chunks))
    <3>1. t[k].event = u[f[k]].event /\ t[k].by = u[f[k]].by /\ EndAt(u, f[k]) /\ f[k] \in DOMAIN u
      BY <1>1, <1>2, <2>3
    <3>2. /\ u[f[k]].event.total_chunks <= Len(Content[u[f[k]].by])
          /\ u[f[k]].event.streaming_merkle_root =
               StreamRoot(SubSeq(Content[u[f[k]].by], 1, u[f[k]].event.total_chunks))
      BY <3>1 DEF InStreamOrder
    <3> QED
      BY <3>1, <3>2
  <2> QED
    BY <1>5, <2>1, <2>2, <2>3 DEF InStreamOrder
<1>9. AsSent(t, g)
  <2> SUFFICES ASSUME NEW s \in Streams
               PROVE  /\ g[s] \in {NotStarted, Closed} \cup 0 .. Len(Content[s])
                      /\ g[s] = NotStarted => \A i \in DOMAIN t : t[i].by # s
                      /\ g[s] # NotStarted => \E i \in DOMAIN t : t[i].by = s /\ StartAt(t, i)
                      /\ g[s] # Closed => \A i \in DOMAIN t : t[i].by = s => ~EndAt(t, i)
                      /\ g[s] = Closed => \E i \in DOMAIN t : t[i].by = s /\ EndAt(t, i)
                      /\ g[s] \notin {NotStarted, Closed} =>
                           \A i \in DOMAIN t : t[i].by = s /\ ChunkAt(t, i) => t[i].event.seq < g[s]
    BY DEF AsSent
  <2>1. /\ g[s] \in {NotStarted, Closed} \cup 0 .. Len(Content[s])
        /\ g[s] = NotStarted => \A i \in DOMAIN u : u[i].by # s
        /\ g[s] # NotStarted => \E i \in DOMAIN u : u[i].by = s /\ StartAt(u, i)
        /\ g[s] # Closed => \A i \in DOMAIN u : u[i].by = s => ~EndAt(u, i)
        /\ g[s] = Closed => \E i \in DOMAIN u : u[i].by = s /\ EndAt(u, i)
        /\ g[s] \notin {NotStarted, Closed} =>
             \A i \in DOMAIN u : u[i].by = s /\ ChunkAt(u, i) => u[i].event.seq < g[s]
    BY DEF AsSent
  <2>2. g[s] = NotStarted => \A i \in DOMAIN t : t[i].by # s
    BY <1>1, <2>1
  <2>3. g[s] # NotStarted => \E i \in DOMAIN t : t[i].by = s /\ StartAt(t, i)
    BY <1>6, <2>1
  <2>4. g[s] # Closed => \A i \in DOMAIN t : t[i].by = s => ~EndAt(t, i)
    BY <1>1, <1>2, <2>1
  <2>5. g[s] = Closed => \E i \in DOMAIN t : t[i].by = s /\ EndAt(t, i)
    BY <1>7, <2>1
  <2>6. g[s] \notin {NotStarted, Closed} =>
          \A i \in DOMAIN t : t[i].by = s /\ ChunkAt(t, i) => t[i].event.seq < g[s]
    BY <1>1, <1>2, <2>1
  <2> QED
    BY <2>1, <2>2, <2>3, <2>4, <2>5, <2>6
<1> QED
  BY <1>8, <1>9

\* Everything a fault keeps, for the trail t that it leaves.
GoodTrail(t) == t \in Seq(TrailRecords) /\ InStreamOrder(t) /\ AsSent(t, sent)

LEMMA AlteredIsGood ==
  ASSUME GoodTrail(trail), NEW i \in ChunkEvents, NEW h \in Readings
  PROVE  GoodTrail([trail EXCEPT ![i].event.chunk_hash = h])
<1> DEFINE t == [trail EXCEPT ![i].event.chunk_hash = h]
           f == [k \in DOMAIN trail |-> k]
<1>1. /\ trail \in Seq(TrailRecords) /\ i \in DOMAIN trail /\ trail[i] \in TrailRecords
      /\ trail[i].event.event = "streaming_egress_chunk"
  BY DEF GoodTrail, ChunkEvents
<1>2. trail[i] \in ChunkRecords
  BY <1>1, RecordKinds
<1>3. /\ DOMAIN t = DOMAIN trail /\ Len(t) = Len(trail)
      /\ \A k \in DOMAIN trail : k # i => t[k] = trail[k]
      /\ t[i] = [trail[i] EXCEPT !.event.chunk_hash = h]
  BY <1>1
<1>4. t[i] \in ChunkRecords /\ t[i].by = trail[i].by /\ t[i].event.event = "streaming_egress_chunk"
      /\ t[i].event.seq = trail[i].event.seq
  <2>1. PICK r \in ChunkRecords : r = trail[i]
    BY <1>2
  <2>2. LET q == [r EXCEPT !.event.chunk_hash = h]
        IN  q \in ChunkRecords /\ q.by = r.by /\ q.event.event = r.event.event
            /\ q.event.seq = r.event.seq
    BY DEF ChunkRecords
  <2> QED
    BY <1>1, <1>3, <2>1, <2>2
<1> HIDE DEF t
<1>5. t \in Seq(TrailRecords)
  <2>1. t[i] \in TrailRecords
    BY <1>4 DEF TrailRecords
  <2>2. ASSUME NEW k \in 1 .. Len(trail) PROVE t[k] \in TrailRecords
    <3>1. CASE k = i
      BY <2>1, <3>1
    <3>2. CASE k # i
      <4>1. k \in DOMAIN trail /\ trail[k] \in TrailRecords
        BY <1>1
      <4> QED
        BY <1>3, <3>2, <4>1
    <3> QED
      BY <3>1, <3>2
  <2>3. DOMAIN t = 1 .. Len(trail) /\ Len(trail) \in Nat
    BY <1>1, <1>3
  <2>4. t = [k \in DOMAIN t |-> t[k]]
    BY <1>1 DEF t
  <2>5. t \in [1 .. Len(trail) -> TrailRecords]
    BY <2>2, <2>3, <2>4
  <2> QED
    BY <2>3, <2>5
<1>6. ASSUME NEW k \in DOMAIN trail
      PROVE  /\ t[k].by = trail[k].by
             /\ \/ t[k].event = trail[k].event
                \/ ChunkAt(t, k) /\ ChunkAt(trail, k) /\ t[k].event.seq = trail[k].event.seq
  <2>1. CASE k = i
    BY <1>1, <1>4, <2>1 DEF ChunkAt, KindAt
  <2>2. CASE k # i
    BY <1>3, <2>2
  <2> QED
    BY <2>1, <2>2
<1>7. Rearranges(trail, t, f)
  <2>1. f \in [DOMAIN t -> DOMAIN trail] /\ \A k \in DOMAIN trail : f[k] = k
    BY <1>3
  <2> HIDE DEF f
  <2> QED
    BY <1>3, <1>6, <2>1 DEF Rearranges
<1>8. InStreamOrder(t) /\ AsSent(t, sent)
  <2>1. InStreamOrder(trail) /\ AsSent(trail, sent)
    BY DEF GoodTrail
  <2> HIDE DEF f
  <2> QED
    BY <1>7, <2>1, RearrangedKeeps
<1> QED
  BY <1>5, <1>8 DEF GoodTrail, t

LEMMA DroppedIsGood ==
  ASSUME GoodTrail(trail), NEW i \in ChunkEvents
  PROVE  GoodTrail(SubSeq(trail, 1, i - 1) \o SubSeq(trail, i + 1, Len(trail)))
<1> DEFINE n == Len(trail)
           front == SubSeq(trail, 1, i - 1)
           back == SubSeq(trail, i + 1, n)
           t == front \o back
           at(k) == IF k < i THEN k ELSE k + 1
           f == [k \in 1 .. n - 1 |-> at(k)]
<1>1. /\ trail \in Seq(TrailRecords) /\ n \in Nat /\ DOMAIN trail = 1 .. n /\ i \in 1 .. n
      /\ trail[i].event.event = "streaming_egress_chunk"
  BY DEF GoodTrail, ChunkEvents
<1>2. /\ front \in Seq(TrailRecords) /\ Len(front) = i - 1
      /\ \A k \in 1 .. i - 1 : front[k] = trail[k]
  BY <1>1
<1>3. /\ back \in Seq(TrailRecords) /\ Len(back) = n - i
      /\ \A k \in 1 .. n - i : back[k] = trail[k + i]
  <2> HIDE DEF n
  <2>1. i + 1 \in 1 .. n + 1 /\ n - (i + 1) + 1 = n - i /\ n = Len(trail)
    BY <1>1 DEF n
  <2>2. back \in Seq(TrailRecords)
    BY <1>1, <2>1
  <2>3. Len(back) = n - i
    <3>1. CASE i = n
      <4>1. back = <<>>
        BY <1>1, <3>1
      <4> QED
        BY <1>1, <3>1, <4>1
    <3>2. CASE i < n
      <4>1. Len(back) = n - (i + 1) + 1
        BY <1>1, <3>2
      <4> QED
        BY <2>1, <4>1
    <3> QED
      BY <1>1, <3>1, <3>2
  <2>4. ASSUME NEW k \in 1 .. n - i PROVE back[k] = trail[k + i]
    <3>1. (i + 1) + k - 1 = k + i
      BY <1>1
    <3> QED
      BY <1>1, <2>1, <2>4, <3>1
  <2> QED
    BY <2>2, <2>3, <2>4
<1> HIDE DEF front, back, n
<1>4. /\ t \in Seq(TrailRecords) /\ Len(t) = n - 1 /\ DOMAIN t = 1 .. n - 1
  <2>1. t \in Seq(TrailRecords)
    BY <1>2, <1>3
  <2>2. Len(t) = Len(front) + Len(back)
    BY <1>2, <1>3
  <2>3. Len(t) = n - 1
    BY <1>1, <1>2, <1>3, <2>2
  <2> HIDE DEF t
  <2> QED
    BY <2>1, <2>3
<1>5. \A k \in 1 .. n - 1 : at(k) \in 1 .. n /\ at(k) # i
  BY <1>1
<1>6. ASSUME NEW k \in 1 .. n - 1 PROVE t[k] = trail[at(k)]
  <2>1. CASE k < i
    <3>1. k \in 1 .. i - 1
      BY <1>1, <2>1
    <3> QED
      BY <1>2, <1>3, <2>1, <3>1
  <2>2. CASE ~(k < i)
    <3>1. /\ k - (i - 1) \in 1 .. n - i /\ k - (i - 1) + i = k + 1
          /\ k > i - 1 /\ k <= (i - 1) + (n - i)
      BY <1>1, <2>2
    <3>2. k \in 1 .. Len(front) + Len(back) /\ k > Len(front)
      BY <1>1, <1>2, <1>3, <3>1
    <3>3. t[k] = back[k - Len(front)]
      <4>1. front \in Seq(TrailRecords) /\ back \in Seq(TrailRecords) /\ t = front \o back
        BY <1>2, <1>3
      <4> HIDE DEF t
      <4> QED
        BY ONLY <3>2, <4>1
    <3>4. t[k] = back[k - (i - 1)]
      BY <1>2, <3>3
    <3>5. back[k - (i - 1)] = trail[k - (i - 1) + i]
      BY <1>3, <3>1
    <3> QED
      BY <2>2, <3>1, <3>4, <3>5
  <2> QED
    BY <2>1, <2>2
<1>7. /\ \A k, l \in 1 .. n - 1 : at(k) = at(l) => k = l
      /\ \A k, l \in 1 .. n - 1 : at(k) < at(l) => k < l
      /\ \A j \in 1 .. n : j # i => \E k \in 1 .. n - 1 : at(k) = j
  <2>1. /\ \A k, l \in 1 .. n - 1 : at(k) = at(l) => k = l
        /\ \A k, l \in 1 .. n - 1 : at(k) < at(l) => k < l
    BY <1>1
  <2>2. ASSUME NEW j \in 1 .. n, j # i PROVE \E k \in 1 .. n - 1 : at(k) = j
    <3>1. CASE j < i
      <4>1. j \in 1 .. n - 1 /\ at(j) = j
        BY <1>1, <3>1
      <4> QED
        BY <4>1
    <3>2. CASE j > i
      <4>1. j - 1 \in 1 .. n - 1 /\ at(j - 1) = j
        BY <1>1, <3>2
      <4> QED
        BY <4>1
    <3> QED
      BY <1>1, <2>2, <3>1, <3>2
  <2> QED
    BY <2>1, <2>2
<1> HIDE DEF t, at
<1>8. f \in [DOMAIN t -> DOMAIN trail] /\ \A k \in DOMAIN t : f[k] = at(k)
  BY <1>1, <1>4, <1>5
<1> HIDE DEF f
<1>9. Rearranges(trail, t, f)
  <2>1. ASSUME NEW j \in DOMAIN trail, ~ChunkAt(trail, j) PROVE \E k \in DOMAIN t : f[k] = j
    <3>1. j # i
      BY <1>1, <2>1 DEF ChunkAt, KindAt
    <3> QED
      BY <1>1, <1>4, <1>7, <1>8, <3>1
  <2>2. \A k \in DOMAIN t : t[k] = trail[f[k]]
    BY <1>4, <1>6, <1>8
  <2>3. \A k, l \in DOMAIN t : (f[k] = f[l] => k = l) /\ (f[k] < f[l] => k < l)
    BY <1>4, <1>7, <1>8
  <2> QED
    BY <1>8, <2>1, <2>2, <2>3 DEF Rearranges
<1>10. InStreamOrder(t) /\ AsSent(t, sent)
  <2>1. InStreamOrder(trail) /\ AsSent(trail, sent)
    BY DEF GoodTrail
  <2> QED
    BY <1>9, <2>1, RearrangedKeeps
<1> QED
  BY <1>4, <1>10 DEF GoodTrail, t, n, front, back

LEMMA MovedIsGood ==
  ASSUME GoodTrail(trail), NEW i \in ChunkEvents, NEW j \in ChunkEvents,
         i < j, trail[i].by = trail[j].by
  PROVE  GoodTrail([trail EXCEPT ![i] = trail[j], ![j] = trail[i]])
<1> DEFINE t == [trail EXCEPT ![i] = trail[j], ![j] = trail[i]]
           f == [k \in DOMAIN trail |-> IF k = i THEN j ELSE IF k = j THEN i ELSE k]
<1>1. /\ trail \in Seq(TrailRecords) /\ Len(trail) \in Nat /\ DOMAIN trail = 1 .. Len(trail)
      /\ i \in DOMAIN trail /\ j \in DOMAIN trail /\ i # j
      /\ ChunkAt(trail, i) /\ ChunkAt(trail, j)
      /\ \A k \in DOMAIN trail : trail[k] \in TrailRecords
  BY DEF GoodTrail, ChunkEvents, ChunkAt, KindAt
<1>2. SameStream(trail, i, j)
  BY <1>1, RecordKinds DEF SameStream, ChunkAt, KindAt
<1>3. /\ f \in [DOMAIN trail -> DOMAIN trail]
      /\ f[i] = j /\ f[j] = i /\ \A k \in DOMAIN trail : k # i /\ k # j => f[k] = k
  BY <1>1
<1>4. /\ t = [k \in DOMAIN trail |-> t[k]]
      /\ DOMAIN t = DOMAIN trail /\ \A k \in DOMAIN trail : t[k] = trail[f[k]]
  <2>1. DOMAIN t = DOMAIN trail /\ t = [k \in DOMAIN trail |-> t[k]]
    BY <1>1
  <2>2. t[i] = trail[j] /\ t[j] = trail[i] /\ \A k \in DOMAIN trail : k # i /\ k # j => t[k] = trail[k]
    BY <1>1
  <2> HIDE DEF t, f
  <2> QED
    BY <1>3, <2>1, <2>2
<1> HIDE DEF t, f
<1>5. t \in Seq(TrailRecords)
  <2>1. t \in [1 .. Len(trail) -> TrailRecords]
    BY <1>1, <1>3, <1>4
  <2> QED
    BY <1>1, <2>1
<1>6. \A k, l \in DOMAIN trail : f[k] = f[l] => k = l
  BY <1>1, <1>3
<1>7. ASSUME NEW k \in DOMAIN trail PROVE f[f[k]] = k
  BY <1>1, <1>3
\* What stands between two chunks of a stream, and is of it, is one as well.
<1>8. ASSUME NEW k \in DOMAIN trail, SameStream(trail, k, i), i < k, k < j PROVE ChunkAt(trail, k)
  <2>1. SameStream(trail, k, j) /\ SameStream(trail, k, i) /\ k # i /\ k # j
    BY <1>1, <1>2, <1>8 DEF SameStream
  <2>2. ~StartAt(trail, k)
    <3>1. StartAt(trail, k) => k < i
      BY <1>1, <2>1 DEF GoodTrail, InStreamOrder
    <3> QED
      BY <1>1, <1>8, <3>1
  <2>3. ~EndAt(trail, k)
    <3>1. EndAt(trail, k) => j < k
      BY <1>1, <2>1 DEF GoodTrail, InStreamOrder
    <3> QED
      BY <1>1, <1>8, <3>1
  <2>4. trail[k].by \in Streams /\ trail[k] \in TrailRecords
    BY <1>1, <2>1 DEF SameStream
  <2> QED
    BY <2>2, <2>3, <2>4, RecordKinds DEF StartAt, EndAt, ChunkAt, KindAt
<1>9. ASSUME NEW k \in DOMAIN trail, NEW l \in DOMAIN trail, SameStream(t, k, l), f[k] < f[l],
             ~(ChunkAt(trail, f[k]) /\ ChunkAt(trail, f[l]))
      PROVE  k < l
  <2>1. SameStream(trail, f[k], f[l])
    BY <1>4, <1>9 DEF SameStream
  <2>2. k \in Nat /\ l \in Nat /\ i \in Nat /\ j \in Nat
    BY <1>1
  <2>3. k # l
    BY <1>1, <1>3, <1>9, <2>2
  <2>4. CASE k = i
    <3>1. f[k] = j /\ f[l] = l /\ ~ChunkAt(trail, l)
      BY <1>1, <1>3, <1>6, <1>9, <2>3, <2>4
    <3> QED
      BY <1>9, <2>2, <2>4, <3>1
  <2>5. CASE k = j
    <3>1. f[k] = i /\ f[l] = l /\ ~ChunkAt(trail, l) /\ i < l
      BY <1>1, <1>3, <1>9, <2>3, <2>5
    <3>2. SameStream(trail, l, i)
      BY <2>1, <3>1 DEF SameStream
    <3>3. ~(l < j)
      BY <1>8, <3>1, <3>2
    <3> QED
      BY <2>2, <2>3, <2>5, <3>3
  <2>6. CASE l = j
    <3>1. f[l] = i /\ f[k] = k
      BY <1>1, <1>3, <1>9, <2>3, <2>6
    <3> QED
      BY <1>9, <2>2, <2>6, <3>1
  <2>7. CASE l = i
    <3>1. f[l] = j /\ f[k] = k /\ ~ChunkAt(trail, k) /\ k < j
      BY <1>1, <1>3, <1>9, <2>3, <2>7
    <3>2. SameStream(trail, k, i)
      BY <1>2, <2>1, <3>1 DEF SameStream
    <3>3. ~(i < k)
      BY <1>8, <3>1, <3>2
    <3> QED
      BY <2>2, <2>3, <2>7, <3>3
  <2>8. CASE k # i /\ k # j /\ l # i /\ l # j
    BY <1>3, <1>9, <2>8
  <2> QED
    BY <2>4, <2>5, <2>6, <2>7, <2>8
<1>10. Rearranges(trail, t, f)
  <2>1. \A k \in DOMAIN trail : \E l \in DOMAIN trail : f[l] = k
    BY <1>3, <1>7
  <2>2. \A k \in DOMAIN t : t[k].by = trail[f[k]].by /\ t[k].event = trail[f[k]].event
    BY <1>4
  <2> QED
    BY <1>3, <1>4, <1>6, <1>9, <2>1, <2>2 DEF Rearranges
<1>11. InStreamOrder(t) /\ AsSent(t, sent)
  <2>1. InStreamOrder(trail) /\ AsSent(trail, sent)
    BY DEF GoodTrail
  <2> QED
    BY <1>10, <2>1, RearrangedKeeps
<1> QED
  BY <1>5, <1>11 DEF GoodTrail, t

-----------------------------------------------------------------------------
(* The capsule runs.                                                       *)

LEMMA AppendedEvent ==
  ASSUME GoodTrail(trail), NEW e \in TrailRecords
  PROVE  LET t == Append(trail, e)
             n == Len(trail)
         IN  /\ t \in Seq(TrailRecords) /\ Len(t) = n + 1 /\ DOMAIN t = 1 .. n + 1
             /\ DOMAIN trail = 1 .. n /\ n \in Nat
             /\ \A i \in 1 .. n : t[i] = trail[i]
             /\ t[n + 1] = e
BY DEF GoodTrail

LEMMA AppendKeepsOrder ==
  ASSUME GoodTrail(trail), NEW e \in TrailRecords, NEW s \in Streams, e.by = s,
         e.event.event = "streaming_egress_started" =>
           \A i \in DOMAIN trail : trail[i].by # s,
         e.event.event # "streaming_egress_started" =>
           \E i \in DOMAIN trail : trail[i].by = s /\ StartAt(trail, i),
         \A i \in DOMAIN trail : trail[i].by = s => ~EndAt(trail, i),
         e.event.event = "streaming_egress_chunk" =>
           /\ e.event.seq < Len(Content[s])
           /\ \A i \in DOMAIN trail : trail[i].by = s /\ ChunkAt(trail, i) => trail[i].event.seq < e.event.seq,
         e.event.event = "streaming_egress_completed" =>
           /\ e.event.total_chunks <= Len(Content[s])
           /\ e.event.streaming_merkle_root = StreamRoot(SubSeq(Content[s], 1, e.event.total_chunks))
           /\ \A i \in DOMAIN trail : trail[i].by = s /\ ChunkAt(trail, i) =>
                trail[i].event.seq < e.event.total_chunks
  PROVE  InStreamOrder(Append(trail, e))
<1> DEFINE t == Append(trail, e)
           n == Len(trail)
<1>1. /\ t \in Seq(TrailRecords) /\ Len(t) = n + 1 /\ DOMAIN t = 1 .. n + 1
      /\ DOMAIN trail = 1 .. n /\ n \in Nat
      /\ \A i \in 1 .. n : t[i] = trail[i]
      /\ t[n + 1] = e
  BY AppendedEvent
<1>2. InStreamOrder(trail) /\ \A i \in 1 .. n : trail[i] \in TrailRecords
  BY <1>1 DEF GoodTrail
<1> HIDE DEF t, n
<1>3. \A i \in 1 .. n : /\ StartAt(t, i) = StartAt(trail, i) /\ EndAt(t, i) = EndAt(trail, i)
                        /\ ChunkAt(t, i) = ChunkAt(trail, i)
  BY <1>1 DEF StartAt, EndAt, ChunkAt, KindAt
<1>4. /\ StartAt(t, n + 1) <=> e.event.event = "streaming_egress_started"
      /\ EndAt(t, n + 1) <=> e.event.event = "streaming_egress_completed"
      /\ ChunkAt(t, n + 1) <=> e.event.event = "streaming_egress_chunk"
  BY <1>1 DEF StartAt, EndAt, ChunkAt, KindAt
<1>5. \A i \in 1 .. n + 1 : i \in 1 .. n \/ i = n + 1
  BY <1>1
<1>6. n + 1 \in 1 .. n + 1 /\ \A i \in 1 .. n : i < n + 1 /\ i \in 1 .. n + 1
  BY <1>1
<1>7. ASSUME NEW i \in 1 .. n, NEW j \in 1 .. n, SameStream(t, i, j), i # j
      PROVE  /\ StartAt(t, i) => i < j
             /\ EndAt(t, i) => j < i
             /\ ChunkAt(t, i) /\ ChunkAt(t, j) => t[i].event.seq # t[j].event.seq
             /\ EndAt(t, i) /\ ChunkAt(t, j) => t[j].event.seq < t[i].event.total_chunks
  <2>1. SameStream(trail, i, j)
    BY <1>1, <1>7 DEF SameStream
  <2>2. /\ StartAt(trail, i) => i < j
        /\ EndAt(trail, i) => j < i
        /\ ChunkAt(trail, i) /\ ChunkAt(trail, j) => trail[i].event.seq # trail[j].event.seq
        /\ EndAt(trail, i) /\ ChunkAt(trail, j) => trail[j].event.seq < trail[i].event.total_chunks
    BY <1>1, <1>2, <1>7, <2>1 DEF InStreamOrder
  <2> QED
    BY <1>1, <1>3, <2>2
\* The new event is the last of its stream.
<1>8. ASSUME NEW i \in 1 .. n, SameStream(t, i, n + 1)
      PROVE  /\ trail[i].by = s /\ ~EndAt(t, i)
             /\ ChunkAt(t, i) /\ ChunkAt(t, n + 1) => t[i].event.seq < e.event.seq
             /\ EndAt(t, n + 1) /\ ChunkAt(t, i) => t[i].event.seq < e.event.total_chunks
             /\ ~StartAt(t, n + 1)
  <2>1. trail[i].by = s
    BY <1>1, <1>8 DEF SameStream
  <2> QED
    BY <1>1, <1>3, <1>4, <2>1
<1>9. ASSUME NEW i \in 1 .. n, ChunkAt(t, i) PROVE t[i].event.seq \in Nat
  BY <1>1, <1>2, <1>9, RecordKinds DEF ChunkAt, KindAt
<1>10. ChunkAt(t, n + 1) => e.event.seq \in Nat
  BY <1>4, RecordKinds
<1>11. ASSUME NEW i \in 1 .. n + 1, NEW j \in 1 .. n + 1, SameStream(t, i, j), i # j
       PROVE  /\ StartAt(t, i) => i < j
              /\ EndAt(t, i) => j < i
              /\ ChunkAt(t, i) /\ ChunkAt(t, j) => t[i].event.seq # t[j].event.seq
              /\ EndAt(t, i) /\ ChunkAt(t, j) => t[j].event.seq < t[i].event.total_chunks
  <2>1. CASE i \in 1 .. n /\ j \in 1 .. n
    BY <1>7, <1>11, <2>1
  <2>2. CASE i \in 1 .. n /\ j = n + 1
    <3>1. SameStream(t, i, n + 1)
      BY <1>11, <2>2
    <3>2. /\ ~EndAt(t, i) /\ i < j
          /\ ChunkAt(t, i) /\ ChunkAt(t, j) => t[i].event.seq < t[j].event.seq
      BY <1>1, <1>6, <1>8, <2>2, <3>1
    <3> QED
      BY <1>1, <1>9, <1>10, <2>2, <3>2
  <2>3. CASE i = n + 1 /\ j \in 1 .. n
    <3>1. SameStream(t, j, n + 1)
      BY <1>11, <2>3 DEF SameStream
    <3>2. /\ ~StartAt(t, i) /\ j < i
          /\ ChunkAt(t, j) /\ ChunkAt(t, i) => t[j].event.seq < t[i].event.seq
          /\ EndAt(t, i) /\ ChunkAt(t, j) => t[j].event.seq < t[i].event.total_chunks
      BY <1>1, <1>6, <1>8, <2>3, <3>1
    <3> QED
      BY <1>1, <1>9, <1>10, <2>3, <3>2
  <2> QED
    BY <1>5, <1>11, <2>1, <2>2, <2>3
<1>12. ASSUME NEW i \in 1 .. n + 1, t[i].by \in Streams
       PROVE  \E j \in 1 .. n + 1 : t[j].by = t[i].by /\ StartAt(t, j)
  <2>1. CASE i \in 1 .. n
    <3>1. PICK j \in 1 .. n : trail[j].by = trail[i].by /\ StartAt(trail, j)
      BY <1>1, <1>2, <1>12, <2>1 DEF InStreamOrder
    <3> QED
      BY <1>1, <1>3, <1>6, <2>1, <3>1
  <2>2. CASE i = n + 1 /\ StartAt(t, n + 1)
    BY <1>6, <2>2
  <2>3. CASE i = n + 1 /\ ~StartAt(t, n + 1)
    <3>1. PICK j \in 1 .. n : trail[j].by = s /\ StartAt(trail, j)
      BY <1>1, <1>4, <2>3
    <3> QED
      BY <1>1, <1>3, <1>6, <2>3, <3>1
  <2> QED
    BY <1>5, <2>1, <2>2, <2>3
<1>13. ASSUME NEW i \in 1 .. n + 1, ChunkAt(t, i) PROVE t[i].event.seq < Len(Content[t[i].by])
  <2>1. CASE i \in 1 .. n
    BY <1>1, <1>2, <1>3, <1>13, <2>1 DEF InStreamOrder
  <2>2. CASE i = n + 1
    BY <1>1, <1>4, <1>13, <2>2
  <2> QED
    BY <1>5, <2>1, <2>2
<1>14. ASSUME NEW i \in 1 .. n + 1, EndAt(t, i)
       PROVE  /\ t[i].event.total_chunks <= Len(Content[t[i].by])
              /\ t[i].event.streaming_merkle_root =
                   StreamRoot(SubSeq(Content[t[i].by], 1, t[i].event.total_chunks))
  <2>1. CASE i \in 1 .. n
    <3>1. EndAt(trail, i) /\ t[i] = trail[i] /\ i \in DOMAIN trail
      BY <1>1, <1>3, <1>14, <2>1
    <3> QED
      BY <1>2, <3>1 DEF InStreamOrder
  <2>2. CASE i = n + 1
    BY <1>1, <1>4, <1>14, <2>2
  <2> QED
    BY <1>5, <2>1, <2>2
<1>15. InStreamOrder(t)
  BY <1>1, <1>11, <1>12, <1>13, <1>14 DEF InStreamOrder
<1> QED
  BY <1>15 DEF t

\* An event of no stream disturbs none.
LEMMA OtherKeepsOrder ==
  ASSUME GoodTrail(trail)
  PROVE  GoodTrail(Append(trail, [by |-> NoValue, event |-> Other]))
<1> DEFINE e == [by |-> NoValue, event |-> Other]
           t == Append(trail, e)
           n == Len(trail)
<1>1. e \in TrailRecords
  BY DEF TrailRecords, OtherRecords
<1>2. /\ e.by = NoValue /\ e.by \notin Streams /\ e.event.event = "network_allowed"
  BY StreamsAssumption DEF Other
<1> HIDE DEF e
<1>3. /\ t \in Seq(TrailRecords) /\ Len(t) = n + 1 /\ DOMAIN t = 1 .. n + 1
      /\ DOMAIN trail = 1 .. n /\ n \in Nat
      /\ \A i \in 1 .. n : t[i] = trail[i]
      /\ t[n + 1] = e
  BY <1>1, AppendedEvent
<1>4. InStreamOrder(trail) /\ AsSent(trail, sent)
  BY DEF GoodTrail
<1> HIDE DEF t, n
<1>5. \A i \in 1 .. n : /\ StartAt(t, i) = StartAt(trail, i) /\ EndAt(t, i) = EndAt(trail, i)
                        /\ ChunkAt(t, i) = ChunkAt(trail, i)
  BY <1>3 DEF StartAt, EndAt, ChunkAt, KindAt
<1>6. ~StartAt(t, n + 1) /\ ~EndAt(t, n + 1) /\ ~ChunkAt(t, n + 1) /\ t[n + 1].by \notin Streams
  BY <1>2, <1>3 DEF StartAt, EndAt, ChunkAt, KindAt
<1>7. \A i \in 1 .. n + 1 : i \in 1 .. n \/ i = n + 1
  BY <1>3
<1>8. \A i \in 1 .. n : i \in 1 .. n + 1
  BY <1>3
<1>9. InStreamOrder(t)
  <2>1. ASSUME NEW i \in 1 .. n + 1, NEW j \in 1 .. n + 1, SameStream(t, i, j), i # j
        PROVE  /\ StartAt(t, i) => i < j
               /\ EndAt(t, i) => j < i
               /\ ChunkAt(t, i) /\ ChunkAt(t, j) => t[i].event.seq # t[j].event.seq
               /\ EndAt(t, i) /\ ChunkAt(t, j) => t[j].event.seq < t[i].event.total_chunks
    <3>1. i \in 1 .. n /\ j \in 1 .. n
      BY <1>6, <1>7, <2>1 DEF SameStream
    <3>2. SameStream(trail, i, j)
      BY <1>3, <2>1, <3>1 DEF SameStream
    <3>3. /\ StartAt(trail, i) => i < j
          /\ EndAt(trail, i) => j < i
          /\ ChunkAt(trail, i) /\ ChunkAt(trail, j) => trail[i].event.seq # trail[j].event.seq
          /\ EndAt(trail, i) /\ ChunkAt(trail, j) => trail[j].event.seq < trail[i].event.total_chunks
      BY <1>3, <1>4, <2>1, <3>1, <3>2 DEF InStreamOrder
    <3> QED
      BY <1>3, <1>5, <3>1, <3>3
  <2>2. ASSUME NEW i \in 1 .. n + 1, t[i].by \in Streams
        PROVE  \E j \in 1 .. n + 1 : t[j].by = t[i].by /\ StartAt(t, j)
    <3>1. i \in 1 .. n
      BY <1>6, <1>7, <2>2
    <3>2. PICK j \in 1 .. n : trail[j].by = trail[i].by /\ StartAt(trail, j)
      BY <1>3, <1>4, <2>2, <3>1 DEF InStreamOrder
    <3> QED
      BY <1>3, <1>5, <1>8, <3>1, <3>2
  <2>3. ASSUME NEW i \in 1 .. n + 1, ChunkAt(t, i) PROVE t[i].event.seq < Len(Content[t[i].by])
    <3>1. i \in 1 .. n
      BY <1>6, <1>7, <2>3
    <3> QED
      BY <1>3, <1>4, <1>5, <2>3, <3>1 DEF InStreamOrder
  <2>4. ASSUME NEW i \in 1 .. n + 1, EndAt(t, i)
        PROVE  /\ t[i].event.total_chunks <= Len(Content[t[i].by])
               /\ t[i].event.streaming_merkle_root =
                    StreamRoot(SubSeq(Content[t[i].by], 1, t[i].event.total_chunks))
    <3>1. i \in 1 .. n
      BY <1>6, <1>7, <2>4
    <3>2. EndAt(trail, i) /\ t[i] = trail[i] /\ i \in DOMAIN trail
      BY <1>3, <1>5, <2>4, <3>1
    <3> QED
      BY <1>4, <3>2 DEF InStreamOrder
  <2> QED
    BY <1>3, <2>1, <2>2, <2>3, <2>4 DEF InStreamOrder
<1>10. AsSent(t, sent)
  <2> SUFFICES ASSUME NEW s \in Streams
               PROVE  /\ sent[s] \in {NotStarted, Closed} \cup 0 .. Len(Content[s])
                      /\ sent[s] = NotStarted => \A i \in DOMAIN t : t[i].by # s
                      /\ sent[s] # NotStarted => \E i \in DOMAIN t : t[i].by = s /\ StartAt(t, i)
                      /\ sent[s] # Closed => \A i \in DOMAIN t : t[i].by = s => ~EndAt(t, i)
                      /\ sent[s] = Closed => \E i \in DOMAIN t : t[i].by = s /\ EndAt(t, i)
                      /\ sent[s] \notin {NotStarted, Closed} =>
                           \A i \in DOMAIN t : t[i].by = s /\ ChunkAt(t, i) => t[i].event.seq < sent[s]
    BY DEF AsSent
  <2>1. /\ sent[s] \in {NotStarted, Closed} \cup 0 .. Len(Content[s])
        /\ sent[s] = NotStarted => \A i \in 1 .. n : trail[i].by # s
        /\ sent[s] # NotStarted => \E i \in 1 .. n : trail[i].by = s /\ StartAt(trail, i)
        /\ sent[s] # Closed => \A i \in 1 .. n : trail[i].by = s => ~EndAt(trail, i)
        /\ sent[s] = Closed => \E i \in 1 .. n : trail[i].by = s /\ EndAt(trail, i)
        /\ sent[s] \notin {NotStarted, Closed} =>
             \A i \in 1 .. n : trail[i].by = s /\ ChunkAt(trail, i) => trail[i].event.seq < sent[s]
    BY <1>3, <1>4 DEF AsSent
  <2>2. \A i \in 1 .. n + 1 : t[i].by = s => i \in 1 .. n
    BY <1>6, <1>7
  <2> QED
    BY <1>3, <1>5, <1>8, <2>1, <2>2
<1> QED
  BY <1>3, <1>9, <1>10 DEF GoodTrail, t, e

LEMMA AppendKeepsSent ==
  ASSUME GoodTrail(trail), NEW e \in TrailRecords, NEW s \in Streams, e.by = s,
         NEW t, t = Append(trail, e),
         NEW g, \A r \in Streams : r # s => g[r] = sent[r],
         g[s] \in {Closed} \cup 0 .. Len(Content[s]),
         \E i \in DOMAIN t : t[i].by = s /\ StartAt(t, i),
         g[s] # Closed => \A i \in DOMAIN t : t[i].by = s => ~EndAt(t, i),
         g[s] = Closed => \E i \in DOMAIN t : t[i].by = s /\ EndAt(t, i),
         g[s] # Closed => \A i \in DOMAIN t : t[i].by = s /\ ChunkAt(t, i) => t[i].event.seq < g[s]
  PROVE  AsSent(t, g)
<1> DEFINE n == Len(trail)
<1>1. /\ t \in Seq(TrailRecords) /\ Len(t) = n + 1 /\ DOMAIN t = 1 .. n + 1
      /\ DOMAIN trail = 1 .. n /\ n \in Nat
      /\ \A i \in 1 .. n : t[i] = trail[i]
      /\ t[n + 1] = e
  BY AppendedEvent
<1>2. /\ g[s] \in {Closed} \cup 0 .. Len(Content[s])
      /\ \E i \in DOMAIN t : t[i].by = s /\ StartAt(t, i)
      /\ g[s] # Closed => \A i \in DOMAIN t : t[i].by = s => ~EndAt(t, i)
      /\ g[s] = Closed => \E i \in DOMAIN t : t[i].by = s /\ EndAt(t, i)
      /\ g[s] # Closed => \A i \in DOMAIN t : t[i].by = s /\ ChunkAt(t, i) => t[i].event.seq < g[s]
  OBVIOUS
<1> HIDE DEF n
<1>3. \A i \in 1 .. n : /\ StartAt(t, i) = StartAt(trail, i) /\ EndAt(t, i) = EndAt(trail, i)
                        /\ ChunkAt(t, i) = ChunkAt(trail, i)
  BY <1>1 DEF StartAt, EndAt, ChunkAt, KindAt
<1>4. /\ \A i \in 1 .. n + 1 : i \in 1 .. n \/ i = n + 1
      /\ \A i \in 1 .. n : i \in 1 .. n + 1
  BY <1>1
<1>5. AsSent(t, g)
  <2> SUFFICES ASSUME NEW r \in Streams
               PROVE  /\ g[r] \in {NotStarted, Closed} \cup 0 .. Len(Content[r])
                      /\ g[r] = NotStarted => \A i \in DOMAIN t : t[i].by # r
                      /\ g[r] # NotStarted => \E i \in DOMAIN t : t[i].by = r /\ StartAt(t, i)
                      /\ g[r] # Closed => \A i \in DOMAIN t : t[i].by = r => ~EndAt(t, i)
                      /\ g[r] = Closed => \E i \in DOMAIN t : t[i].by = r /\ EndAt(t, i)
                      /\ g[r] \notin {NotStarted, Closed} =>
                           \A i \in DOMAIN t : t[i].by = r /\ ChunkAt(t, i) => t[i].event.seq < g[r]
    BY DEF AsSent
  <2>1. CASE r = s
    <3>1. g[r] # NotStarted
      <4>1. Len(Content[s]) \in Nat
        BY ContentIs
      <4> QED
        BY <1>2, <2>1, <4>1 DEF NotStarted, Closed
    <3> QED
      BY <1>2, <2>1, <3>1
  <2>2. CASE r # s
    <3>1. /\ sent[r] \in {NotStarted, Closed} \cup 0 .. Len(Content[r]) /\ g[r] = sent[r]
          /\ sent[r] = NotStarted => \A i \in 1 .. n : trail[i].by # r
          /\ sent[r] # NotStarted => \E i \in 1 .. n : trail[i].by = r /\ StartAt(trail, i)
          /\ sent[r] # Closed => \A i \in 1 .. n : trail[i].by = r => ~EndAt(trail, i)
          /\ sent[r] = Closed => \E i \in 1 .. n : trail[i].by = r /\ EndAt(trail, i)
          /\ sent[r] \notin {NotStarted, Closed} =>
               \A i \in 1 .. n : trail[i].by = r /\ ChunkAt(trail, i) => trail[i].event.seq < sent[r]
      <4>1. AsSent(trail, sent)
        BY DEF GoodTrail
      <4> QED
        BY <1>1, <2>2, <4>1 DEF AsSent
    <3>2. \A i \in 1 .. n + 1 : t[i].by = r => i \in 1 .. n
      BY <1>1, <1>4, <2>2
    <3> QED
      BY <1>1, <1>3, <1>4, <3>1, <3>2
  <2> QED
    BY <2>1, <2>2
<1> QED
  BY <1>5

LEMMA StartIsGood ==
  ASSUME GoodTrail(trail), sent \in [Streams -> Int], NEW s \in Streams, StartStream(s)
  PROVE  GoodTrail(trail)' /\ sent' \in [Streams -> Int]
<1> DEFINE e == [by |-> s, event |-> Started]
           n == Len(trail)
           t == Append(trail, e)
<1>1. /\ sent[s] = NotStarted /\ sent' = [sent EXCEPT ![s] = 0] /\ trail' = t
  BY DEF StartStream, Emit
<1>2. /\ e \in TrailRecords /\ e.by = s /\ e.event.event = "streaming_egress_started"
  BY DEF TrailRecords, StartedRecords, Started
<1> HIDE DEF e
<1>3. /\ t \in Seq(TrailRecords) /\ DOMAIN t = 1 .. n + 1 /\ DOMAIN trail = 1 .. n /\ n \in Nat
      /\ \A i \in 1 .. n : t[i] = trail[i]
      /\ t[n + 1] = e
  BY <1>2, AppendedEvent
<1>4. \A i \in 1 .. n : trail[i].by # s
  BY <1>1, <1>3 DEF GoodTrail, AsSent
<1>5. InStreamOrder(t)
  BY <1>2, <1>3, <1>4, AppendKeepsOrder
<1>6. sent' \in [Streams -> Int] /\ sent'[s] = 0 /\ \A r \in Streams : r # s => sent'[r] = sent[r]
  BY <1>1
<1> HIDE DEF t, n
<1>7. \A i \in 1 .. n + 1 : t[i].by = s => i = n + 1
  BY <1>3, <1>4
<1>8. StartAt(t, n + 1) /\ ~EndAt(t, n + 1) /\ ~ChunkAt(t, n + 1) /\ t[n + 1].by = s /\ n + 1 \in 1 .. n + 1
  BY <1>2, <1>3 DEF StartAt, EndAt, ChunkAt, KindAt
<1>9. 0 # Closed /\ 0 \in 0 .. Len(Content[s])
  BY ContentIs DEF Closed
<1>10. AsSent(t, sent')
  <2>1. t = Append(trail, e)
    BY DEF t
  <2>2. \E i \in DOMAIN t : t[i].by = s /\ StartAt(t, i)
    BY <1>3, <1>8
  <2>3. \A i \in DOMAIN t : t[i].by = s => ~EndAt(t, i) /\ ~ChunkAt(t, i)
    BY <1>3, <1>7, <1>8
  <2> QED
    BY <1>2, <1>6, <1>9, <2>1, <2>2, <2>3, AppendKeepsSent
<1> QED
  BY <1>1, <1>3, <1>5, <1>6, <1>10 DEF GoodTrail

LEMMA SendIsGood ==
  ASSUME GoodTrail(trail), sent \in [Streams -> Int], NEW s \in Streams, SendChunk(s)
  PROVE  GoodTrail(trail)' /\ sent' \in [Streams -> Int]
<1> DEFINE e == [by |-> s, event |-> Chunk(sent[s], Content[s][sent[s] + 1])]
           n == Len(trail)
           t == Append(trail, e)
<1>1. /\ sent[s] # NotStarted /\ sent[s] # Closed /\ sent[s] < Len(Content[s])
      /\ sent' = [sent EXCEPT ![s] = sent[s] + 1] /\ trail' = t
  BY DEF SendChunk, Emit, Open
<1>2. AsSent(trail, sent) /\ sent[s] \in 0 .. Len(Content[s])
  BY <1>1 DEF GoodTrail, AsSent
<1>3. /\ sent[s] \in Nat /\ sent[s] + 1 \in 1 .. Len(Content[s]) /\ sent[s] + 1 \in 0 .. Len(Content[s])
      /\ Content[s][sent[s] + 1] \in Readings
  <2>1. Len(Content[s]) \in Nat /\ \A k \in 1 .. Len(Content[s]) : Content[s][k] \in ChunkHashes
    BY ContentIs
  <2>2. sent[s] \in Nat /\ sent[s] + 1 \in 1 .. Len(Content[s]) /\ sent[s] + 1 \in 0 .. Len(Content[s])
    BY <1>1, <1>2, <2>1
  <2> QED
    BY <2>1, <2>2 DEF Readings
<1>4. /\ e \in TrailRecords /\ e.by = s /\ e.event.event = "streaming_egress_chunk"
      /\ e.event.seq = sent[s]
  BY <1>3 DEF TrailRecords, ChunkRecords, Chunk
<1> HIDE DEF e
<1>5. /\ t \in Seq(TrailRecords) /\ DOMAIN t = 1 .. n + 1 /\ DOMAIN trail = 1 .. n /\ n \in Nat
      /\ \A i \in 1 .. n : t[i] = trail[i]
      /\ t[n + 1] = e
  BY <1>4, AppendedEvent
<1>6. /\ \E i \in 1 .. n : trail[i].by = s /\ StartAt(trail, i)
      /\ \A i \in 1 .. n : trail[i].by = s => ~EndAt(trail, i)
      /\ \A i \in 1 .. n : trail[i].by = s /\ ChunkAt(trail, i) => trail[i].event.seq < sent[s]
  BY <1>1, <1>2, <1>5 DEF AsSent
<1>7. InStreamOrder(t)
  BY <1>1, <1>4, <1>5, <1>6, AppendKeepsOrder
<1>8. sent' \in [Streams -> Int] /\ sent'[s] = sent[s] + 1 /\ \A r \in Streams : r # s => sent'[r] = sent[r]
  BY <1>1, <1>3
<1> HIDE DEF t, n
<1>9. \A i \in 1 .. n : /\ StartAt(t, i) = StartAt(trail, i) /\ EndAt(t, i) = EndAt(trail, i)
                        /\ ChunkAt(t, i) = ChunkAt(trail, i)
  BY <1>5 DEF StartAt, EndAt, ChunkAt, KindAt
<1>10. ~EndAt(t, n + 1) /\ t[n + 1].event.seq = sent[s]
  BY <1>4, <1>5 DEF EndAt, KindAt
<1>11. \A i \in 1 .. n + 1 : i \in 1 .. n \/ i = n + 1
  BY <1>5
<1>12. \A i \in 1 .. n : i \in 1 .. n + 1
  BY <1>5
<1>13. \E i \in 1 .. n + 1 : t[i].by = s /\ StartAt(t, i)
  BY <1>5, <1>6, <1>9, <1>12
<1>14. \A i \in 1 .. n + 1 : t[i].by = s => ~EndAt(t, i)
  BY <1>5, <1>6, <1>9, <1>10, <1>11
<1>15. ASSUME NEW i \in 1 .. n + 1, t[i].by = s, ChunkAt(t, i) PROVE t[i].event.seq < sent[s] + 1
  <2>1. CASE i = n + 1
    BY <1>3, <1>10, <2>1
  <2>2. CASE i \in 1 .. n
    <3>1. trail[i].event.seq < sent[s] /\ trail[i] \in TrailRecords /\ ChunkAt(trail, i)
      BY <1>5, <1>6, <1>9, <1>15, <2>2 DEF GoodTrail
    <3>2. trail[i].event.seq \in Nat
      BY <3>1, RecordKinds DEF ChunkAt, KindAt
    <3> QED
      BY <1>3, <1>5, <2>2, <3>1, <3>2
  <2> QED
    BY <1>11, <2>1, <2>2
<1>16. sent[s] + 1 # Closed
  BY <1>3 DEF Closed
<1>17. AsSent(t, sent')
  <2>1. t = Append(trail, e)
    BY DEF t
  <2>2. sent'[s] = sent[s] + 1 /\ sent'[s] # Closed /\ sent'[s] \in 0 .. Len(Content[s])
    BY <1>3, <1>8, <1>16
  <2>3. \E i \in DOMAIN t : t[i].by = s /\ StartAt(t, i)
    BY <1>5, <1>13
  <2>4. \A i \in DOMAIN t : t[i].by = s => ~EndAt(t, i)
    BY <1>5, <1>14
  <2>5. \A i \in DOMAIN t : t[i].by = s /\ ChunkAt(t, i) => t[i].event.seq < sent'[s]
    BY <1>5, <1>15, <2>2
  <2>6. \A r \in Streams : r # s => sent'[r] = sent[r]
    BY <1>8
  <2> DEFINE g == sent'
  <2> HIDE DEF g
  <2>7. AsSent(t, g)
    BY <1>4, <2>1, <2>2, <2>3, <2>4, <2>5, <2>6, AppendKeepsSent DEF g
  <2> QED
    BY <2>7 DEF g
<1> QED
  BY <1>1, <1>5, <1>7, <1>8, <1>17 DEF GoodTrail

LEMMA CompleteIsGood ==
  ASSUME GoodTrail(trail), sent \in [Streams -> Int], NEW s \in Streams, CompleteStream(s)
  PROVE  GoodTrail(trail)' /\ sent' \in [Streams -> Int]
<1> DEFINE root == StreamRoot(SubSeq(Content[s], 1, sent[s]))
           e == [by |-> s, event |-> Completed(sent[s], root)]
           n == Len(trail)
           t == Append(trail, e)
<1>1. /\ sent[s] # NotStarted /\ sent[s] # Closed
      /\ sent' = [sent EXCEPT ![s] = Closed] /\ trail' = t
  BY DEF CompleteStream, Emit, Open
<1>2. AsSent(trail, sent) /\ sent[s] \in 0 .. Len(Content[s]) /\ Len(Content[s]) \in Nat
  BY <1>1, ContentIs DEF GoodTrail, AsSent
<1>3. sent[s] \in Nat /\ sent[s] <= Len(Content[s])
  BY <1>2
<1>4. root \in Roots
  BY <1>3 DEF Roots
<1>5. /\ e \in TrailRecords /\ e.by = s /\ e.event.event = "streaming_egress_completed"
      /\ e.event.total_chunks = sent[s] /\ e.event.streaming_merkle_root = root
  <2> HIDE DEF root
  <2> QED
    BY <1>3, <1>4 DEF TrailRecords, CompletedRecords, Completed
<1> HIDE DEF e
<1>6. /\ t \in Seq(TrailRecords) /\ DOMAIN t = 1 .. n + 1 /\ DOMAIN trail = 1 .. n /\ n \in Nat
      /\ \A i \in 1 .. n : t[i] = trail[i]
      /\ t[n + 1] = e
  BY <1>5, AppendedEvent
<1>7. /\ \E i \in 1 .. n : trail[i].by = s /\ StartAt(trail, i)
      /\ \A i \in 1 .. n : trail[i].by = s => ~EndAt(trail, i)
      /\ \A i \in 1 .. n : trail[i].by = s /\ ChunkAt(trail, i) => trail[i].event.seq < sent[s]
  BY <1>1, <1>2, <1>6 DEF AsSent
<1>8. InStreamOrder(t)
  BY <1>3, <1>5, <1>6, <1>7, AppendKeepsOrder
<1>9. sent' \in [Streams -> Int] /\ sent'[s] = Closed /\ \A r \in Streams : r # s => sent'[r] = sent[r]
  BY <1>1 DEF Closed
<1> HIDE DEF t, n
<1>10. \A i \in 1 .. n : StartAt(t, i) = StartAt(trail, i)
  BY <1>6 DEF StartAt, KindAt
<1>11. EndAt(t, n + 1) /\ t[n + 1].by = s /\ n + 1 \in 1 .. n + 1 /\ \A i \in 1 .. n : i \in 1 .. n + 1
  BY <1>5, <1>6 DEF EndAt, KindAt
<1>12. \E i \in 1 .. n + 1 : t[i].by = s /\ StartAt(t, i)
  BY <1>6, <1>7, <1>10, <1>11
<1>13. AsSent(t, sent')
  <2>1. t = Append(trail, e)
    BY DEF t
  <2>2. \E i \in DOMAIN t : t[i].by = s /\ EndAt(t, i)
    BY <1>6, <1>11
  <2>3. \E i \in DOMAIN t : t[i].by = s /\ StartAt(t, i)
    BY <1>6, <1>12
  <2>4. sent'[s] \in {Closed} \cup 0 .. Len(Content[s]) /\ sent'[s] = Closed
        /\ \A r \in Streams : r # s => sent'[r] = sent[r]
    BY <1>9
  <2> DEFINE g == sent'
  <2> HIDE DEF g
  <2>5. /\ \A r \in Streams : r # s => g[r] = sent[r]
        /\ g[s] \in {Closed} \cup 0 .. Len(Content[s])
        /\ g[s] = Closed
    BY <2>4 DEF g
  <2>6. GoodTrail(trail) /\ s \in Streams /\ e \in TrailRecords /\ e.by = s
    BY <1>5
  <2>7. AsSent(t, g)
    BY ONLY <2>1, <2>2, <2>3, <2>5, <2>6, AppendKeepsSent
  <2> QED
    BY <2>7 DEF g
<1> QED
  BY <1>1, <1>6, <1>8, <1>9, <1>13 DEF GoodTrail

-----------------------------------------------------------------------------
(* The invariant.                                                          *)

StreamsInv ==
  /\ GoodTrail(trail)
  /\ sent \in [Streams -> Int]
  /\ WalkHolds

LEMMA StreamsStart == StreamsInit => StreamsInv
<1> SUFFICES ASSUME StreamsInit PROVE StreamsInv
  OBVIOUS
<1>1. /\ sent = [s \in Streams |-> NotStarted] /\ trail = <<>> /\ stage = "run"
      /\ cursor = 0 /\ acc = EmptyAccumulator /\ outcome = "none"
  BY DEF StreamsInit
<1>2. trail \in Seq(TrailRecords) /\ DOMAIN trail = {} /\ Len(trail) = 0
  BY <1>1
<1>3. sent \in [Streams -> Int] /\ \A s \in Streams : sent[s] = NotStarted
  BY <1>1 DEF NotStarted
<1>4. InStreamOrder(trail)
  BY <1>2 DEF InStreamOrder
<1>5. AsSent(trail, sent)
  BY <1>2, <1>3 DEF AsSent, NotStarted, Closed
<1>6. WalkHolds
  BY <1>1, <1>2 DEF WalkHolds
<1> QED
  BY <1>2, <1>3, <1>4, <1>5, <1>6 DEF StreamsInv, GoodTrail

\* Before the walk there is nothing of it to hold.
LEMMA BeforeTheWalk ==
  ASSUME WalkHolds, GoodTrail(trail)', stage \in {"run", "sealed"}, stage' \in {"run", "sealed"},
         cursor' = cursor, acc' = acc, outcome' = outcome
  PROVE  WalkHolds'
<1>1. cursor = 0 /\ acc = EmptyAccumulator /\ outcome = "none"
  BY DEF WalkHolds
<1>2. Len(trail') \in Nat
  BY DEF GoodTrail
<1>3. EmptyAccumulator' = EmptyAccumulator
  BY DEF EmptyAccumulator
<1> QED
  BY <1>1, <1>2, <1>3 DEF WalkHolds

LEMMA RunKeeps ==
  ASSUME StreamsInv,
         (\E s \in Streams : StartStream(s) \/ SendChunk(s) \/ CompleteStream(s)) \/ EmitOther \/ Seal
  PROVE  StreamsInv'
<1>1. GoodTrail(trail) /\ sent \in [Streams -> Int] /\ WalkHolds
  BY DEF StreamsInv
<1>2. /\ stage = "run" /\ stage' \in {"run", "sealed"}
      /\ cursor' = cursor /\ acc' = acc /\ outcome' = outcome
  BY DEF StartStream, SendChunk, CompleteStream, EmitOther, Seal
<1>3. GoodTrail(trail)' /\ sent' \in [Streams -> Int]
  <2>1. CASE \E s \in Streams : StartStream(s) \/ SendChunk(s) \/ CompleteStream(s)
    BY <1>1, <2>1, StartIsGood, SendIsGood, CompleteIsGood
  <2>2. CASE EmitOther
    <3>1. trail' = Append(trail, [by |-> NoValue, event |-> Other]) /\ sent' = sent
      BY <2>2 DEF EmitOther, Emit
    <3>2. GoodTrail(Append(trail, [by |-> NoValue, event |-> Other]))
      BY <1>1, OtherKeepsOrder
    <3> QED
      BY <1>1, <3>1, <3>2 DEF GoodTrail
  <2>3. CASE Seal
    BY <1>1, <2>3 DEF Seal, GoodTrail
  <2> QED
    BY <2>1, <2>2, <2>3
<1> QED
  BY <1>1, <1>2, <1>3, BeforeTheWalk DEF StreamsInv

LEMMA FaultKeeps ==
  ASSUME StreamsInv, AlterChunk \/ SpoilChunk \/ DropChunk \/ MoveChunk
  PROVE  StreamsInv'
<1>1. GoodTrail(trail) /\ sent \in [Streams -> Int] /\ WalkHolds
  BY DEF StreamsInv
<1>2. \E t : GoodTrail(t) /\ Fault(t)
  <2>1. CASE AlterChunk
    <3>1. PICK i \in ChunkEvents : Fault([trail EXCEPT ![i].event.chunk_hash = OtherHash])
      BY <2>1 DEF AlterChunk
    <3>2. OtherHash \in Readings
      BY DEF Readings
    <3> QED
      BY <1>1, <3>1, <3>2, AlteredIsGood
  <2>2. CASE SpoilChunk
    <3>1. PICK i \in ChunkEvents : Fault([trail EXCEPT ![i].event.chunk_hash = NoValue])
      BY <2>2 DEF SpoilChunk
    <3>2. NoValue \in Readings
      BY DEF Readings
    <3> QED
      BY <1>1, <3>1, <3>2, AlteredIsGood
  <2>3. CASE DropChunk
    <3>1. PICK i \in ChunkEvents : Fault(SubSeq(trail, 1, i - 1) \o SubSeq(trail, i + 1, Len(trail)))
      BY <2>3 DEF DropChunk
    <3> QED
      BY <1>1, <3>1, DroppedIsGood
  <2>4. CASE MoveChunk
    <3>1. PICK i \in ChunkEvents : \E j \in ChunkEvents :
            i < j /\ trail[i].by = trail[j].by /\ Fault([trail EXCEPT ![i] = trail[j], ![j] = trail[i]])
      BY <2>4 DEF MoveChunk
    <3>2. PICK j \in ChunkEvents :
            i < j /\ trail[i].by = trail[j].by /\ Fault([trail EXCEPT ![i] = trail[j], ![j] = trail[i]])
      BY <3>1
    <3>3. GoodTrail([trail EXCEPT ![i] = trail[j], ![j] = trail[i]])
      BY <1>1, <3>2, MovedIsGood
    <3> QED
      BY <3>2, <3>3
  <2> QED
    BY <2>1, <2>2, <2>3, <2>4
<1>3. PICK t : GoodTrail(t) /\ Fault(t)
  BY <1>2
<1>4. /\ stage = "sealed" /\ stage' = stage /\ trail' = t /\ sent' = sent
      /\ cursor' = cursor /\ acc' = acc /\ outcome' = outcome
  BY <1>3 DEF Fault
<1>5. GoodTrail(trail)'
  BY <1>3, <1>4 DEF GoodTrail
<1>6. WalkHolds'
  BY <1>1, <1>4, <1>5, BeforeTheWalk
<1> QED
  BY <1>1, <1>4, <1>5, <1>6 DEF StreamsInv

LEMMA SubmitKeeps ==
  ASSUME StreamsInv, Submit
  PROVE  StreamsInv'
<1>1. GoodTrail(trail) /\ sent \in [Streams -> Int] /\ WalkHolds
  BY DEF StreamsInv
<1>2. /\ stage = "sealed" /\ stage' = "walk" /\ trail' = trail /\ sent' = sent
      /\ cursor' = cursor /\ acc' = acc /\ outcome' = outcome
  BY DEF Submit
<1>3. cursor = 0 /\ acc = EmptyAccumulator /\ outcome = "none"
  BY <1>1, <1>2 DEF WalkHolds
<1>4. Len(trail) \in Nat /\ DOMAIN Events = 1 .. Len(trail)
  BY <1>1, EventsAre DEF GoodTrail, TrailTyped
<1>5. Events' = Events
  BY <1>2 DEF Events
<1>6. (acc = AccumulatorAt(Events, cursor + 1))'
  <2>1. AccumulatorAt(Events, cursor + 1) = EmptyAccumulator
    <3>1. cursor + 1 = 1
      BY <1>3
    <3> QED
      BY <3>1, AccumulatorStarts
  <2>2. AccumulatorAt(Events, cursor + 1)' = AccumulatorAt(Events, cursor + 1)
    BY <1>2, <1>5 DEF AccumulatorAt
  <2> QED
    BY <1>2, <1>3, <2>1, <2>2
<1>7. \A c \in Failing(Events) : cursor < c
  BY <1>3, <1>4 DEF Failing
<1>8. Failing(Events)' = Failing(Events)
  BY <1>5 DEF Failing
<1>9. cursor' \in 0 .. Len(trail')
  BY <1>2, <1>3, <1>4
<1>10. WalkHolds'
  BY <1>2, <1>3, <1>6, <1>7, <1>8, <1>9 DEF WalkHolds
<1> QED
  BY <1>1, <1>2, <1>10 DEF StreamsInv, GoodTrail

LEMMA WalkKeepsTrail ==
  ASSUME StreamsInv, trail' = trail, sent' = sent, WalkHolds'
  PROVE  StreamsInv'
BY DEF StreamsInv, GoodTrail

LEMMA WalkStepKeeps ==
  ASSUME StreamsInv, WalkStarted \/ WalkChunk \/ WalkCompleted \/ WalkOther \/ WalkEnd
  PROVE  StreamsInv'
<1>1. TrailTyped /\ WalkHolds
  BY DEF StreamsInv, GoodTrail, TrailTyped
<1>2. trail' = trail /\ sent' = sent
  BY DEF WalkStarted, WalkChunk, WalkCompleted, WalkOther, WalkEnd, Consume
<1>3. WalkHolds'
  BY <1>1, WalkStartedHolds, WalkChunkHolds, WalkCompletedHolds, WalkOtherHolds, WalkEndHolds
<1> QED
  BY <1>2, <1>3, WalkKeepsTrail

LEMMA StreamsIdle ==
  ASSUME StreamsInv, UNCHANGED streamsVars
  PROVE  StreamsInv'
<1>1. /\ sent' = sent /\ trail' = trail /\ stage' = stage /\ cursor' = cursor /\ acc' = acc
      /\ outcome' = outcome
  BY DEF streamsVars
<1>2. Events' = Events
  BY <1>1 DEF Events
<1>3. /\ VerifyStreamingMerkleRoots(Events)' = VerifyStreamingMerkleRoots(Events)
      /\ AccumulatorAt(Events, cursor + 1)' = AccumulatorAt(Events, cursor + 1)
      /\ Failing(Events)' = Failing(Events) /\ EmptyAccumulator' = EmptyAccumulator
  <2>1. VerifyStreamingMerkleRoots(Events)' = VerifyStreamingMerkleRoots(Events)
    BY <1>2 DEF VerifyStreamingMerkleRoots, FailureAt, AccumulatorAt, OpenedBefore
  <2>2. AccumulatorAt(Events, cursor + 1)' = AccumulatorAt(Events, cursor + 1)
    BY <1>1, <1>2 DEF AccumulatorAt, OpenedBefore
  <2>3. Failing(Events)' = Failing(Events)
    BY <1>2 DEF Failing, FailureAt, AccumulatorAt, OpenedBefore
  <2>4. EmptyAccumulator' = EmptyAccumulator
    BY DEF EmptyAccumulator
  <2> QED
    BY <2>1, <2>2, <2>3, <2>4
<1>4. WalkHolds'
  BY <1>1, <1>3 DEF StreamsInv, WalkHolds
<1> QED
  BY <1>1, <1>4, WalkKeepsTrail

LEMMA StreamsStepKeeps == StreamsInv /\ [StreamsNext]_streamsVars => StreamsInv'
<1> SUFFICES ASSUME StreamsInv, [StreamsNext]_streamsVars PROVE StreamsInv'
  OBVIOUS
<1>1. CASE (\E s \in Streams : StartStream(s) \/ SendChunk(s) \/ CompleteStream(s)) \/ EmitOther \/ Seal
  BY <1>1, RunKeeps
<1>2. CASE AlterChunk \/ SpoilChunk \/ DropChunk \/ MoveChunk
  BY <1>2, FaultKeeps
<1>3. CASE Submit
  BY <1>3, SubmitKeeps
<1>4. CASE WalkStarted \/ WalkChunk \/ WalkCompleted \/ WalkOther \/ WalkEnd
  BY <1>4, WalkStepKeeps
<1>5. CASE UNCHANGED streamsVars
  BY <1>5, StreamsIdle
<1> QED
  BY <1>1, <1>2, <1>3, <1>4, <1>5, Zenon DEF StreamsNext, Done

LEMMA StreamsInvariant == StreamsSpec => []StreamsInv
<1>1. StreamsInit => StreamsInv
  BY StreamsStart
<1>2. StreamsInv /\ [StreamsNext]_streamsVars => StreamsInv'
  BY StreamsStepKeeps
<1> QED
  BY <1>1, <1>2, PTL DEF StreamsSpec

\* streaming_merkle.rs: the walk with its one accumulator, which every started
\* and every completed event empties, answers with the first completed event
\* that does not agree with the chunk events since the last of them.
THEOREM AccumulatorIsEnough == StreamsSpec => []WalkIsItsDefinition
<1>1. StreamsInv => WalkIsItsDefinition
  BY DEF StreamsInv, WalkHolds, WalkIsItsDefinition
<1> QED
  BY <1>1, StreamsInvariant, PTL

-----------------------------------------------------------------------------
(* Where streams do not overlap.                                           *)

LEMMA TrailIs ==
  ASSUME GoodTrail(trail)
  PROVE  /\ Len(trail) \in Nat /\ DOMAIN trail = 1 .. Len(trail) /\ DOMAIN Events = 1 .. Len(trail)
         /\ \A i \in DOMAIN trail : Events[i] = trail[i].event /\ trail[i] \in TrailRecords
         /\ InStreamOrder(trail) /\ AsSent(trail, sent)
BY EventsAre DEF GoodTrail, TrailTyped

\* The accumulator a completed event closes holds the chunks of its stream.
LEMMA StreamAlone ==
  ASSUME GoodTrail(trail), OneAtATime, NEW c \in DOMAIN trail, EndAt(trail, c),
         NEW s, s = trail[c].by
  PROVE  /\ UsedIn(Events, c) = {i \in ChunkEventsOf(s) : trail[i].event.chunk_hash # NoValue}
         /\ SpoiltAt(Events, c) <=> \E i \in ChunkEventsOf(s) : trail[i].event.chunk_hash = NoValue
<1>1. /\ Len(trail) \in Nat /\ DOMAIN trail = 1 .. Len(trail)
      /\ \A i \in DOMAIN trail : Events[i] = trail[i].event /\ trail[i] \in TrailRecords
      /\ InStreamOrder(trail) /\ c \in Nat \ {0}
  BY TrailIs
<1>2. s \in Streams /\ s # NoValue
  BY <1>1, RecordKinds, StreamsAssumption DEF EndAt, KindAt
<1>3. PICK d \in DOMAIN trail : trail[d].by = s /\ StartAt(trail, d)
  BY <1>1, <1>2 DEF InStreamOrder
<1>4. d # c /\ d < c /\ d \in 1 .. c - 1
  <2>1. d # c
    BY <1>3 DEF StartAt, EndAt
  <2>2. SameStream(trail, d, c)
    BY <1>2, <1>3 DEF SameStream
  <2>3. d < c
    BY <1>1, <1>3, <2>1, <2>2 DEF InStreamOrder
  <2> QED
    BY <1>1, <2>1, <2>3
<1>5. ASSUME NEW j \in DOMAIN trail, d < j, j < c
      PROVE  /\ trail[j].by \in {s, NoValue}
             /\ ~StartAt(trail, j) /\ ~EndAt(trail, j)
  <2>1. trail[j].by \in {s, NoValue}
    <3>1. j \in d .. c
      BY <1>1, <1>5
    <3>2. d < c /\ trail[d].by = trail[c].by /\ trail[d].by # NoValue
      BY <1>2, <1>3, <1>4
    <3> QED
      BY <1>3, <3>1, <3>2 DEF OneAtATime
  <2>2. CASE trail[j].by = s
    <3>1. SameStream(trail, j, d) /\ SameStream(trail, j, c) /\ j # d /\ j # c
      BY <1>1, <1>2, <1>3, <1>5, <2>2 DEF SameStream
    <3>2. StartAt(trail, j) => j < d
      BY <1>1, <1>3, <3>1 DEF InStreamOrder
    <3>3. EndAt(trail, j) => c < j
      BY <1>1, <3>1 DEF InStreamOrder
    <3> QED
      BY <1>1, <1>5, <2>1, <3>2, <3>3
  <2>3. CASE trail[j].by = NoValue
    <3>1. trail[j].event.event = "network_allowed"
      BY <1>1, <2>3, RecordKinds, StreamsAssumption
    <3> QED
      BY <2>1, <3>1 DEF StartAt, EndAt, KindAt
  <2> QED
    BY <2>1, <2>2, <2>3
<1>6. OpenedBefore(Events, c) = d
  <2>1. d \in ResetsBefore(Events, c)
    BY <1>1, <1>3, <1>4 DEF ResetsBefore, Resets, StartAt, KindAt
  <2>2. \A j \in ResetsBefore(Events, c) : j <= d
    <3> TAKE j \in ResetsBefore(Events, c)
    <3>1. j \in 1 .. c - 1 /\ j \in DOMAIN trail /\ j < c
      BY <1>1 DEF ResetsBefore
    <3>2. StartAt(trail, j) \/ EndAt(trail, j)
      BY <1>1, <3>1 DEF ResetsBefore, Resets, StartAt, EndAt, KindAt
    <3> QED
      BY <1>1, <1>5, <3>1, <3>2
  <2>3. d \in 0 .. c - 1
    BY <1>4
  <2> QED
    BY <1>1, <2>1, <2>2, <2>3, OpenedAlone
<1>7. Since(Events, c) = d + 1 .. c - 1
  BY <1>6 DEF Since
\* All chunks of the stream are between its started and its completed event.
<1>8. ASSUME NEW i \in ChunkEventsOf(s) PROVE i \in Since(Events, c) /\ i \in DOMAIN trail /\ ChunkAt(trail, i)
  <2>1. i \in DOMAIN trail /\ trail[i].by = s /\ ChunkAt(trail, i)
    BY DEF ChunkEventsOf, ChunkEvents, ChunkAt, KindAt
  <2>2. i # d /\ i # c
    BY <1>3, <2>1 DEF ChunkAt, StartAt, EndAt
  <2>3. SameStream(trail, d, i) /\ SameStream(trail, c, i)
    BY <1>2, <1>3, <2>1 DEF SameStream
  <2>4. d < i
    BY <1>1, <1>3, <2>1, <2>2, <2>3 DEF InStreamOrder
  <2>5. i < c
    BY <1>1, <2>1, <2>2, <2>3 DEF InStreamOrder
  <2> QED
    BY <1>1, <1>7, <2>1, <2>4, <2>5
<1>9. ASSUME NEW i \in Since(Events, c), Events[i].event = "streaming_egress_chunk"
      PROVE  i \in ChunkEventsOf(s)
  <2>1. i \in DOMAIN trail /\ d < i /\ i < c
    BY <1>1, <1>4, <1>7
  <2>2. trail[i].event.event = "streaming_egress_chunk" /\ trail[i] \in TrailRecords
    BY <1>1, <1>9, <2>1
  <2>3. trail[i].by \in Streams
    BY <2>2, RecordKinds
  <2>4. trail[i].by = s
    BY <1>5, <2>1, <2>3, StreamsAssumption
  <2> QED
    BY <2>1, <2>2, <2>4 DEF ChunkEventsOf, ChunkEvents
<1>10. ASSUME NEW i \in ChunkEventsOf(s)
       PROVE  /\ IsUsable(Events[i]) <=> trail[i].event.chunk_hash # NoValue
              /\ IsMalformed(Events[i]) <=> trail[i].event.chunk_hash = NoValue
  <2>1. Events[i] = trail[i].event /\ trail[i] \in TrailRecords
        /\ trail[i].event.event = "streaming_egress_chunk"
    BY <1>1, <1>8 DEF ChunkAt, KindAt
  <2>2. trail[i].event.seq # NoValue
    BY <2>1, RecordKinds, FieldsAssumption
  <2> QED
    BY <2>1, <2>2 DEF IsUsable, IsMalformed
<1>11. \A i : IsUsable(Events[i]) \/ IsMalformed(Events[i]) => Events[i].event = "streaming_egress_chunk"
  BY DEF IsUsable, IsMalformed
<1>12. UsedIn(Events, c) = {i \in ChunkEventsOf(s) : trail[i].event.chunk_hash # NoValue}
  <2>1. \A i \in UsedIn(Events, c) : i \in ChunkEventsOf(s) /\ trail[i].event.chunk_hash # NoValue
    BY <1>9, <1>10, <1>11 DEF UsedIn
  <2>2. \A i \in ChunkEventsOf(s) : trail[i].event.chunk_hash # NoValue => i \in UsedIn(Events, c)
    BY <1>8, <1>10 DEF UsedIn
  <2> QED
    BY <2>1, <2>2
<1>13. SpoiltAt(Events, c) <=> \E i \in ChunkEventsOf(s) : trail[i].event.chunk_hash = NoValue
  BY <1>8, <1>9, <1>10, <1>11 DEF SpoiltAt
<1> QED
  BY <1>12, <1>13

\* Sorted, as many of them as the total says, they are read by their numbers.
LEMMA SortedLeaves ==
  ASSUME GoodTrail(trail), OneAtATime, NEW c \in DOMAIN trail, EndAt(trail, c),
         Cardinality(UsedIn(Events, c)) = trail[c].event.total_chunks
  PROVE  LET n      == trail[c].event.total_chunks
             leaves == InSeqOrder(ChunksAt(Events, c))
         IN  /\ n \in Nat
             /\ leaves = [p \in 1 .. n |-> leaves[p]]
             /\ \A i \in UsedIn(Events, c) :
                  leaves[trail[i].event.seq + 1] = trail[i].event.chunk_hash
             /\ \A p \in 1 .. n : \E i \in UsedIn(Events, c) : trail[i].event.seq + 1 = p
<1> DEFINE n == trail[c].event.total_chunks
           U == UsedIn(Events, c)
           chunks == ChunksAt(Events, c)
           s == trail[c].by
<1>1. /\ Len(trail) \in Nat /\ DOMAIN trail = 1 .. Len(trail)
      /\ \A i \in DOMAIN trail : Events[i] = trail[i].event /\ trail[i] \in TrailRecords
      /\ InStreamOrder(trail)
  BY TrailIs
<1>2. n \in Nat /\ s \in Streams
  BY <1>1, RecordKinds DEF EndAt, KindAt
<1>3. U \subseteq ChunkEventsOf(s)
  BY StreamAlone
<1>4. \A i \in U : i \in DOMAIN trail /\ trail[i].by = s /\ ChunkAt(trail, i)
  BY <1>3 DEF ChunkEventsOf, ChunkEvents, ChunkAt, KindAt
<1>5. \A i \in U : trail[i].event.seq \in Nat
  BY <1>1, <1>4, RecordKinds DEF ChunkAt, KindAt
<1>6. ASSUME NEW i \in U PROVE trail[i].event.seq \in 0 .. n - 1
  <2>1. SameStream(trail, c, i) /\ c # i
    BY <1>2, <1>4 DEF SameStream, EndAt, ChunkAt
  <2>2. trail[i].event.seq < n
    BY <1>1, <1>4, <2>1 DEF InStreamOrder
  <2> QED
    BY <1>2, <1>5, <2>2
<1>7. ASSUME NEW i \in U, NEW j \in U, trail[i].event.seq = trail[j].event.seq PROVE i = j
  <2>1. SameStream(trail, i, j)
    BY <1>2, <1>4 DEF SameStream
  <2> QED
    BY <1>1, <1>4, <1>7, <2>1 DEF InStreamOrder
<1>8. PICK m \in Nat : U \in SUBSET (1 .. m)
  BY <1>1, <1>4
<1>9. /\ \A k \in 1 .. n : Nth(U, k) \in U
      /\ \A k, l \in 1 .. n : Nth(U, k) = Nth(U, l) => k = l
      /\ \A i \in U : \E k \in 1 .. n : Nth(U, k) = i
  <2> HIDE DEF U
  <2>1. Cardinality(U) = n
    BY DEF U
  <2> QED
    BY <1>8, <2>1, NthOf
<1>10. /\ DOMAIN chunks = 1 .. n /\ IsList(chunks) /\ Len(chunks) = n
       /\ \A k \in 1 .. n : /\ chunks[k].seq = Events[Nth(U, k)].seq
                            /\ chunks[k].chunk_hash = Events[Nth(U, k)].chunk_hash
  <2>1. Cardinality(U) = n
    OBVIOUS
  <2>2. chunks = [k \in 1 .. n |-> [seq |-> Events[Nth(U, k)].seq, chunk_hash |-> Events[Nth(U, k)].chunk_hash]]
    BY <2>1 DEF ChunksAt
  <2> HIDE DEF chunks, n, U
  <2>3. DOMAIN chunks = 1 .. n /\ Len(chunks) = n
    BY <1>2, <2>2
  <2> QED
    BY <1>2, <2>2, <2>3 DEF IsList
<1> HIDE DEF U, chunks, n
<1>11. \A k \in 1 .. n : /\ chunks[k].seq = trail[Nth(U, k)].event.seq
                         /\ chunks[k].chunk_hash = trail[Nth(U, k)].event.chunk_hash
  BY <1>1, <1>4, <1>9, <1>10
<1>12. /\ \A k \in DOMAIN chunks : chunks[k].seq \in 0 .. Len(chunks) - 1
       /\ \A k, l \in DOMAIN chunks : chunks[k].seq = chunks[l].seq => k = l
  <2>1. ASSUME NEW k \in DOMAIN chunks PROVE chunks[k].seq \in 0 .. Len(chunks) - 1
    <3>1. k \in 1 .. n /\ Nth(U, k) \in U
      BY <1>9, <1>10
    <3>2. trail[Nth(U, k)].event.seq \in 0 .. n - 1
      BY <1>6, <3>1
    <3> QED
      BY <1>10, <1>11, <3>1, <3>2
  <2>2. ASSUME NEW k \in DOMAIN chunks, NEW l \in DOMAIN chunks, chunks[k].seq = chunks[l].seq
        PROVE  k = l
    <3>1. /\ k \in 1 .. n /\ Nth(U, k) \in U
          /\ l \in 1 .. n /\ Nth(U, l) \in U
      BY <1>9, <1>10
    <3>2. trail[Nth(U, k)].event.seq = trail[Nth(U, l)].event.seq
      BY <1>11, <2>2, <3>1
    <3>3. Nth(U, k) = Nth(U, l)
      BY <1>7, <3>1, <3>2
    <3> QED
      BY <1>9, <3>1, <3>3
  <2> QED
    BY <2>1, <2>2
<1>13. /\ DOMAIN InSeqOrder(chunks) = DOMAIN chunks
       /\ \A k \in DOMAIN chunks : InSeqOrder(chunks)[chunks[k].seq + 1] = chunks[k].chunk_hash
       /\ \A p \in DOMAIN chunks : \E k \in DOMAIN chunks : chunks[k].seq + 1 = p
  BY <1>10, <1>12, SeqOrderPlaces
<1>14. InSeqOrder(chunks) = [p \in DOMAIN InSeqOrder(chunks) |-> InSeqOrder(chunks)[p]]
  BY DEF InSeqOrder
<1>15. ASSUME NEW i \in U PROVE InSeqOrder(chunks)[trail[i].event.seq + 1] = trail[i].event.chunk_hash
  <2>1. PICK k \in 1 .. n : Nth(U, k) = i
    BY <1>9
  <2>2. chunks[k].seq = trail[i].event.seq /\ chunks[k].chunk_hash = trail[i].event.chunk_hash
    BY <1>11, <2>1
  <2>3. InSeqOrder(chunks)[chunks[k].seq + 1] = chunks[k].chunk_hash
    BY <1>10, <1>13, <2>1
  <2> QED
    BY <2>2, <2>3
<1>16. ASSUME NEW p \in 1 .. n PROVE \E i \in U : trail[i].event.seq + 1 = p
  <2>1. PICK k \in 1 .. n : chunks[k].seq + 1 = p
    BY <1>10, <1>13
  <2> QED
    BY <1>9, <1>11, <2>1
<1>17. InSeqOrder(chunks) = [p \in 1 .. n |-> InSeqOrder(chunks)[p]]
  BY <1>10, <1>13, <1>14
<1> QED
  BY <1>2, <1>15, <1>16, <1>17 DEF U, chunks, n

\* What a completed event of the trail answers.
LEMMA Closing ==
  ASSUME GoodTrail(trail), NEW c \in DOMAIN trail, EndAt(trail, c), NEW s, s = trail[c].by,
         NEW n, n = trail[c].event.total_chunks
  PROVE  /\ s \in Streams /\ n \in 0 .. Len(Content[s])
         /\ Cardinality(UsedIn(Events, c)) \in Nat
         /\ FailureAt(Events, c) =
              IF SpoiltAt(Events, c) THEN "RequiredFieldMissing"
              ELSE IF Cardinality(UsedIn(Events, c)) # n THEN "none"
              ELSE IF StreamRoot(SubSeq(Content[s], 1, n)) = StreamRoot(InSeqOrder(ChunksAt(Events, c)))
                     THEN "none" ELSE "StreamingMerkleRootMismatch"
<1> DEFINE root == StreamRoot(SubSeq(Content[s], 1, n))
           chunks == ChunksAt(Events, c)
           U == UsedIn(Events, c)
<1>1. /\ Len(trail) \in Nat /\ DOMAIN trail = 1 .. Len(trail)
      /\ Events[c] = trail[c].event /\ trail[c] \in TrailRecords
      /\ InStreamOrder(trail) /\ c \in Nat \ {0}
  BY TrailIs
<1>2. s \in Streams /\ n \in Nat
  BY <1>1, RecordKinds DEF EndAt, KindAt
<1>3. n <= Len(Content[s]) /\ trail[c].event.streaming_merkle_root = root
  BY <1>1 DEF InStreamOrder
<1>4. n \in 0 .. Len(Content[s])
  BY <1>2, <1>3, ContentIs
<1>5. n # NoValue /\ root # NoValue
  BY <1>2, <1>4, FieldsAssumption
<1>6. Cardinality(U) \in Nat
  <2>1. OpenedBefore(Events, c) \in 0 .. c - 1
    BY <1>1, OpenedIs
  <2>2. U \in SUBSET (1 .. c - 1) /\ c - 1 \in Nat
    BY <1>1, <2>1 DEF UsedIn, Since
  <2> HIDE DEF U
  <2> QED
    BY <2>2, NthOf
<1>7. Len(chunks) = Cardinality(U)
  BY <1>6 DEF ChunksAt
<1>8. Events[c].total_chunks = n /\ Events[c].streaming_merkle_root = root
  BY <1>1, <1>3
<1> HIDE DEF root, chunks, U
<1>9. \A b \in BOOLEAN :
        CloseStream([chunks |-> chunks, malformed |-> b], Events[c]) =
          IF b THEN "RequiredFieldMissing"
          ELSE IF Cardinality(U) # n THEN "none"
          ELSE IF root = StreamRoot(InSeqOrder(chunks)) THEN "none" ELSE "StreamingMerkleRootMismatch"
  <2> TAKE b \in BOOLEAN
  <2> DEFINE a == [chunks |-> chunks, malformed |-> b]
  <2>1. a.chunks = chunks /\ a.malformed = b
    OBVIOUS
  <2> HIDE DEF a
  <2>2. TotalChunks(a, Events[c]) = n
    BY <1>5, <1>8 DEF TotalChunks
  <2>3. CloseStream(a, Events[c]) =
          IF b THEN "RequiredFieldMissing"
          ELSE IF Len(chunks) # n THEN "none"
          ELSE IF root = StreamRoot(InSeqOrder(chunks)) THEN "none" ELSE "StreamingMerkleRootMismatch"
    BY <1>5, <1>8, <2>1, <2>2 DEF CloseStream
  <2> QED
    BY <1>7, <2>3 DEF a
<1>10. SpoiltAt(Events, c) \in BOOLEAN
  BY DEF SpoiltAt
<1>11. FailureAt(Events, c) =
         CloseStream([chunks |-> chunks, malformed |-> SpoiltAt(Events, c)], Events[c])
  BY AccumulatorIs DEF FailureAt, chunks
<1>12. CloseStream([chunks |-> chunks, malformed |-> SpoiltAt(Events, c)], Events[c]) =
          IF SpoiltAt(Events, c) THEN "RequiredFieldMissing"
          ELSE IF Cardinality(U) # n THEN "none"
          ELSE IF root = StreamRoot(InSeqOrder(chunks)) THEN "none" ELSE "StreamingMerkleRootMismatch"
  BY <1>9, <1>10
<1> QED
  BY <1>2, <1>4, <1>6, <1>11, <1>12 DEF root, chunks, U

\* A chunk of the trail, and the one its stream sent under its number.
LEMMA ChunkSent ==
  ASSUME GoodTrail(trail), NEW s \in Streams, NEW i \in ChunkEventsOf(s)
  PROVE  /\ i \in DOMAIN trail /\ trail[i].by = s /\ ChunkAt(trail, i)
         /\ trail[i].event.seq \in Nat /\ trail[i].event.seq + 1 \in 1 .. Len(Content[s])
         /\ Content[s][trail[i].event.seq + 1] # NoValue
         /\ Altered(i) <=> trail[i].event.chunk_hash # Content[s][trail[i].event.seq + 1]
<1>1. i \in DOMAIN trail /\ trail[i].by = s /\ ChunkAt(trail, i)
  BY DEF ChunkEventsOf, ChunkEvents, ChunkAt, KindAt
<1>2. trail[i].event.seq \in Nat
  BY <1>1, TrailIs, RecordKinds DEF ChunkAt, KindAt
<1>3. trail[i].event.seq < Len(Content[s])
  BY <1>1, TrailIs DEF InStreamOrder
<1>4. trail[i].event.seq + 1 \in 1 .. Len(Content[s])
  BY <1>2, <1>3, ContentIs
<1> QED
  BY <1>1, <1>2, <1>4, ContentIs DEF Altered

\* The chunks as they were sent agree with the root, or are too few to say.
LEMMA AsSentAgrees ==
  ASSUME GoodTrail(trail), OneAtATime, NEW c \in DOMAIN trail, EndAt(trail, c),
         \A i \in ChunkEvents : ~Altered(i)
  PROVE  FailureAt(Events, c) = "none"
<1> DEFINE s == trail[c].by
           n == trail[c].event.total_chunks
           U == UsedIn(Events, c)
           leaves == InSeqOrder(ChunksAt(Events, c))
<1>1. /\ s \in Streams /\ n \in 0 .. Len(Content[s]) /\ Cardinality(U) \in Nat
      /\ FailureAt(Events, c) =
           IF SpoiltAt(Events, c) THEN "RequiredFieldMissing"
           ELSE IF Cardinality(U) # n THEN "none"
           ELSE IF StreamRoot(SubSeq(Content[s], 1, n)) = StreamRoot(leaves)
                  THEN "none" ELSE "StreamingMerkleRootMismatch"
  BY Closing
<1>2. ASSUME NEW i \in ChunkEventsOf(s)
      PROVE  /\ trail[i].event.chunk_hash = Content[s][trail[i].event.seq + 1]
             /\ trail[i].event.chunk_hash # NoValue
  <2>1. i \in ChunkEvents
    BY DEF ChunkEventsOf
  <2>2. ~Altered(i)
    BY <2>1
  <2> QED
    BY <1>1, <2>2, ChunkSent
<1>3. ~SpoiltAt(Events, c)
  BY <1>2, StreamAlone
<1>4. U \subseteq ChunkEventsOf(s)
  BY StreamAlone
<1>5. ASSUME Cardinality(U) = n PROVE leaves = SubSeq(Content[s], 1, n)
  <2>1. /\ leaves = [p \in 1 .. n |-> leaves[p]]
        /\ \A i \in U : leaves[trail[i].event.seq + 1] = trail[i].event.chunk_hash
        /\ \A p \in 1 .. n : \E i \in U : trail[i].event.seq + 1 = p
    BY <1>5, SortedLeaves
  <2> HIDE DEF leaves, U, n, s
  <2>2. \A p \in 1 .. n : leaves[p] = Content[s][p]
    <3> TAKE p \in 1 .. n
    <3>1. PICK i \in U : trail[i].event.seq + 1 = p
      BY <2>1
    <3>2. leaves[trail[i].event.seq + 1] = trail[i].event.chunk_hash
      BY <2>1
    <3>3. trail[i].event.chunk_hash = Content[s][trail[i].event.seq + 1]
      BY <1>2, <1>4
    <3> QED
      BY <3>1, <3>2, <3>3
  <2>3. SubSeq(Content[s], 1, n) = [p \in 1 .. n |-> Content[s][p]]
    BY <1>1, ContentIs
  <2> QED
    BY <2>1, <2>2, <2>3
<1> HIDE DEF leaves, U, n, s
<1> QED
  BY <1>1, <1>3, <1>5

\* A leaf that is no hash is not passed over where its stream completes.
LEMMA SpoiltIsCaught ==
  ASSUME GoodTrail(trail), OneAtATime, NEW c \in DOMAIN trail, EndAt(trail, c),
         NEW i \in ChunkEventsOf(trail[c].by), trail[i].event.chunk_hash = NoValue
  PROVE  FailureAt(Events, c) # "none"
<1>1. SpoiltAt(Events, c)
  BY StreamAlone
<1>2. FailureAt(Events, c) = "RequiredFieldMissing"
  BY <1>1, Closing
<1> QED
  BY <1>2

\* An altered leaf is caught where every leaf of its stream is shown.
LEMMA AlteredIsCaught ==
  ASSUME GoodTrail(trail), OneAtATime, NEW c \in DOMAIN trail, EndAt(trail, c),
         NEW i \in ChunkEventsOf(trail[c].by), Altered(i),
         trail[c].event.total_chunks = Cardinality(ChunkEventsOf(trail[c].by))
  PROVE  FailureAt(Events, c) # "none"
<1> DEFINE s == trail[c].by
           n == trail[c].event.total_chunks
           U == UsedIn(Events, c)
           leaves == InSeqOrder(ChunksAt(Events, c))
           written == SubSeq(Content[s], 1, n)
<1>1. CASE \E k \in ChunkEventsOf(s) : trail[k].event.chunk_hash = NoValue
  BY <1>1, SpoiltIsCaught
<1>2. CASE \A k \in ChunkEventsOf(s) : trail[k].event.chunk_hash # NoValue
  <2>1. U = {k \in ChunkEventsOf(s) : trail[k].event.chunk_hash # NoValue} /\ ~SpoiltAt(Events, c)
    BY <1>2, StreamAlone
  <2>2. U = ChunkEventsOf(s)
    BY <1>2, <2>1
  <2>3. Cardinality(U) = n
    BY <2>2
  <2>4. /\ s \in Streams /\ n \in 0 .. Len(Content[s])
        /\ FailureAt(Events, c) =
             IF StreamRoot(written) = StreamRoot(leaves) THEN "none" ELSE "StreamingMerkleRootMismatch"
    BY <2>1, <2>3, Closing
  <2>5. /\ leaves = [p \in 1 .. n |-> leaves[p]]
        /\ leaves[trail[i].event.seq + 1] = trail[i].event.chunk_hash
    BY <2>2, <2>3, SortedLeaves
  <2>6. trail[i].event.seq + 1 \in 1 .. n
    <3>1. /\ i \in DOMAIN trail /\ trail[i].by = s /\ ChunkAt(trail, i) /\ trail[i].event.seq \in Nat
      BY <2>4, ChunkSent
    <3>2. SameStream(trail, c, i) /\ c # i
      BY <2>4, <3>1 DEF SameStream, EndAt, ChunkAt
    <3>3. trail[i].event.seq < n
      BY <3>1, <3>2, TrailIs DEF InStreamOrder
    <3> QED
      BY <2>4, <3>1, <3>3
  <2>7. trail[i].event.chunk_hash # Content[s][trail[i].event.seq + 1]
    BY <2>4, ChunkSent
  <2> HIDE DEF leaves, s, n
  <2>8. /\ IsList(written) /\ Len(written) = n /\ DOMAIN written = 1 .. n
        /\ \A p \in 1 .. n : written[p] = Content[s][p]
    BY <2>4, ContentIs DEF IsList
  <2>9. IsList(leaves) /\ Len(leaves) = n
    BY <2>4, <2>5 DEF IsList
  <2> HIDE DEF written
  <2>10. StreamRoot(written) # StreamRoot(leaves)
    <3> SUFFICES ASSUME StreamRoot(written) = StreamRoot(leaves) PROVE FALSE
      OBVIOUS
    <3>1. \A p \in DOMAIN written : written[p] = leaves[p]
      BY <2>8, <2>9, StreamRootBinds
    <3> QED
      BY <2>5, <2>6, <2>7, <2>8, <3>1
  <2> QED
    BY <2>4, <2>10
<1> QED
  BY <1>1, <1>2

\* A completed event that fails makes the walk fail.
LEMMA FailureShows ==
  ASSUME GoodTrail(trail), NEW c \in DOMAIN trail, EndAt(trail, c), FailureAt(Events, c) # "none"
  PROVE  VerifyStreamingMerkleRoots(Events) # "none"
<1>1. /\ Len(trail) \in Nat /\ DOMAIN trail = 1 .. Len(trail) /\ DOMAIN Events = 1 .. Len(trail)
      /\ Events[c] = trail[c].event
  BY TrailIs
<1>2. c \in Failing(Events) /\ Failing(Events) \subseteq Nat
  BY <1>1 DEF Failing, EndAt, KindAt
<1>3. PICK first \in Failing(Events) : \A d \in Failing(Events) : first <= d
  BY <1>2, LeastNumber
<1>4. VerifyStreamingMerkleRoots(Events) = FailureAt(Events, first)
  BY <1>1, <1>3, FirstFails
<1> QED
  BY <1>3, <1>4 DEF Failing

\* streaming_merkle.rs: where no stream's events stand between those of another,
\* the leaves decide: unaltered they pass, whatever their order and however few
\* are shown, and an altered leaf of a fully disclosed stream, or one that is no
\* hash in a completed stream, is refused.
THEOREM LeavesAreDecisive == StreamsSpec => []LeavesDecide
<1>1. StreamsInv => LeavesDecide
  <2> SUFFICES ASSUME StreamsInv, stage = "done", OneAtATime
               PROVE  /\ (\A i \in ChunkEvents : ~Altered(i)) => outcome = "none"
                      /\ \A s \in Streams : \A i \in ChunkEventsOf(s) :
                           Altered(i) /\ (FullyDisclosed(s) \/ (sent[s] = Closed /\ IsMalformed(trail[i].event)))
                             => outcome # "none"
    BY DEF LeavesDecide
  <2>1. GoodTrail(trail) /\ outcome = VerifyStreamingMerkleRoots(Events)
    BY DEF StreamsInv, WalkHolds
  <2>2. /\ DOMAIN Events = DOMAIN trail /\ AsSent(trail, sent)
        /\ \A c \in DOMAIN trail : Events[c] = trail[c].event
    BY <2>1, TrailIs
  <2>3. ASSUME \A i \in ChunkEvents : ~Altered(i) PROVE outcome = "none"
    <3>1. Failing(Events) = {}
      <4> SUFFICES ASSUME NEW c \in Failing(Events) PROVE FALSE
        OBVIOUS
      <4>1. c \in DOMAIN trail /\ EndAt(trail, c) /\ FailureAt(Events, c) # "none"
        BY <2>2 DEF Failing, EndAt, KindAt
      <4> QED
        BY <2>1, <2>3, <4>1, AsSentAgrees
    <3> QED
      BY <2>1, <3>1, NothingFails
  <2>4. ASSUME NEW s \in Streams, NEW i \in ChunkEventsOf(s), Altered(i), FullyDisclosed(s)
        PROVE  outcome # "none"
    <3>1. PICK c \in DOMAIN trail : /\ trail[c].by = s /\ EndAt(trail, c)
                                    /\ trail[c].event.total_chunks = Cardinality(ChunkEventsOf(s))
      BY <2>4 DEF FullyDisclosed, EndAt, KindAt
    <3>2. FailureAt(Events, c) # "none"
      BY <2>1, <2>4, <3>1, AlteredIsCaught
    <3> QED
      BY <2>1, <3>1, <3>2, FailureShows
  <2>5. ASSUME NEW s \in Streams, NEW i \in ChunkEventsOf(s), sent[s] = Closed,
               IsMalformed(trail[i].event)
        PROVE  outcome # "none"
    <3>1. PICK c \in DOMAIN trail : trail[c].by = s /\ EndAt(trail, c)
      BY <2>2, <2>5 DEF AsSent
    <3>2. trail[i].event.chunk_hash = NoValue
      BY <2>1, <2>5, ChunkSent, FieldsAssumption DEF IsMalformed, IsUsable, ChunkAt, KindAt
    <3>3. FailureAt(Events, c) # "none"
      BY <2>1, <3>1, <3>2, SpoiltIsCaught
    <3> QED
      BY <2>1, <3>1, <3>3, FailureShows
  <2> QED
    BY <2>3, <2>4, <2>5
<1> QED
  BY <1>1, StreamsInvariant, PTL
=============================================================================
