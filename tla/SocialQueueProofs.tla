------------------------- MODULE SocialQueueProofs -------------------------
(***************************************************************************)
(* Proofs about SocialQueue, for every set of posts and networks, every    *)
(* batch size, number of attempts and number of crashes, with statements   *)
(* that fail and replies that are lost.                                    *)
(*                                                                         *)
(* What the properties say of the tables is not inductive: it holds        *)
(* because of what the worker knows between two statements.  WorkerInv     *)
(* says which post and network it holds, RowInv what the row of the        *)
(* attempt under way can be, LoopInv what its flags have recorded of the   *)
(* networks already visited.                                               *)
(***************************************************************************)
EXTENDS SocialQueue, FiniteSetTheorems, TLAPS

Trying == {"claim", "publish", "success", "failure"}

WorkerInv ==
    /\ cur # NoPost <=> pc \in Trying \cup {"network"}
    /\ net # NoNetwork <=> pc \in Trying
    /\ cur # NoPost =>
          /\ state[cur] = "pending"
          /\ cur \notin batch
          /\ todo \subseteq networks[cur]
          /\ net # NoNetwork => net \in networks[cur] \ todo
    /\ \A p \in batch : state[p] = "pending"

\* The row of the attempt under way, at each of its steps.
RowInv ==
    /\ pc = "claim" => log[cur][net] \in {"none", "failed"}
    /\ pc = "publish" =>
          /\ log[cur][net] \in {"publishing", "failed"}
          /\ log[cur][net] = "publishing" => accepted[cur][net] = 0
    /\ pc = "success" => log[cur][net] # "none" /\ accepted[cur][net] > 0
    /\ pc = "failure" => log[cur][net] # "none"

\* A network the loop has left behind.
Visited(n) == cur # NoPost /\ n \in networks[cur] \ todo /\ n # net

LoopInv ==
    \A n \in Networks :
        Visited(n) /\ "unsent" \notin flags => log[cur][n] = "sent"

\* Abandon takes the post out of reach at the last attempt.
AttemptsInv ==
    \A p \in Posts : state[p] \in {"absent", "pending"} => attempts[p] < MaxAttempts

DeliveryInv ==
    /\ \A p \in Posts, n \in Networks : log[p][n] = "sent" => accepted[p][n] > 0
    /\ \A p \in Posts :
          state[p] = "sent" => \A n \in networks[p] : log[p][n] = "sent"

IInv ==
    /\ TypeOK
    /\ WorkerInv
    /\ RowInv
    /\ LoopInv
    /\ AttemptsInv
    /\ MarkedBeforeDelivery
    /\ DeliveryInv

-----------------------------------------------------------------------------
LEMMA TypeInit == Init => TypeOK
BY ConstantsAssumption
   DEF Init, TypeOK, QueueStates, LogStates, Steps, Flags

\* Every statement and call keeps the tables and the worker well typed; only
\* Retry and Abandon move attempts, and Abandon leaves the post out of reach.
LEMMA TypeStep == IInv /\ [Next]_vars => TypeOK'
<1> SUFFICES ASSUME IInv, [Next]_vars PROVE TypeOK'
  OBVIOUS
<1> USE ConstantsAssumption DEF IInv, TypeOK, QueueStates, LogStates, Steps, Flags, queue, env, worker
<1>1. CASE UNCHANGED vars
  BY <1>1 DEF vars
<1>2. CASE \E p \in Posts, nets \in SUBSET Networks : Enqueue(p, nets)
  BY <1>2 DEF Enqueue
<1>3. CASE Tick
  BY <1>3 DEF Tick
<1>4. CASE DuePosts
  BY <1>4 DEF DuePosts, OldestDue, Due
<1>5. CASE \E p \in Posts : StartPost(p)
  BY <1>5 DEF StartPost
<1>6. CASE EndDrain
  BY <1>6 DEF EndDrain
<1>7. CASE \E n \in Networks : SkipNetwork(n)
  BY <1>7 DEF SkipNetwork, Failed, Orphaned
<1>8. CASE \E n \in Networks : TryNetwork(n)
  BY <1>8 DEF TryNetwork
<1>9. CASE ClaimPublish
  <2>1. cur \in Posts /\ net \in Networks
    BY <1>9 DEF ClaimPublish, WorkerInv, Trying
  <2>2. Claimed(log[cur][net]) \in LogStates
    BY <2>1 DEF Claimed
  <2> QED
    BY <1>9, <2>1, <2>2 DEF ClaimPublish
<1>10. CASE ClaimFails
  BY <1>10 DEF ClaimFails, Continue, Failed
<1>11. CASE ProviderAccepts
  BY <1>11 DEF ProviderAccepts, OneMore, WorkerInv, Trying
<1>12. CASE ProviderRefuses
  BY <1>12 DEF ProviderRefuses
<1>13. CASE MarkPublished
  <2>1. cur \in Posts /\ net \in Networks
    BY <1>13 DEF MarkPublished, WorkerInv, Trying
  <2>2. log' \in [Posts -> [Networks -> LogStates]]
    <3>1. CASE log' = log
      BY <3>1
    <3>2. CASE log' = [log EXCEPT ![cur][net] = "sent"]
      BY <2>1, <3>2
    <3> QED
      BY <1>13, <3>1, <3>2 DEF MarkPublished
  <2>3. flags' \in SUBSET Flags
    BY <1>13 DEF MarkPublished, Continue, Failed
  <2> QED
    BY <1>13, <2>2, <2>3 DEF MarkPublished, Continue
<1>14. CASE MarkPublishFailed
  <2>1. cur \in Posts /\ net \in Networks
    BY <1>14 DEF MarkPublishFailed, WorkerInv, Trying
  <2>2. log' \in [Posts -> [Networks -> LogStates]]
    <3>1. CASE log' = log
      BY <3>1
    <3>2. CASE log' = [log EXCEPT ![cur][net] = "failed"]
      BY <2>1, <3>2
    <3> QED
      BY <1>14, <3>1, <3>2 DEF MarkPublishFailed
  <2>3. flags' \in SUBSET Flags
    BY <1>14 DEF MarkPublishFailed, Continue, Failed
  <2> QED
    BY <1>14, <2>2, <2>3 DEF MarkPublishFailed, Continue
<1>15. CASE Promote
  BY <1>15 DEF Promote, EndPost
<1>16. CASE Park
  BY <1>16 DEF Park, EndPost
<1>17. CASE Retry
  BY <1>17 DEF Retry, EndPost, FailedPlainly, WorkerInv, Trying
<1>18. CASE Abandon
  BY <1>18 DEF Abandon, EndPost, FailedPlainly, WorkerInv, AttemptsInv, Trying
<1>19. CASE MarkPostStateFails
  BY <1>19 DEF MarkPostStateFails, EndPost
<1>20. CASE \E p \in Posts, n \in Networks : ResolvePublishing(p, n)
  BY <1>20 DEF ResolvePublishing
<1>21. CASE Crash
  BY <1>21 DEF Crash
<1> QED
  BY <1>1, <1>2, <1>3, <1>4, <1>5, <1>6, <1>7, <1>8, <1>9, <1>10,
     <1>11, <1>12, <1>13,
     <1>14, <1>15, <1>16, <1>17, <1>18, <1>19, <1>20, <1>21 DEF Next, WorkerStep
LEMMA IInvInit == Init => IInv
BY TypeInit, ConstantsAssumption
   DEF Init, IInv, WorkerInv, RowInv, LoopInv, Visited, AttemptsInv, DeliveryInv,
       MarkedBeforeDelivery, Trying

\* A row that turns 'failed' takes no delivery away, and its post is not 'sent'.
LEMMA UnsentKeepsDelivery ==
    ASSUME TypeOK, DeliveryInv,
           cur \in Posts, net \in Networks, state[cur] = "pending",
           log' = [log EXCEPT ![cur][net] = "failed"],
           accepted' = accepted, state' = state, networks' = networks
    PROVE  DeliveryInv'
<1>1. \A p \in Posts, n \in Networks :
        log'[p][n] = IF p = cur /\ n = net THEN "failed" ELSE log[p][n]
  BY DEF TypeOK
<1> QED
  BY <1>1 DEF TypeOK, DeliveryInv

LEMMA IInvStep == IInv /\ [Next]_vars => IInv'
<1> SUFFICES ASSUME IInv, [Next]_vars PROVE IInv'
  OBVIOUS
<1>t. TypeOK'
  BY TypeStep
<1>d. TypeOK /\ DeliveryInv
  BY DEF IInv
<1> USE ConstantsAssumption DEF TypeOK, QueueStates, LogStates, Steps, Flags, queue, env, worker
<1>1. CASE UNCHANGED vars
  BY <1>1, <1>t DEF vars, IInv, WorkerInv, RowInv, LoopInv, Visited, AttemptsInv,
       DeliveryInv, MarkedBeforeDelivery, Trying
<1>2. CASE \E p \in Posts, nets \in SUBSET Networks : Enqueue(p, nets)
  BY <1>t, <1>2 DEF IInv, Enqueue, WorkerInv, RowInv, LoopInv, Visited, AttemptsInv,
       MarkedBeforeDelivery, DeliveryInv, Trying
<1>3. CASE Tick
  BY <1>t, <1>3 DEF IInv, Tick, WorkerInv, RowInv, LoopInv, Visited, AttemptsInv,
       MarkedBeforeDelivery, DeliveryInv, Trying
<1>4. CASE DuePosts
  BY <1>t, <1>4 DEF IInv, DuePosts, OldestDue, Due, WorkerInv, RowInv, LoopInv, Visited, AttemptsInv,
       MarkedBeforeDelivery, DeliveryInv, Trying
<1>5. CASE \E p \in Posts : StartPost(p)
  BY <1>t, <1>5 DEF IInv, StartPost, WorkerInv, RowInv, LoopInv, Visited, AttemptsInv,
       MarkedBeforeDelivery, DeliveryInv, Trying
<1>6. CASE EndDrain
  BY <1>t, <1>6 DEF IInv, EndDrain, WorkerInv, RowInv, LoopInv, Visited, AttemptsInv,
       MarkedBeforeDelivery, DeliveryInv, Trying
<1>7. CASE \E n \in Networks : SkipNetwork(n)
  BY <1>t, <1>7 DEF IInv, SkipNetwork, Failed, Orphaned, Retriable, WorkerInv, RowInv, LoopInv, Visited, AttemptsInv,
       MarkedBeforeDelivery, DeliveryInv, Trying
<1>8. CASE \E n \in Networks : TryNetwork(n)
  BY <1>t, <1>8 DEF IInv, TryNetwork, Retriable, WorkerInv, RowInv, LoopInv, Visited, AttemptsInv,
       MarkedBeforeDelivery, DeliveryInv, Trying
<1>9. CASE ClaimPublish
  BY <1>t, <1>9 DEF IInv, ClaimPublish, Claimed, WorkerInv, RowInv, LoopInv, Visited, AttemptsInv,
       MarkedBeforeDelivery, DeliveryInv, Trying
<1>10. CASE ClaimFails
  BY <1>t, <1>10 DEF IInv, ClaimFails, Continue, Failed, WorkerInv, RowInv, LoopInv, Visited, AttemptsInv,
       MarkedBeforeDelivery, DeliveryInv, Trying
<1>11. CASE ProviderAccepts
  BY <1>t, <1>11 DEF IInv, ProviderAccepts, OneMore, WorkerInv, RowInv, LoopInv, Visited, AttemptsInv,
       MarkedBeforeDelivery, DeliveryInv, Trying
<1>12. CASE ProviderRefuses
  BY <1>t, <1>12 DEF IInv, ProviderRefuses, WorkerInv, RowInv, LoopInv, Visited, AttemptsInv,
       MarkedBeforeDelivery, DeliveryInv, Trying
<1>13. CASE MarkPublished
  <2>1. cur \in Posts /\ net \in Networks /\ state[cur] = "pending"
    BY <1>13 DEF IInv, MarkPublished, WorkerInv, Trying
  <2>2. CASE log' = [log EXCEPT ![cur][net] = "sent"]
    <3>1. \A p \in Posts, n \in Networks :
            log'[p][n] = IF p = cur /\ n = net THEN "sent" ELSE log[p][n]
      BY <2>1, <2>2 DEF IInv
    <3>2. DeliveryInv'
      BY <1>13, <2>1, <3>1 DEF IInv, MarkPublished, Continue, RowInv, DeliveryInv
    <3>3. MarkedBeforeDelivery'
      BY <1>13, <2>1, <3>1 DEF IInv, MarkPublished, Continue, RowInv, MarkedBeforeDelivery
    <3>4. LoopInv'
      BY <1>13, <2>1, <3>1 DEF IInv, MarkPublished, Continue, Failed, WorkerInv, LoopInv, Visited
    <3>5. WorkerInv' /\ RowInv' /\ AttemptsInv'
      BY <1>13 DEF IInv, MarkPublished, Continue, WorkerInv, RowInv, AttemptsInv, Trying
    <3> QED
      BY <1>t, <3>2, <3>3, <3>4, <3>5 DEF IInv
  <2>3. CASE log' = log /\ Continue(Failed(flags))
    BY <1>t, <1>13, <2>3 DEF IInv, MarkPublished, Continue, Failed, WorkerInv, RowInv, LoopInv,
       Visited, AttemptsInv, MarkedBeforeDelivery, DeliveryInv, Trying
  <2> QED
    BY <1>13, <2>2, <2>3 DEF MarkPublished
<1>14. CASE MarkPublishFailed
  <2>1. cur \in Posts /\ net \in Networks /\ state[cur] = "pending"
    BY <1>14 DEF IInv, MarkPublishFailed, WorkerInv, Trying
  <2>2. CASE log' = [log EXCEPT ![cur][net] = "failed"]
    <3>1. \A p \in Posts, n \in Networks :
            log'[p][n] = IF p = cur /\ n = net THEN "failed" ELSE log[p][n]
      BY <2>1, <2>2 DEF IInv
    <3>2. DeliveryInv'
      BY <1>14, <1>d, <2>1, <2>2, UnsentKeepsDelivery DEF MarkPublishFailed
    <3>3. MarkedBeforeDelivery'
      BY <1>14, <2>1, <3>1 DEF IInv, MarkPublishFailed, Continue, RowInv, MarkedBeforeDelivery
    <3>4. LoopInv'
      BY <1>14, <2>1, <3>1 DEF IInv, MarkPublishFailed, Continue, Failed, WorkerInv, LoopInv, Visited
    <3>5. WorkerInv' /\ RowInv' /\ AttemptsInv'
      BY <1>14 DEF IInv, MarkPublishFailed, Continue, WorkerInv, RowInv, AttemptsInv, Trying
    <3> QED
      BY <1>t, <3>2, <3>3, <3>4, <3>5 DEF IInv
  <2>3. CASE log' = log /\ Continue(Failed(flags))
    BY <1>t, <1>14, <2>3 DEF IInv, MarkPublishFailed, Continue, Failed, WorkerInv, RowInv, LoopInv,
       Visited, AttemptsInv, MarkedBeforeDelivery, DeliveryInv, Trying
  <2> QED
    BY <1>14, <2>2, <2>3 DEF MarkPublishFailed
<1>15. CASE Promote
  BY <1>t, <1>15 DEF IInv, Promote, EndPost, WorkerInv, RowInv, LoopInv, Visited, AttemptsInv,
       MarkedBeforeDelivery, DeliveryInv, Trying
<1>16. CASE Park
  BY <1>t, <1>16 DEF IInv, Park, EndPost, WorkerInv, RowInv, LoopInv, Visited, AttemptsInv,
       MarkedBeforeDelivery, DeliveryInv, Trying
<1>17. CASE Retry
  BY <1>t, <1>17 DEF IInv, Retry, EndPost, FailedPlainly, WorkerInv, RowInv, LoopInv, Visited, AttemptsInv,
       MarkedBeforeDelivery, DeliveryInv, Trying
<1>18. CASE Abandon
  BY <1>t, <1>18 DEF IInv, Abandon, EndPost, FailedPlainly, WorkerInv, RowInv, LoopInv, Visited, AttemptsInv,
       MarkedBeforeDelivery, DeliveryInv, Trying
<1>19. CASE MarkPostStateFails
  BY <1>t, <1>19 DEF IInv, MarkPostStateFails, EndPost, WorkerInv, RowInv, LoopInv, Visited, AttemptsInv,
       MarkedBeforeDelivery, DeliveryInv, Trying
<1>20. CASE \E p \in Posts, n \in Networks : ResolvePublishing(p, n)
  BY <1>t, <1>20 DEF IInv, ResolvePublishing, WorkerInv, RowInv, LoopInv, Visited, AttemptsInv,
       MarkedBeforeDelivery, DeliveryInv, Trying
<1>21. CASE Crash
  BY <1>t, <1>21 DEF IInv, Crash, WorkerInv, RowInv, LoopInv, Visited, AttemptsInv,
       MarkedBeforeDelivery, DeliveryInv, Trying
<1> QED
  BY <1>1, <1>2, <1>3, <1>4, <1>5, <1>6, <1>7, <1>8, <1>9, <1>10,
     <1>11, <1>12, <1>13, <1>14, <1>15, <1>16, <1>17, <1>18, <1>19, <1>20, <1>21 DEF Next, WorkerStep

\* What MarkedBeforeDelivery and SentMeansDelivered say holds in every reachable
\* state: the journal's mark precedes the call of publishPost, and Promote only
\* sees networks the journal holds 'sent'.
THEOREM Invariance == Spec => []IInv
<1>1. Init => IInv
  BY IInvInit
<1>2. IInv /\ [Next]_vars => IInv'
  BY IInvStep
<1> QED
  BY <1>1, <1>2, PTL DEF Spec

\* The statuses, counters and worker's registers stay in their ranges; attempts
\* never passes maxAttempts (worker.go).
THEOREM TypeCorrect == Spec => []TypeOK
<1>1. IInv => TypeOK
  BY DEF IInv
<1> QED
  BY <1>1, Invariance, PTL

\* ClaimPublish before Publish: nothing is delivered without a row, and a row
\* still 'publishing' stands for at most one delivery.
THEOREM MarkBeforeDelivery == Spec => []MarkedBeforeDelivery
<1>1. IInv => MarkedBeforeDelivery
  BY DEF IInv
<1> QED
  BY <1>1, Invariance, PTL

\* StateSent is only given to a post every network of which really has it.
THEOREM PromotionIsSound == Spec => []SentMeansDelivered
<1>1. IInv => SentMeansDelivered
  BY DEF IInv, DeliveryInv, SentMeansDelivered, TypeOK
<1> QED
  BY <1>1, Invariance, PTL

-----------------------------------------------------------------------------
(* Without failing statements, invariant C2 of worker.go: LoopInv for the  *)
(* flag 'orphan', and the rows that networks outside the post never have.  *)

NoFaultInv ==
    /\ \A n \in Networks :
          Visited(n) /\ "orphan" \notin flags => log[cur][n] # "publishing"
    /\ \A p \in Posts, n \in Networks : log[p][n] # "none" => n \in networks[p]
    /\ \A p \in Posts : state[p] = "absent" => networks[p] = {}
    /\ NoAbandonWithOrphan

\* The post is given up once its loop is over and no row of it was left
\* 'publishing': a row outside its networks does not exist.
LEMMA AbandonStep ==
    ASSUME IInv, NoFaultInv, Abandon
    PROVE  NoFaultInv'
<1>1. /\ cur \in Posts /\ net = NoNetwork /\ todo = {}
      /\ "orphan" \notin flags
      /\ cur' = NoPost
      /\ log' = log /\ networks' = networks
      /\ state' = [state EXCEPT ![cur] = "failed"]
  <2>1. pc = "network" /\ cur # NoPost /\ net = NoNetwork
    BY DEF Abandon, EndPost, IInv, WorkerInv, Trying
  <2> QED
    BY <2>1 DEF Abandon, EndPost, FailedPlainly, IInv, TypeOK
<1>2. \A n \in Networks : log[cur][n] # "publishing"
  <2> SUFFICES ASSUME NEW n \in Networks, log[cur][n] = "publishing" PROVE FALSE
    OBVIOUS
  <2>1. n \in networks[cur]
    BY <1>1 DEF NoFaultInv
  <2>2. Visited(n)
    BY <1>1, <2>1, ConstantsAssumption DEF Visited
  <2> QED
    BY <1>1, <2>2 DEF NoFaultInv
<1>3. state \in [Posts -> QueueStates]
  BY DEF IInv, TypeOK
<1>4. NoAbandonWithOrphan'
  BY <1>1, <1>2, <1>3 DEF NoFaultInv, NoAbandonWithOrphan
<1>5. \A p \in Posts : state'[p] = "absent" => networks'[p] = {}
  BY <1>1, <1>3 DEF NoFaultInv
<1>6. \A n \in Networks : ~Visited(n)'
  BY <1>1 DEF Visited
<1> QED
  BY <1>1, <1>4, <1>5, <1>6 DEF NoFaultInv

LEMMA NoFaultStep ==
    ASSUME ~DbFaults, IInv, NoFaultInv, [Next]_vars
    PROVE  NoFaultInv'
<1>t. TypeOK /\ TypeOK'
  BY TypeStep DEF IInv
<1>e. IInv /\ NoFaultInv
  OBVIOUS
<1> USE ConstantsAssumption, <1>t
    DEF TypeOK, QueueStates, LogStates, Steps, Flags, queue, env, worker,
        IInv, WorkerInv, RowInv, NoFaultInv, NoAbandonWithOrphan, Visited, Trying
<1>1. CASE UNCHANGED vars
  BY <1>1 DEF vars
<1>2. CASE \E p \in Posts, nets \in SUBSET Networks : Enqueue(p, nets)
  <2> PICK p \in Posts, nets \in SUBSET Networks : Enqueue(p, nets)
    BY <1>2
  <2>1. p # cur /\ log' = log /\ \A q \in Posts : q # p => networks'[q] = networks[q]
    BY DEF Enqueue
  <2>2. \A n \in Networks : log[p][n] = "none"
    BY DEF Enqueue
  <2> QED
    BY <2>1, <2>2 DEF Enqueue
<1>3. CASE Tick
  BY <1>3 DEF Tick
<1>4. CASE DuePosts
  BY <1>4 DEF DuePosts, OldestDue, Due
<1>5. CASE \E p \in Posts : StartPost(p)
  BY <1>5 DEF StartPost
<1>6. CASE EndDrain
  BY <1>6 DEF EndDrain
<1>7. CASE \E n \in Networks : SkipNetwork(n)
  BY <1>7 DEF SkipNetwork, Failed, Orphaned, Retriable
<1>8. CASE \E n \in Networks : TryNetwork(n)
  BY <1>8 DEF TryNetwork, Retriable
<1>9. CASE ClaimPublish
  BY <1>9 DEF ClaimPublish, Claimed
<1>10. CASE ClaimFails
  BY <1>10 DEF ClaimFails
<1>11. CASE ProviderAccepts
  BY <1>11 DEF ProviderAccepts
<1>12. CASE ProviderRefuses
  BY <1>12 DEF ProviderRefuses
<1>13. CASE MarkPublished
  <2>1. cur \in Posts /\ net \in Networks /\ log' = [log EXCEPT ![cur][net] = "sent"]
    BY <1>13 DEF MarkPublished
  <2>2. \A p \in Posts, n \in Networks :
          log'[p][n] = IF p = cur /\ n = net THEN "sent" ELSE log[p][n]
    BY <2>1
  <2> QED
    BY <1>13, <2>1, <2>2 DEF MarkPublished, Continue
<1>14. CASE MarkPublishFailed
  <2>1. cur \in Posts /\ net \in Networks /\ log' = [log EXCEPT ![cur][net] = "failed"]
    BY <1>14 DEF MarkPublishFailed
  <2>2. \A p \in Posts, n \in Networks :
          log'[p][n] = IF p = cur /\ n = net THEN "failed" ELSE log[p][n]
    BY <2>1
  <2> QED
    BY <1>14, <2>1, <2>2 DEF MarkPublishFailed, Continue, Failed
<1>15. CASE Promote
  BY <1>15 DEF Promote, EndPost
<1>16. CASE Park
  BY <1>16 DEF Park, EndPost
<1>17. CASE Retry
  BY <1>17 DEF Retry, EndPost, FailedPlainly
<1>18. CASE Abandon
  BY <1>18, <1>e, AbandonStep
<1>19. CASE MarkPostStateFails
  BY <1>19 DEF MarkPostStateFails, EndPost
<1>20. CASE \E p \in Posts, n \in Networks : ResolvePublishing(p, n)
  BY <1>20 DEF ResolvePublishing
<1>21. CASE Crash
  BY <1>21 DEF Crash
<1> QED
  BY <1>1, <1>2, <1>3, <1>4, <1>5, <1>6, <1>7, <1>8, <1>9, <1>10,
     <1>11, <1>12, <1>13, <1>14, <1>15, <1>16, <1>17, <1>18, <1>19, <1>20, <1>21 DEF Next, WorkerStep

\* Invariant C2 (worker.go), when no statement fails: a post is never given up
\* over a row still 'publishing'. A mark that fails at the last attempt would leave one.
THEOREM NoAbandonWithoutFaults ==
    ASSUME ~DbFaults
    PROVE  Spec => []NoAbandonWithOrphan
<1>1. Init => NoFaultInv
  BY DEF Init, NoFaultInv, Visited, NoAbandonWithOrphan
<1>2. IInv /\ NoFaultInv /\ [Next]_vars => NoFaultInv'
  BY NoFaultStep
<1>3. NoFaultInv => NoAbandonWithOrphan
  BY DEF NoFaultInv
<1> QED
  BY <1>1, <1>2, <1>3, Invariance, PTL DEF Spec

-----------------------------------------------------------------------------
(* While no reply is lost, 'sent' is a lock.                               *)

\* The row of an attempt that failed: nothing was delivered under its mark.
FailureInv ==
    pc = "failure" =>
        /\ log[cur][net] \in {"publishing", "failed"}
        /\ log[cur][net] = "publishing" => accepted[cur][net] = 0

\* MarkPublishFailed is the only step that takes 'sent' away, and then finds none.
LEMMA SentStep ==
    ASSUME ~LostReplies, IInv, FailureInv, [Next]_vars
    PROVE  /\ FailureInv'
           /\ \A p \in Posts, n \in Networks : log[p][n] = "sent" => log'[p][n] = "sent"
<1> DEFINE Kept == \A p \in Posts, n \in Networks : log[p][n] = "sent" => log'[p][n] = "sent"
<1>t. TypeOK
  BY DEF IInv
<1>c. pc \in Trying => cur \in Posts /\ net \in Networks
  BY DEF IInv, TypeOK, WorkerInv, Trying
<1>1. ASSUME pc' # "failure", log' = log
      PROVE  FailureInv' /\ Kept
  BY <1>1 DEF FailureInv
<1>2. ASSUME UNCHANGED <<pc, cur, net, log, accepted>>
      PROVE  FailureInv' /\ Kept
  BY <1>2 DEF FailureInv
<1>3. CASE UNCHANGED vars
  BY <1>2, <1>3 DEF vars, worker
<1>4. CASE \E p \in Posts, nets \in SUBSET Networks : Enqueue(p, nets)
  BY <1>2, <1>4 DEF Enqueue, worker
<1>5. CASE Tick
  BY <1>2, <1>5 DEF Tick, worker
<1>6. CASE DuePosts \/ EndDrain \/ \E p \in Posts : StartPost(p)
  BY <1>1, <1>6 DEF DuePosts, EndDrain, StartPost
<1>7. CASE \E n \in Networks : SkipNetwork(n) \/ TryNetwork(n)
  BY <1>1, <1>7 DEF SkipNetwork, TryNetwork
<1>8. CASE ClaimPublish
  <2>1. pc' = "publish" /\ log' = [log EXCEPT ![cur][net] = Claimed(log[cur][net])]
    BY <1>8 DEF ClaimPublish
  <2>2. Claimed(log[cur][net]) = "sent" \/ log[cur][net] # "sent"
    BY DEF Claimed
  <2> QED
    BY <1>t, <2>1, <2>2 DEF FailureInv, TypeOK
<1>9. CASE ClaimFails
  BY <1>1, <1>9 DEF ClaimFails, Continue
<1>10. CASE ProviderAccepts
  BY <1>1, <1>10 DEF ProviderAccepts
<1>11. CASE ProviderRefuses
  BY <1>11 DEF ProviderRefuses, IInv, RowInv, FailureInv
<1>12. CASE MarkPublished
  <2>1. pc' = "network" /\ (log' = log \/ log' = [log EXCEPT ![cur][net] = "sent"])
    BY <1>12 DEF MarkPublished, Continue
  <2> QED
    BY <1>t, <2>1 DEF FailureInv, TypeOK
<1>13. CASE MarkPublishFailed
  <2>1. pc' = "network" /\ (log' = log \/ log' = [log EXCEPT ![cur][net] = "failed"])
    BY <1>13 DEF MarkPublishFailed, Continue
  <2>2. log[cur][net] # "sent"
    BY <1>13 DEF MarkPublishFailed, FailureInv
  <2> QED
    BY <1>t, <2>1, <2>2 DEF FailureInv, TypeOK
<1>14. CASE Promote \/ Park \/ Retry \/ Abandon \/ MarkPostStateFails
  BY <1>1, <1>14 DEF Promote, Park, Retry, Abandon, MarkPostStateFails, EndPost
<1>15. CASE \E p \in Posts, n \in Networks : ResolvePublishing(p, n)
  <2> PICK p \in Posts, n \in Networks : ResolvePublishing(p, n)
    BY <1>15
  <2> DEFINE outcome == IF accepted[p][n] > 0 THEN "sent" ELSE "failed"
  <2>1. /\ log[p][n] = "publishing" /\ log' = [log EXCEPT ![p][n] = outcome]
        /\ UNCHANGED <<pc, cur, net, accepted>>
    BY DEF ResolvePublishing, worker
  <2>2. Kept
    BY <1>t, <2>1 DEF TypeOK
  <2>3. CASE pc = "failure" /\ p = cur /\ n = net
    <3>1. outcome = "failed"
      BY <2>1, <2>3 DEF FailureInv
    <3> QED
      BY <1>t, <2>1, <2>2, <2>3, <3>1 DEF FailureInv, TypeOK
  <2>4. CASE pc = "failure" /\ ~(p = cur /\ n = net)
    <3>1. log'[cur][net] = log[cur][net]
      BY <1>t, <1>c, <2>1, <2>4 DEF TypeOK, Trying
    <3> QED
      BY <2>1, <2>2, <3>1 DEF FailureInv
  <2>5. CASE pc # "failure"
    BY <2>1, <2>2, <2>5 DEF FailureInv
  <2> QED
    BY <2>3, <2>4, <2>5
<1>16. CASE Crash
  BY <1>1, <1>16 DEF Crash
<1> QED
  BY <1>3, <1>4, <1>5, <1>6, <1>7, <1>8, <1>9, <1>10, <1>11, <1>12, <1>13, <1>14, <1>15, <1>16
  DEF Next, WorkerStep

\* ResolvePublishing and the marks: when no reply is lost, a row once 'sent' stays so,
\* whatever statement fails, however often the worker dies and whenever the operator
\* reconciles.
THEOREM SentForGood ==
    ASSUME ~LostReplies
    PROVE  Spec => SentIsFinal
<1> DEFINE Kept == \A p \in Posts, n \in Networks : log[p][n] = "sent" => log'[p][n] = "sent"
<1>1. Init => FailureInv
  BY DEF Init, FailureInv
<1>2. IInv /\ FailureInv /\ [Next]_vars => FailureInv' /\ Kept
  BY SentStep
<1> QED
  BY <1>1, <1>2, Invariance, PTL DEF Spec, SentIsFinal

-----------------------------------------------------------------------------
(* What a crash costs.                                                     *)

\* A pair published twice, or whose row calls for one more attempt though the provider
\* has the post: its call succeeded, but the worker died before MarkPublished.
Spent(p, n) ==
    \/ accepted[p][n] > 1
    \/ accepted[p][n] > 0 /\ log[p][n] = "failed" /\ ~(pc = "success" /\ cur = p /\ net = n)

SpentPairs == {pn \in Posts \X Networks : Spent(pn[1], pn[2])}

\* Each spent pair is paid for by a crash.
CostInv == IsFiniteSet(SpentPairs) /\ Cardinality(SpentPairs) <= crashes

\* No step but a crash spends a pair, and a crash spends the one whose call has just
\* succeeded.
LEMMA SpendStep ==
    ASSUME ~LostReplies, ~DbFaults, IInv, FailureInv, [Next]_vars,
           NEW p \in Posts, NEW n \in Networks, Spent(p, n)', ~Spent(p, n)
    PROVE  Crash /\ p = cur /\ n = net
<1>t. TypeOK /\ RowInv
  BY DEF IInv
<1>c. pc \in Trying => cur \in Posts /\ net \in Networks
  BY DEF IInv, TypeOK, WorkerInv, Trying
<1>a. accepted[p][n] \in 0 .. 2 /\ log[p][n] \in LogStates
  BY <1>t DEF TypeOK
<1>1. ASSUME pc # "success", log'[p][n] = log[p][n], accepted'[p][n] = accepted[p][n] PROVE FALSE
  BY <1>1 DEF Spent
<1>2. ASSUME UNCHANGED <<pc, cur, net, log, accepted>> PROVE FALSE
  BY <1>2 DEF Spent
<1>3. CASE UNCHANGED vars
  BY <1>2, <1>3 DEF vars, worker
<1>4. CASE \E q \in Posts, nets \in SUBSET Networks : Enqueue(q, nets)
  BY <1>2, <1>4 DEF Enqueue, worker
<1>5. CASE Tick
  BY <1>2, <1>5 DEF Tick, worker
<1>6. CASE DuePosts \/ EndDrain \/ \E q \in Posts : StartPost(q)
  BY <1>1, <1>6 DEF DuePosts, EndDrain, StartPost
<1>7. CASE \E m \in Networks : SkipNetwork(m) \/ TryNetwork(m)
  BY <1>1, <1>7 DEF SkipNetwork, TryNetwork
<1>8. CASE ClaimPublish
  <2>1. /\ pc = "claim" /\ accepted' = accepted
        /\ log' = [log EXCEPT ![cur][net] = Claimed(log[cur][net])]
    BY <1>8 DEF ClaimPublish
  <2>2. Claimed(log[cur][net]) # "failed" \/ Claimed(log[cur][net]) = log[cur][net]
    BY DEF Claimed
  <2> QED
    BY <1>t, <1>c, <2>1, <2>2 DEF Spent, TypeOK, Trying
<1>9. CASE ProviderAccepts
  <2>1. /\ pc = "publish" /\ pc' = "success" /\ UNCHANGED <<log, cur, net>>
        /\ accepted' = [accepted EXCEPT ![cur][net] = OneMore(accepted[cur][net])]
    BY <1>9 DEF ProviderAccepts
  <2>2. cur \in Posts /\ net \in Networks
    BY <1>c, <2>1 DEF Trying
  <2>3. CASE p = cur /\ n = net
    <3>1. accepted'[p][n] = OneMore(accepted[p][n])
      BY <1>t, <2>1, <2>2, <2>3 DEF TypeOK
    <3>2. OneMore(accepted[p][n]) > 1
      BY <2>1, <2>3, <3>1 DEF Spent
    <3>3. accepted[p][n] > 0
      BY <1>a, <3>2 DEF OneMore
    <3>4. log[p][n] = "failed"
      BY <1>t, <2>1, <2>3, <3>3 DEF RowInv
    <3> QED
      BY <2>1, <3>3, <3>4 DEF Spent
  <2>4. CASE ~(p = cur /\ n = net)
    <3>1. accepted'[p][n] = accepted[p][n]
      BY <1>t, <2>1, <2>2, <2>4 DEF TypeOK
    <3> QED
      BY <1>1, <2>1, <3>1
  <2> QED
    BY <2>3, <2>4
<1>10. CASE ProviderRefuses
  BY <1>1, <1>10 DEF ProviderRefuses
<1>11. CASE MarkPublished
  <2>1. /\ pc = "success" /\ accepted' = accepted
        /\ log' = [log EXCEPT ![cur][net] = "sent"]
    BY <1>11 DEF MarkPublished
  <2> QED
    BY <1>t, <1>c, <2>1 DEF Spent, TypeOK, Trying
<1>12. CASE MarkPublishFailed
  <2>1. pc = "failure" /\ accepted' = accepted /\ log' = [log EXCEPT ![cur][net] = "failed"]
    BY <1>12 DEF MarkPublishFailed
  <2>2. log[cur][net] = "failed" \/ accepted[cur][net] = 0
    BY <2>1 DEF FailureInv
  <2> QED
    BY <1>t, <1>c, <2>1, <2>2 DEF Spent, TypeOK, Trying
<1>13. CASE Promote \/ Park \/ Retry \/ Abandon
  BY <1>1, <1>13 DEF Promote, Park, Retry, Abandon, EndPost
<1>14. ASSUME NEW q \in Posts, NEW m \in Networks, ResolvePublishing(q, m) PROVE FALSE
  <2> DEFINE outcome == IF accepted[q][m] > 0 THEN "sent" ELSE "failed"
  <2>1. /\ UNCHANGED <<pc, cur, net, accepted>> /\ log' = [log EXCEPT ![q][m] = outcome]
    BY <1>14 DEF ResolvePublishing, worker
  <2>2. outcome = "failed" => ~(accepted[q][m] > 0)
    OBVIOUS
  <2> HIDE DEF outcome
  <2>3. CASE p = q /\ n = m
    <3>1. log'[p][n] = outcome
      BY <1>t, <2>1, <2>3 DEF TypeOK
    <3> QED
      BY <2>1, <2>2, <2>3, <3>1 DEF Spent
  <2>4. CASE ~(p = q /\ n = m)
    <3>1. log'[p][n] = log[p][n]
      BY <1>t, <2>1, <2>4 DEF TypeOK
    <3> QED
      BY <2>1, <3>1 DEF Spent
  <2> QED
    BY <2>3, <2>4
<1>15. CASE Crash
  BY <1>15 DEF Crash, Spent
<1> QED
  BY <1>3, <1>4, <1>5, <1>6, <1>7, <1>8, <1>9, <1>10, <1>11, <1>12, <1>13, <1>14, <1>15
  DEF Next, WorkerStep, ClaimFails, MarkPostStateFails

\* The account stays balanced: a crash adds one to each side, at most.
LEMMA CostStep ==
    ASSUME ~LostReplies, ~DbFaults
    PROVE  IInv /\ FailureInv /\ CostInv /\ [Next]_vars => CostInv'
<1> SUFFICES ASSUME IInv, FailureInv, CostInv, [Next]_vars PROVE CostInv'
  OBVIOUS
<1> DEFINE S  == SpentPairs
           S1 == SpentPairs'
<1>1. IsFiniteSet(S) /\ Cardinality(S) \in Nat /\ Cardinality(S) <= crashes /\ crashes \in Nat
  BY FS_CardinalityType, ConstantsAssumption DEF CostInv, IInv, TypeOK
<1>2. ASSUME NEW pn \in S1, pn \notin S PROVE Crash /\ pn = <<cur, net>>
  <2>1. pn \in Posts \X Networks /\ Spent(pn[1], pn[2])' /\ ~Spent(pn[1], pn[2])
    BY <1>2 DEF SpentPairs
  <2>2. \A p \in Posts, n \in Networks :
            Spent(p, n)' /\ ~Spent(p, n) => Crash /\ p = cur /\ n = net
    BY SpendStep
  <2>3. PICK p \in Posts, n \in Networks : pn = <<p, n>>
    BY <2>1
  <2>4. Spent(p, n)' /\ ~Spent(p, n)
    BY <2>1, <2>3 DEF Spent
  <2> QED
    BY <2>2, <2>3, <2>4
<1>3. crashes' = IF Crash THEN crashes + 1 ELSE crashes
  BY DEF Next, WorkerStep, vars, env, Enqueue, Tick, DuePosts, StartPost, EndDrain, SkipNetwork,
     TryNetwork, ClaimPublish, ClaimFails, ProviderAccepts, ProviderRefuses, MarkPublished,
     MarkPublishFailed, Promote, Park, Retry, Abandon, MarkPostStateFails, EndPost,
     ResolvePublishing, Crash
<1> HIDE DEF S, S1
<1>4. CASE Crash
  <2>1. S1 \subseteq S \cup {<<cur, net>>}
    BY <1>2
  <2>2. /\ IsFiniteSet(S \cup {<<cur, net>>})
        /\ Cardinality(S \cup {<<cur, net>>}) \in {Cardinality(S), Cardinality(S) + 1}
    BY <1>1, FS_AddElement
  <2>3. IsFiniteSet(S1) /\ Cardinality(S1) <= Cardinality(S \cup {<<cur, net>>})
    BY <2>1, <2>2, FS_Subset
  <2>4. Cardinality(S1) <= crashes'
    BY <1>1, <1>3, <1>4, <2>2, <2>3, FS_CardinalityType
  <2> QED
    BY <2>3, <2>4 DEF CostInv, S1
<1>5. CASE ~Crash
  <2>1. S1 \subseteq S
    BY <1>2, <1>5
  <2>2. IsFiniteSet(S1) /\ Cardinality(S1) <= Cardinality(S)
    BY <1>1, <2>1, FS_Subset
  <2>3. Cardinality(S1) <= crashes'
    BY <1>1, <1>3, <1>5, <2>2, FS_CardinalityType
  <2> QED
    BY <2>2, <2>3 DEF CostInv, S1
<1> QED
  BY <1>4, <1>5

\* publishPost is at-most-once but for crashes: when no reply is lost and no statement
\* fails, pairs published twice are never more than the crashes.
THEOREM CrashesPay ==
    ASSUME ~LostReplies, ~DbFaults
    PROVE  Spec => []CrashesPayForDoubles
<1>1. Init => FailureInv /\ CostInv
  <2> SUFFICES ASSUME Init PROVE FailureInv /\ CostInv
    OBVIOUS
  <2>1. SpentPairs = {} /\ FailureInv /\ crashes = 0
    BY DEF Init, SpentPairs, Spent, FailureInv
  <2> QED
    BY <2>1, FS_EmptySet DEF CostInv
<1>2. IInv /\ FailureInv /\ CostInv /\ [Next]_vars => FailureInv' /\ CostInv'
  BY SentStep, CostStep
<1>3. IInv /\ CostInv => CrashesPayForDoubles
  <2> SUFFICES ASSUME IInv, CostInv PROVE CrashesPayForDoubles
    OBVIOUS
  <2> DEFINE D == {pn \in Posts \X Networks : accepted[pn[1]][pn[2]] > 1}
  <2>1. D \subseteq SpentPairs
    BY DEF SpentPairs, Spent
  <2>2. /\ IsFiniteSet(SpentPairs) /\ Cardinality(SpentPairs) <= crashes /\ crashes \in Nat
        /\ Cardinality(D) <= Cardinality(SpentPairs) /\ IsFiniteSet(D)
    BY <2>1, FS_Subset, ConstantsAssumption DEF CostInv, IInv, TypeOK
  <2>3. Cardinality(D) \in Nat /\ Cardinality(SpentPairs) \in Nat
    BY <2>2, FS_CardinalityType
  <2>4. Cardinality(D) <= crashes
    BY <2>2, <2>3
  <2> QED
    BY <2>4 DEF CrashesPayForDoubles
<1> QED
  BY <1>1, <1>2, <1>3, Invariance, PTL DEF Spec

-----------------------------------------------------------------------------
(* The queue implements Publication: each statement of the worker is a     *)
(* step of the promise or leaves what the promise speaks of unchanged.     *)

\* A provider takes one more post: the pair is live, and no other becomes so.
LEMMA AcceptanceIsPublish ==
    ASSUME IInv, ProviderAccepts
    PROVE  Promise!Publish(cur, net) /\ cur \in Posts /\ net \in Networks
<1>1. /\ cur \in Posts /\ net \in Networks
      /\ state[cur] = "pending" /\ net \in networks[cur]
  BY ConstantsAssumption DEF IInv, TypeOK, WorkerInv, ProviderAccepts, Trying
<1>2. \A p \in Posts, n \in Networks :
        accepted'[p][n] > 0 <=> (accepted[p][n] > 0 \/ (p = cur /\ n = net))
  <2>1. accepted \in [Posts -> [Networks -> 0 .. 2]]
    BY DEF IInv, TypeOK
  <2>2. accepted' = [accepted EXCEPT ![cur][net] = OneMore(accepted[cur][net])]
    BY DEF ProviderAccepts
  <2>3. OneMore(accepted[cur][net]) > 0
    BY DEF OneMore
  <2>4. \A p \in Posts, n \in Networks :
          accepted'[p][n] = IF p = cur /\ n = net THEN OneMore(accepted[cur][net])
                                                  ELSE accepted[p][n]
    BY <1>1, <2>1, <2>2
  <2> QED
    BY <2>3, <2>4
<1>3. Live' = Live \cup {<<cur, net>>}
  BY <1>1, <1>2 DEF Live
<1> QED
  BY <1>1, <1>3 DEF Promise!Publish, ProviderAccepts, queue

\* The worker promotes a post once every network of it has it.
LEMMA PromotionIsComplete ==
    ASSUME IInv, Promote
    PROVE  Promise!Complete(cur) /\ cur \in Posts
<1>1. /\ cur \in Posts /\ todo = {} /\ net = NoNetwork
      /\ state[cur] = "pending" /\ networks[cur] \subseteq Networks
      /\ accepted' = accepted
  BY ConstantsAssumption DEF IInv, TypeOK, WorkerInv, Promote, EndPost, Trying
<1>2. ASSUME NEW n \in networks[cur] PROVE <<cur, n>> \in Live
  <2>1. n \in Networks /\ Visited(n)
    BY <1>1, ConstantsAssumption DEF Visited
  <2>2. log[cur][n] = "sent"
    BY <2>1 DEF IInv, LoopInv, Promote
  <2> QED
    BY <1>1, <2>1, <2>2 DEF IInv, DeliveryInv, Live
<1>3. Live' = Live
  BY <1>1 DEF Live
<1> QED
  BY <1>1, <1>2, <1>3 DEF Promise!Complete, Promote

\* Every other step leaves the providers alone and, but for Enqueue and Abandon,
\* the states.
LEMMA StepOfPublication ==
    ASSUME IInv, [Next]_vars
    PROVE  [Promise!Next]_(Promise!vars)
<1>1. ASSUME UNCHANGED <<state, networks, accepted>> PROVE UNCHANGED Promise!vars
  BY <1>1 DEF Promise!vars, Live
<1>2. ASSUME NEW p \in Posts, NEW nets \in SUBSET Networks, Enqueue(p, nets)
      PROVE  Promise!Next
  <2>1. Promise!Submit(p, nets)
    BY <1>2 DEF Enqueue, Promise!Submit, Live
  <2> QED
    BY <2>1 DEF Promise!Next
<1>3. CASE ProviderAccepts
  BY <1>3, AcceptanceIsPublish DEF Promise!Next
<1>4. CASE Promote
  BY <1>4, PromotionIsComplete DEF Promise!Next
<1>5. CASE Abandon
  <2>1. cur \in Posts /\ state[cur] = "pending"
    BY <1>5, ConstantsAssumption DEF IInv, TypeOK, WorkerInv, Abandon, EndPost, FailedPlainly, Trying
  <2>2. Promise!GiveUp(cur)
    BY <1>5, <2>1 DEF Abandon, EndPost, Promise!GiveUp, Live
  <2> QED
    BY <2>1, <2>2 DEF Promise!Next
<1>6. CASE Park
  <2>1. cur \in Posts /\ state[cur] = "pending" /\ state \in [Posts -> QueueStates]
    BY <1>6, ConstantsAssumption DEF IInv, TypeOK, WorkerInv, Park, EndPost, Trying
  <2>2. state' = state
    BY <1>6, <2>1 DEF Park
  <2> QED
    BY <1>1, <1>6, <2>2 DEF Park, EndPost
<1>7. CASE \/ UNCHANGED vars
           \/ Tick \/ DuePosts \/ EndDrain \/ ClaimPublish \/ ClaimFails
           \/ ProviderRefuses \/ MarkPublished \/ MarkPublishFailed
           \/ MarkPostStateFails \/ Crash
           \/ \E p \in Posts : StartPost(p)
           \/ \E n \in Networks : SkipNetwork(n) \/ TryNetwork(n)
           \/ \E p \in Posts, n \in Networks : ResolvePublishing(p, n)
  <2>1. UNCHANGED <<state, networks, accepted>>
    BY <1>7 DEF vars, queue, Tick, DuePosts, EndDrain, ClaimPublish, ClaimFails,
       ProviderRefuses, MarkPublished, MarkPublishFailed, MarkPostStateFails, EndPost,
       Crash, StartPost, SkipNetwork, TryNetwork, ResolvePublishing
  <2> QED
    BY <1>1, <2>1
<1>8. CASE Retry
  BY <1>1, <1>8 DEF Retry, EndPost
<1> QED
  BY <1>2, <1>3, <1>4, <1>5, <1>6, <1>7, <1>8 DEF Next, WorkerStep

\* The refinement: whatever fails, is lost or crashes, the queue keeps its promise
\* to producers.
THEOREM QueueImplementsPublication == Spec => ImplementsPublication
<1>1. Init => Promise!Init
  BY DEF Init, Promise!Init, Live
<1>2. IInv /\ [Next]_vars => [Promise!Next]_(Promise!vars)
  BY StepOfPublication
<1> QED
  BY <1>1, <1>2, Invariance, PTL DEF Spec, ImplementsPublication, Promise!Spec
=============================================================================
