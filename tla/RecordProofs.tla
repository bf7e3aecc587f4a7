----------------------------- MODULE RecordProofs -----------------------------
(***************************************************************************)
(* Proofs about the records kept of events read back from the chain, and   *)
(* those the backend keeps: webhook deliveries are sent and recorded       *)
(* honestly, the cleanups remove nothing that is needed, the index tells   *)
(* the events fetched, and a resumed replay is one replay.                 *)
(***************************************************************************)
EXTENDS MCRecords, ListProofs

-----------------------------------------------------------------------------
(* Counting in finite sets.                                                *)

LEMMA OneMore ==
  ASSUME NEW S, IsFiniteSet(S), NEW x, NEW T, T \subseteq S \cup {x}
  PROVE  IsFiniteSet(T) /\ Cardinality(T) \in Nat /\ Cardinality(T) <= Cardinality(S) + 1
<1>1. /\ IsFiniteSet(S \cup {x}) /\ Cardinality(S) \in Nat /\ Cardinality(S \cup {x}) \in Nat
      /\ Cardinality(S \cup {x}) <= Cardinality(S) + 1
  BY FS_AddElement, FS_CardinalityType
<1>2. IsFiniteSet(T) /\ Cardinality(T) <= Cardinality(S \cup {x})
  BY <1>1, FS_Subset
<1>3. Cardinality(T) \in Nat
  BY <1>2, FS_CardinalityType
<1> QED BY <1>1, <1>2, <1>3

LEMMA NoMore ==
  ASSUME NEW S, IsFiniteSet(S), NEW T, T \subseteq S
  PROVE  IsFiniteSet(T) /\ Cardinality(T) \in Nat /\ Cardinality(T) <= Cardinality(S)
BY FS_Subset, FS_CardinalityType

LEMMA OneFewer ==
  ASSUME NEW S, IsFiniteSet(S), NEW x \in S, NEW T, T \subseteq S \ {x}
  PROVE  IsFiniteSet(T) /\ Cardinality(T) \in Nat /\ Cardinality(T) + 1 <= Cardinality(S)
<1>1. /\ IsFiniteSet(S \ {x}) /\ Cardinality(S) \in Nat
      /\ Cardinality(S \ {x}) = Cardinality(S) - 1
  BY FS_RemoveElement, FS_CardinalityType
<1>2. IsFiniteSet(T) /\ Cardinality(T) \in Nat /\ Cardinality(T) <= Cardinality(S \ {x})
  BY <1>1, NoMore
<1> QED BY <1>1, <1>2

LEMMA OneExchanged ==
  ASSUME NEW S, IsFiniteSet(S), NEW x \in S, NEW y, NEW T, T \subseteq (S \ {x}) \cup {y}
  PROVE  IsFiniteSet(T) /\ Cardinality(T) \in Nat /\ Cardinality(T) <= Cardinality(S)
<1>1. IsFiniteSet(S \ {x}) /\ Cardinality(S \ {x}) \in Nat /\ Cardinality(S \ {x}) + 1 <= Cardinality(S)
  BY OneFewer
<1>2. IsFiniteSet(T) /\ Cardinality(T) \in Nat /\ Cardinality(T) <= Cardinality(S \ {x}) + 1
  BY <1>1, OneMore
<1>3. Cardinality(S) \in Nat
  BY FS_CardinalityType
<1> QED BY <1>1, <1>2, <1>3

LEMMA BudgetMore ==
  ASSUME NEW S, IsFiniteSet(S), NEW j, NEW T, T \subseteq S \cup ({j} \X (1..MaxAttempts))
  PROVE  IsFiniteSet(T) /\ Cardinality(T) \in Nat /\ Cardinality(T) <= Cardinality(S) + MaxAttempts
<1> DEFINE P == {j} \X (1..MaxAttempts)
<1>1. IsFiniteSet(1..MaxAttempts) /\ Cardinality(1..MaxAttempts) = MaxAttempts
  BY AttemptBudget, FS_Interval
<1>2. IsFiniteSet({j}) /\ Cardinality({j}) = 1
  BY FS_Singleton
<1>3. IsFiniteSet(P) /\ Cardinality(P) = Cardinality({j}) * Cardinality(1..MaxAttempts)
  BY <1>1, <1>2, FS_Product
<1>4. Cardinality(P) = MaxAttempts
  BY <1>1, <1>2, <1>3, AttemptBudget
<1> HIDE DEF P
<1>5. /\ IsFiniteSet(S \cup P) /\ IsFiniteSet(S \cap P)
      /\ Cardinality(S \cup P) = Cardinality(S) + Cardinality(P) - Cardinality(S \cap P)
  BY <1>3, FS_Union, FS_Intersection
<1>6. /\ Cardinality(S) \in Nat /\ Cardinality(S \cap P) \in Nat
      /\ Cardinality(S \cup P) \in Nat
  BY <1>5, FS_CardinalityType
<1>7. Cardinality(S \cup P) <= Cardinality(S) + MaxAttempts
  BY <1>4, <1>5, <1>6, AttemptBudget
<1>8. IsFiniteSet(T) /\ Cardinality(T) \in Nat /\ Cardinality(T) <= Cardinality(S \cup P)
  BY <1>5, NoMore DEF P
<1> QED BY <1>6, <1>7, <1>8, AttemptBudget

LEMMA ImageNoMore ==
  ASSUME NEW S, IsFiniteSet(S), NEW f, NEW T, T \subseteq {f[x] : x \in S}
  PROVE  IsFiniteSet(T) /\ Cardinality(T) \in Nat /\ Cardinality(T) <= Cardinality(S)
<1> DEFINE I == {f[x] : x \in S}
           g == [x \in S |-> f[x]]
<1>1. g \in Surjection(S, I)
  BY DEF Surjection
<1>2. IsFiniteSet(I) /\ Cardinality(I) <= Cardinality(S)
  BY <1>1, FS_Surjection
<1>3. IsFiniteSet(T) /\ Cardinality(T) \in Nat /\ Cardinality(T) <= Cardinality(I)
  BY <1>2, NoMore
<1> QED BY <1>2, <1>3, FS_CardinalityType

-----------------------------------------------------------------------------
(* Webhook deliveries.                                                     *)

(* What may still be sent of a delivery: attempts left to its live jobs,   *)
(* and runs of them that have not sent yet.                                *)
AttemptsLeft(d) ==
  {s \in JobsOf(d) \X (1..MaxAttempts) :
     life[s[1]].phase \in {"queued", "running"} /\ life[s[1]].tries < s[2]}

AboutToSend(d) == {r \in runs : Of(r) = d /\ r.pc \in {"look", "send"}}

(* The requests that are still to enqueue a job for a delivery.            *)
Enqueuing(d) == {c \in Callers : caller[c].pc = "enqueue" /\ caller[c].of = d}

AskedFor(d) == IF delivery[d].status = "absent" THEN 0 ELSE 1 + delivery[d].redeliveries

AsManyAsAskedFor(d) ==
  /\ IsFiniteSet(JobsOf(d)) /\ IsFiniteSet(Enqueuing(d))
  /\ Cardinality(JobsOf(d)) + Cardinality(Enqueuing(d)) <= AskedFor(d)

JobsAreAskedFor == \A d \in Deliveries : AsManyAsAskedFor(d)

SendsCovered(d) ==
  sends[d] + Cardinality(AttemptsLeft(d)) + Cardinality(AboutToSend(d)) <= MaxAttempts * budgets[d]

SendsAreCovered == \A d \in Deliveries : SendsCovered(d)

(* A job that was submitted is one of a delivery; runs and requests are    *)
(* about what exists, and a run that reports success has been accepted.    *)
PartsFit ==
  /\ \A j \in Jobs : life[j].phase # "absent" => payload[j] \in Deliveries
  /\ IsFiniteSet(runs)
  /\ \A r \in runs :
       /\ life[r.job].phase # "absent"
       /\ r.pc \in {"recordOk", "return"} => Of(r) \in accepted
  /\ \A c \in Callers : caller[c].pc # "idle" => caller[c].of \in Deliveries

WebhookInv ==
  WebhookTypeOK /\ PartsFit /\ DeliveredWasAccepted /\ JobsAreAskedFor /\ SendsAreCovered

(* Types, and which parts fit together.                                    *)
BasicInv == WebhookTypeOK /\ PartsFit /\ DeliveredWasAccepted

LEMMA MovedRun ==
  ASSUME WebhookTypeOK, NEW r \in runs, NEW to, to \in {"look", "send", "recordOk", "recordRetry",
         "recordFinal", "return", "throwRetry", "throwFinal"}
  PROVE  /\ r \in RunState
         /\ [r EXCEPT !.pc = to] \in RunState
         /\ [r EXCEPT !.pc = to].job = r.job /\ [r EXCEPT !.pc = to].pc = to
         /\ Moved(r, to) = (runs \ {r}) \cup {[r EXCEPT !.pc = to]}
         /\ IsFiniteSet(runs) => IsFiniteSet(Moved(r, to))
<1>1. r \in RunState
  BY DEF WebhookTypeOK
<1>2. /\ [r EXCEPT !.pc = to] \in RunState
      /\ [r EXCEPT !.pc = to].job = r.job /\ [r EXCEPT !.pc = to].pc = to
  BY <1>1 DEF RunState
<1>3. IsFiniteSet(runs) => IsFiniteSet(Moved(r, to))
  BY FS_RemoveElement, FS_AddElement DEF Moved
<1> QED BY <1>1, <1>2, <1>3 DEF Moved

(* A run goes on to its next place, and nothing else changes but what the  *)
(* place says.                                                             *)
LEMMA RunGoesOn ==
  ASSUME BasicInv, NEW r \in runs, NEW to, to \in {"look", "send", "recordOk", "recordRetry",
         "recordFinal", "return", "throwRetry", "throwFinal"},
         runs' = Moved(r, to), UNCHANGED <<life, payload, caller>>,
         accepted \subseteq accepted', accepted' \subseteq Deliveries,
         to \in {"recordOk", "return"} => Of(r) \in accepted'
  PROVE  /\ LifeTypeOK' /\ runs' \subseteq RunState /\ PartsFit'
         /\ payload' \in [Jobs -> Deliveries \cup {None}]
         /\ caller' \in [Callers -> CallerState]
<1> DEFINE s == [r EXCEPT !.pc = to]
<1>1. /\ r \in RunState /\ s \in RunState /\ s.job = r.job /\ s.pc = to
      /\ runs' = (runs \ {r}) \cup {s} /\ IsFiniteSet(runs')
  BY MovedRun DEF BasicInv, PartsFit
<1> HIDE DEF s
<1>2. runs' \subseteq RunState
  BY <1>1 DEF BasicInv, WebhookTypeOK
<1>3. ASSUME NEW q \in runs'
      PROVE  /\ life[q.job].phase # "absent"
             /\ q.pc \in {"recordOk", "return"} => payload[q.job] \in accepted'
  <2>1. CASE q \in runs
    BY <2>1 DEF BasicInv, PartsFit, Of
  <2>2. CASE q = s
    BY <1>1, <2>2 DEF BasicInv, PartsFit, Of
  <2> QED BY <1>1, <2>1, <2>2
<1> QED BY <1>1, <1>2, <1>3 DEF BasicInv, WebhookTypeOK, LifeTypeOK, PartsFit, Of

(* A run ends, or is told that the queue has passed its job on.            *)
LEMMA RunsEnd ==
  ASSUME BasicInv, runs' \subseteq RunState, IsFiniteSet(runs'), LifeTypeOK',
         \A q \in runs' : \E r \in runs : q.job = r.job /\ q.pc = r.pc,
         \A j \in Jobs : life[j].phase # "absent" => life'[j].phase # "absent",
         \A j \in Jobs : life'[j].phase # "absent" => life[j].phase # "absent",
         \A j \in Jobs : life'[j].phase = "succeeded" /\ life[j].phase # "succeeded" =>
           payload[j] \in accepted,
         UNCHANGED <<delivery, payload, caller, sends, accepted>>, budgets' \in [Deliveries -> Nat]
  PROVE  BasicInv'
<1>1. WebhookTypeOK'
  BY DEF BasicInv, WebhookTypeOK
<1>2. PartsFit'
  <2>1. ASSUME NEW q \in runs'
        PROVE  /\ life'[q.job].phase # "absent"
               /\ q.pc \in {"recordOk", "return"} => payload[q.job] \in accepted
    <3>1. PICK r \in runs : q.job = r.job /\ q.pc = r.pc
      OBVIOUS
    <3>2. r.job \in Jobs
      BY DEF BasicInv, WebhookTypeOK, RunState
    <3> QED BY <3>1, <3>2 DEF BasicInv, PartsFit, Of
  <2> QED BY <2>1 DEF BasicInv, PartsFit, Of
<1>3. DeliveredWasAccepted'
  BY DEF BasicInv, DeliveredWasAccepted, JobsOf
<1> QED BY <1>1, <1>2, <1>3 DEF BasicInv

LEMMA CallerBasics ==
  ASSUME BasicInv, NEW c \in Callers, CallerStep(c)
  PROVE  BasicInv'
<1> USE DEF BasicInv, WebhookTypeOK, CallerState, Idle
<1>1. ASSUME NEW d \in Deliveries, Publish(c, d) \/ Redeliver(c, d)
      PROVE  BasicInv'
  <2>1. /\ delivery' \in [Deliveries -> DeliveryDoc]
        /\ \A e \in Deliveries : delivery'[e].status = "delivered" => delivery[e].status = "delivered"
    <3>1. delivery[d] \in DeliveryDoc
      OBVIOUS
    <3>2. CASE Publish(c, d)
      BY <3>1, <3>2 DEF Publish, DeliveryDoc, DeliveryStatuses
    <3>3. CASE Redeliver(c, d)
      BY <3>1, <3>3 DEF Redeliver, DeliveryDoc, DeliveryStatuses
    <3> QED BY <1>1, <3>2, <3>3
  <2>2. caller' = [caller EXCEPT ![c] = [pc |-> "enqueue", of |-> d]]
        /\ UNCHANGED <<life, payload, runs, sends, budgets, accepted>>
    BY <1>1 DEF Publish, Redeliver
  <2>3. WebhookTypeOK'
    BY <2>1, <2>2 DEF LifeTypeOK
  <2>4. PartsFit'
    BY <2>2 DEF PartsFit, Of
  <2>5. DeliveredWasAccepted'
    BY <2>1, <2>2 DEF DeliveredWasAccepted, JobsOf
  <2> QED BY <2>3, <2>4, <2>5
<1>2. ASSUME NEW j \in Jobs, Enqueue(c, j)
      PROVE  BasicInv'
  <2>1. /\ caller[c].of \in Deliveries
        /\ life[j].phase = "absent"
        /\ life' = [life EXCEPT ![j] = [phase |-> "queued", tries |-> 0]]
        /\ payload' = [payload EXCEPT ![j] = caller[c].of]
        /\ \E to \in {"link", "mark"} : caller' = [caller EXCEPT ![c].pc = to]
        /\ UNCHANGED <<delivery, runs, sends, accepted>>
    BY <1>2 DEF Enqueue, Submit, PartsFit
  <2>2. budgets' \in [Deliveries -> Nat]
    BY <1>2, <2>1 DEF Enqueue
  <2>3. /\ life' \in [Jobs -> [phase : Phases, tries : Nat]]
        /\ \A k \in Jobs \ {j} : life'[k] = life[k] /\ payload'[k] = payload[k]
        /\ life'[j].phase = "queued" /\ payload'[j] = caller[c].of
    BY <2>1 DEF LifeTypeOK, Phases
  <2>4. caller' \in [Callers -> CallerState] /\ \A b \in Callers : caller'[b].of = caller[b].of
    BY <2>1
  <2>5. WebhookTypeOK'
    BY <2>1, <2>2, <2>3, <2>4 DEF LifeTypeOK
  <2>6. PartsFit'
    <3>1. ASSUME NEW r \in runs
          PROVE  /\ r.job # j /\ life'[r.job].phase # "absent"
                 /\ r.pc \in {"recordOk", "return"} => payload'[r.job] \in accepted
      <4>1. r.job \in Jobs
        BY DEF RunState
      <4>2. r.job # j
        BY <2>1 DEF PartsFit
      <4> QED BY <2>3, <4>1, <4>2 DEF PartsFit, Of
    <3>2. \A b \in Callers : caller'[b].pc # "idle" => caller'[b].of \in Deliveries
      BY <1>2, <2>1, <2>4 DEF PartsFit, Enqueue
    <3> QED BY <2>1, <2>3, <3>1, <3>2 DEF PartsFit, Of
  <2>7. DeliveredWasAccepted'
    BY <2>1, <2>3 DEF DeliveredWasAccepted, JobsOf
  <2> QED BY <2>5, <2>6, <2>7
<1>3. ASSUME EnqueueThrows(c) \/ Link(c) \/ CallerDies(c)
      PROVE  BasicInv'
  <2>1. /\ UNCHANGED <<life, delivery, payload, runs, sends, budgets, accepted>>
        /\ caller[c].pc # "idle"
        /\ caller' = [caller EXCEPT ![c] = Idle] \/ caller' = [caller EXCEPT ![c].pc = "mark"]
    BY <1>3 DEF EnqueueThrows, Link, CallerDies
  <2>2. caller' \in [Callers -> CallerState]
    BY <2>1
  <2>3. \A b \in Callers : caller'[b].pc # "idle" => caller'[b].of \in Deliveries
    BY <2>1 DEF PartsFit
  <2>4. WebhookTypeOK'
    BY <2>1, <2>2 DEF LifeTypeOK
  <2>5. PartsFit'
    BY <2>1, <2>3 DEF PartsFit, Of
  <2>6. DeliveredWasAccepted'
    BY <2>1 DEF DeliveredWasAccepted, JobsOf
  <2> QED BY <2>4, <2>5, <2>6
<1>4. ASSUME MarkFailed(c)
      PROVE  BasicInv'
  <2>1. /\ UNCHANGED <<life, payload, runs, sends, budgets, accepted>>
        /\ caller' = [caller EXCEPT ![c] = Idle]
        /\ delivery' = [delivery EXCEPT ![caller[c].of].status = "failed"] \/ UNCHANGED delivery
        /\ caller[c].of \in Deliveries
    BY <1>4 DEF MarkFailed, PartsFit
  <2>2. /\ delivery' \in [Deliveries -> DeliveryDoc]
        /\ \A e \in Deliveries : delivery'[e].status = "delivered" => delivery[e].status = "delivered"
    BY <2>1 DEF DeliveryDoc, DeliveryStatuses
  <2>3. WebhookTypeOK'
    BY <2>1, <2>2 DEF LifeTypeOK
  <2>4. PartsFit'
    BY <2>1 DEF PartsFit, Of
  <2>5. DeliveredWasAccepted'
    BY <2>1, <2>2 DEF DeliveredWasAccepted, JobsOf
  <2> QED BY <2>3, <2>4, <2>5
<1> QED BY <1>1, <1>2, <1>3, <1>4 DEF CallerStep

LEMMA JobBasics ==
  ASSUME BasicInv, NEW j \in Jobs, StartRun(j) \/ TakenAway(j) \/ RetryDead(j)
  PROVE  BasicInv'
<1>0. life[j] \in [phase : Phases, tries : Nat] /\ runs \subseteq RunState /\ IsFiniteSet(runs)
  BY DEF BasicInv, WebhookTypeOK, LifeTypeOK, PartsFit
<1>1. CASE StartRun(j)
  <2> DEFINE r == [job |-> j, attempt |-> life[j].tries + 1, holds |-> TRUE, pc |-> "look"]
  <2>1. /\ runs' = runs \cup {r} /\ life[j].phase = "queued" /\ life[j].tries < MaxAttempts
        /\ life' = [life EXCEPT ![j] = [phase |-> "running", tries |-> @.tries + 1]]
        /\ UNCHANGED <<delivery, payload, caller, sends, budgets, accepted>>
    BY <1>1 DEF StartRun, Begin
  <2>2. r \in RunState /\ r.job = j /\ r.pc = "look"
    BY <1>0, <2>1, AttemptBudget DEF RunState
  <2> HIDE DEF r
  <2>3. runs' \subseteq RunState /\ IsFiniteSet(runs')
    BY <1>0, <2>1, <2>2, FS_AddElement
  <2>4. /\ LifeTypeOK' /\ life'[j].phase = "running"
        /\ \A k \in Jobs \ {j} : life'[k] = life[k]
    BY <1>0, <2>1 DEF BasicInv, WebhookTypeOK, LifeTypeOK, Phases
  <2>5. WebhookTypeOK'
    BY <2>1, <2>3, <2>4 DEF BasicInv, WebhookTypeOK
  <2>6. PartsFit'
    <3>1. ASSUME NEW q \in runs'
          PROVE  /\ life'[q.job].phase # "absent"
                 /\ q.pc \in {"recordOk", "return"} => payload[q.job] \in accepted
      <4>1. CASE q = r
        BY <2>2, <2>4, <4>1
      <4>2. CASE q \in runs
        <5>1. q.job \in Jobs
          BY <1>0, <4>2 DEF RunState
        <5> QED BY <2>4, <4>2, <5>1 DEF BasicInv, PartsFit, Of
      <4> QED BY <2>1, <4>1, <4>2
    <3> QED BY <2>1, <2>3, <2>4, <3>1 DEF BasicInv, PartsFit, Of
  <2>7. DeliveredWasAccepted'
    BY <2>1, <2>4 DEF BasicInv, DeliveredWasAccepted, JobsOf
  <2> QED BY <2>5, <2>6, <2>7 DEF BasicInv
<1>2. CASE TakenAway(j)
  <2>1. /\ life[j].phase = "running"
        /\ \/ life' = [life EXCEPT ![j].phase = "queued"]
           \/ life' = [life EXCEPT ![j].phase = "dead"]
        /\ runs' = {IF r.job = j THEN [r EXCEPT !.holds = FALSE] ELSE r : r \in runs}
        /\ UNCHANGED <<delivery, payload, caller, sends, budgets, accepted>>
    BY <1>2 DEF TakenAway, Retry, Bury
  <2>2. ASSUME NEW r \in runs
        PROVE  /\ (IF r.job = j THEN [r EXCEPT !.holds = FALSE] ELSE r) \in RunState
               /\ (IF r.job = j THEN [r EXCEPT !.holds = FALSE] ELSE r).job = r.job
               /\ (IF r.job = j THEN [r EXCEPT !.holds = FALSE] ELSE r).pc = r.pc
    BY <1>0 DEF RunState
  <2>3. runs' \subseteq RunState /\ \A q \in runs' : \E r \in runs : q.job = r.job /\ q.pc = r.pc
    BY <2>1, <2>2
  <2>4. IsFiniteSet(runs')
    <3> DEFINE f == [r \in runs |-> IF r.job = j THEN [r EXCEPT !.holds = FALSE] ELSE r]
    <3>1. runs' \subseteq {f[r] : r \in runs}
      BY <2>1
    <3> HIDE DEF f
    <3> QED BY <1>0, <3>1, ImageNoMore
  <2>5. /\ LifeTypeOK' /\ life'[j].phase \in {"queued", "dead"}
        /\ \A k \in Jobs \ {j} : life'[k] = life[k]
    BY <1>0, <2>1 DEF BasicInv, WebhookTypeOK, LifeTypeOK, Phases
  <2>6. budgets' \in [Deliveries -> Nat]
    BY <2>1 DEF BasicInv, WebhookTypeOK
  <2> QED BY <2>1, <2>3, <2>4, <2>5, <2>6, RunsEnd
<1>3. CASE RetryDead(j)
  <2>1. /\ life[j].phase = "dead"
        /\ life' = [life EXCEPT ![j] = [phase |-> "queued", tries |-> 0]]
        /\ UNCHANGED <<delivery, payload, caller, runs, sends, accepted>>
    BY <1>3 DEF RetryDead, Revive
  <2>2. /\ LifeTypeOK' /\ life'[j].phase = "queued"
        /\ \A k \in Jobs \ {j} : life'[k] = life[k]
    BY <1>0, <2>1 DEF BasicInv, WebhookTypeOK, LifeTypeOK, Phases
  <2>3. budgets' \in [Deliveries -> Nat]
    BY <1>3, <2>1 DEF RetryDead, BasicInv, WebhookTypeOK, PartsFit
  <2> QED BY <1>0, <2>1, <2>2, <2>3, RunsEnd
<1> QED BY <1>1, <1>2, <1>3

LEMMA RunBasics ==
  ASSUME BasicInv, NEW r \in runs, InvocationStep(r)
  PROVE  BasicInv'
<1>0. /\ r \in RunState /\ r.job \in Jobs /\ Of(r) \in Deliveries /\ IsFiniteSet(runs)
      /\ runs \subseteq RunState /\ life[r.job] \in [phase : Phases, tries : Nat]
  BY DEF BasicInv, WebhookTypeOK, LifeTypeOK, PartsFit, RunState, Of
<1>1. CASE Look(r)
  <2>1. PICK to \in {"return", "send"} :
          runs' = Moved(r, to) /\ (to = "return" => delivery[Of(r)].status = "delivered")
    BY <1>1 DEF Look
  <2>2. UNCHANGED <<life, delivery, payload, caller, sends, budgets, accepted>>
    BY <1>1 DEF Look
  <2>3. to \in {"recordOk", "return"} => Of(r) \in accepted
    BY <1>0, <2>1 DEF BasicInv, DeliveredWasAccepted
  <2>4. accepted \subseteq Deliveries
    BY DEF BasicInv, WebhookTypeOK
  <2>5. /\ LifeTypeOK' /\ runs' \subseteq RunState /\ PartsFit'
        /\ payload' \in [Jobs -> Deliveries \cup {None}] /\ caller' \in [Callers -> CallerState]
    BY <2>1, <2>2, <2>3, <2>4, RunGoesOn
  <2> QED BY <2>2, <2>5 DEF BasicInv, WebhookTypeOK, DeliveredWasAccepted, JobsOf
<1>2. CASE Send(r)
  <2>1. PICK to \in {"recordOk", "recordRetry", "recordFinal"} :
          /\ runs' = Moved(r, to) /\ (to = "recordOk" => Of(r) \in accepted')
          /\ accepted' \in {accepted, accepted \cup {Of(r)}}
    BY <1>2 DEF Send, Unaccepted
  <2>2. /\ UNCHANGED <<life, delivery, payload, caller, budgets>>
        /\ sends' = [sends EXCEPT ![Of(r)] = @ + 1]
    BY <1>2 DEF Send
  <2>3. accepted \subseteq accepted' /\ accepted' \subseteq Deliveries
    BY <1>0, <2>1 DEF BasicInv, WebhookTypeOK
  <2>4. /\ LifeTypeOK' /\ runs' \subseteq RunState /\ PartsFit'
        /\ payload' \in [Jobs -> Deliveries \cup {None}] /\ caller' \in [Callers -> CallerState]
    BY <2>1, <2>2, <2>3, RunGoesOn
  <2>5. sends' \in [Deliveries -> Nat]
    BY <1>0, <2>2 DEF BasicInv, WebhookTypeOK
  <2> QED BY <2>2, <2>3, <2>4, <2>5 DEF BasicInv, WebhookTypeOK, DeliveredWasAccepted, JobsOf
<1>3. CASE RecordDelivered(r) \/ RecordFailure(r)
  <2>1. /\ UNCHANGED <<life, payload, caller, sends, budgets, accepted>>
        /\ \E to \in {"return", "recordRetry", "throwRetry", "throwFinal"} :
             runs' = Moved(r, to) /\ (to = "return" => r.pc = "recordOk")
        /\ \/ UNCHANGED delivery
           \/ \E status \in {"delivered", "failed", "pending"} :
                /\ status = "delivered" => r.pc = "recordOk"
                /\ delivery' = [delivery EXCEPT ![Of(r)].status = status]
    BY <1>3 DEF RecordDelivered, RecordFailure, Record, AfterFailure
  <2>2. PICK to \in {"return", "recordRetry", "throwRetry", "throwFinal"} :
          runs' = Moved(r, to) /\ (to = "return" => r.pc = "recordOk")
    BY <2>1
  <2>3. r.pc = "recordOk" => Of(r) \in accepted
    BY DEF BasicInv, PartsFit
  <2>4. accepted \subseteq Deliveries
    BY DEF BasicInv, WebhookTypeOK
  <2>5. /\ LifeTypeOK' /\ runs' \subseteq RunState /\ PartsFit'
        /\ payload' \in [Jobs -> Deliveries \cup {None}] /\ caller' \in [Callers -> CallerState]
    BY <2>1, <2>2, <2>3, <2>4, RunGoesOn
  <2>6. /\ delivery' \in [Deliveries -> DeliveryDoc]
        /\ \A e \in Deliveries :
             delivery'[e].status = "delivered" => delivery[e].status = "delivered" \/ e \in accepted
    BY <1>0, <2>1, <2>3 DEF BasicInv, WebhookTypeOK, DeliveryDoc, DeliveryStatuses
  <2> QED BY <2>1, <2>5, <2>6 DEF BasicInv, WebhookTypeOK, DeliveredWasAccepted, JobsOf
<1>4. CASE Returns(r) \/ Throws(r) \/ RunDies(r)
  <2>1. /\ runs' = runs \ {r}
        /\ UNCHANGED <<delivery, payload, caller, sends, budgets, accepted>>
        /\ \/ UNCHANGED life
           \/ /\ life[r.job].phase = "running"
              /\ \E p \in {"succeeded", "queued", "dead"} :
                   /\ life' = [life EXCEPT ![r.job].phase = p]
                   /\ p = "succeeded" => r.pc = "return"
    BY <1>4 DEF Returns, Throws, RunDies, Finish, Retry, Bury
  <2>2. /\ LifeTypeOK'
        /\ \A k \in Jobs \ {r.job} : life'[k] = life[k]
        /\ life'[r.job].phase # "absent" /\ life[r.job].phase # "absent"
        /\ life'[r.job].phase = "succeeded" /\ life[r.job].phase # "succeeded" => r.pc = "return"
    <3>1. CASE UNCHANGED life
      BY <1>0, <3>1 DEF BasicInv, WebhookTypeOK, LifeTypeOK, PartsFit
    <3>2. ASSUME NEW p \in {"succeeded", "queued", "dead"},
                 life' = [life EXCEPT ![r.job].phase = p], p = "succeeded" => r.pc = "return",
                 life[r.job].phase = "running"
          PROVE  /\ LifeTypeOK' /\ life'[r.job].phase = p
                 /\ \A k \in Jobs \ {r.job} : life'[k] = life[k]
      BY <1>0, <3>2 DEF BasicInv, WebhookTypeOK, LifeTypeOK, Phases
    <3> QED BY <2>1, <3>1, <3>2
  <2>3. r.pc = "return" => payload[r.job] \in accepted
    BY DEF BasicInv, PartsFit, Of
  <2>4. runs' \subseteq RunState /\ IsFiniteSet(runs')
    BY <1>0, <2>1, FS_RemoveElement
  <2>5. budgets' \in [Deliveries -> Nat]
    BY <2>1 DEF BasicInv, WebhookTypeOK
  <2> QED BY <2>1, <2>2, <2>3, <2>4, <2>5, RunsEnd
<1> QED BY <1>1, <1>2, <1>3, <1>4 DEF InvocationStep

LEMMA BasicStep ==
  ASSUME BasicInv, [WebhookNext]_webhookVars
  PROVE  BasicInv'
<1>1. CASE UNCHANGED webhookVars
  BY <1>1 DEF webhookVars, BasicInv, WebhookTypeOK, LifeTypeOK, PartsFit, Of,
              DeliveredWasAccepted, JobsOf
<1> QED BY <1>1, CallerBasics, JobBasics, RunBasics DEF WebhookNext

-----------------------------------------------------------------------------
(* One job per request: a delivery has no more jobs, and requests about to *)
(* queue one, than were asked for.                                         *)

LEMMA AskedForIsNat ==
  ASSUME WebhookTypeOK, NEW d \in Deliveries
  PROVE  /\ delivery[d].status \in DeliveryStatuses /\ delivery[d].redeliveries \in Nat
         /\ AskedFor(d) \in Nat
BY DEF WebhookTypeOK, DeliveryDoc, AskedFor

LEMMA AskedForNoLess ==
  ASSUME WebhookTypeOK, WebhookTypeOK', NEW d \in Deliveries, AsManyAsAskedFor(d),
         UNCHANGED payload, Enqueuing(d)' \subseteq Enqueuing(d),
         delivery[d].status # "absent" => delivery'[d].status # "absent",
         delivery[d].redeliveries <= delivery'[d].redeliveries
  PROVE  AsManyAsAskedFor(d)'
<1>1. AskedFor(d) \in Nat /\ AskedFor(d)' \in Nat /\ AskedFor(d) <= AskedFor(d)'
  BY AskedForIsNat DEF WebhookTypeOK, DeliveryDoc, AskedFor
<1>2. JobsOf(d)' = JobsOf(d) /\ IsFiniteSet(JobsOf(d)) /\ Cardinality(JobsOf(d)) \in Nat
  BY FS_CardinalityType DEF JobsOf, AsManyAsAskedFor
<1>3. /\ IsFiniteSet(Enqueuing(d)') /\ Cardinality(Enqueuing(d)') \in Nat
      /\ Cardinality(Enqueuing(d)') <= Cardinality(Enqueuing(d)) /\ Cardinality(Enqueuing(d)) \in Nat
  BY NoMore, FS_CardinalityType DEF AsManyAsAskedFor
<1>4. Cardinality(JobsOf(d)) + Cardinality(Enqueuing(d)) <= AskedFor(d)
  BY DEF AsManyAsAskedFor
<1>5. Cardinality(JobsOf(d)') + Cardinality(Enqueuing(d)') <= AskedFor(d)'
  BY <1>1, <1>2, <1>3, <1>4
<1> QED BY <1>2, <1>3, <1>5 DEF AsManyAsAskedFor

LEMMA JobsStep ==
  ASSUME BasicInv, BasicInv', JobsAreAskedFor, [WebhookNext]_webhookVars
  PROVE  JobsAreAskedFor'
<1> SUFFICES ASSUME NEW d \in Deliveries PROVE AsManyAsAskedFor(d)'
  BY DEF JobsAreAskedFor
<1>0. WebhookTypeOK /\ WebhookTypeOK' /\ AsManyAsAskedFor(d)
  BY DEF BasicInv, JobsAreAskedFor
<1>1. /\ IsFiniteSet(JobsOf(d)) /\ IsFiniteSet(Enqueuing(d))
      /\ Cardinality(JobsOf(d)) \in Nat /\ Cardinality(Enqueuing(d)) \in Nat
      /\ Cardinality(JobsOf(d)) + Cardinality(Enqueuing(d)) <= AskedFor(d)
      /\ AskedFor(d) \in Nat /\ AskedFor(d)' \in Nat
      /\ delivery[d] \in DeliveryDoc /\ delivery[d].redeliveries \in Nat
  <2>1. AskedFor(d)' \in Nat /\ delivery[d] \in DeliveryDoc
    BY <1>0 DEF AskedFor, WebhookTypeOK, DeliveryDoc
  <2> QED BY <1>0, <2>1, AskedForIsNat, FS_CardinalityType DEF AsManyAsAskedFor
<1>2. ASSUME NEW c \in Callers, NEW e \in Deliveries, Publish(c, e) \/ Redeliver(c, e)
      PROVE  AsManyAsAskedFor(d)'
  <2>1. /\ caller' = [caller EXCEPT ![c] = [pc |-> "enqueue", of |-> e]] /\ UNCHANGED payload
        /\ \A b \in Callers \ {c} : caller'[b] = caller[b]
        /\ caller'[c] = [pc |-> "enqueue", of |-> e]
    BY <1>0, <1>2 DEF Publish, Redeliver, WebhookTypeOK
  <2>2. CASE e = d
    <3>1. AskedFor(d)' >= AskedFor(d) + 1
      <4>1. CASE Publish(c, d)
        BY <1>0, <1>1, <4>1 DEF Publish, Insertable, AskedFor, WebhookTypeOK, DeliveryDoc
      <4>2. CASE Redeliver(c, d)
        BY <1>0, <1>1, <4>2 DEF Redeliver, AskedFor, WebhookTypeOK, DeliveryDoc
      <4> QED BY <1>2, <2>2, <4>1, <4>2
    <3>2. Enqueuing(d)' \subseteq Enqueuing(d) \cup {c}
      BY <2>1 DEF Enqueuing
    <3>3. /\ IsFiniteSet(Enqueuing(d)') /\ Cardinality(Enqueuing(d)') \in Nat
          /\ Cardinality(Enqueuing(d)') <= Cardinality(Enqueuing(d)) + 1
      BY <1>1, <3>2, OneMore
    <3>4. JobsOf(d)' = JobsOf(d)
      BY <2>1 DEF JobsOf
    <3>5. Cardinality(JobsOf(d)') + Cardinality(Enqueuing(d)') <= AskedFor(d)'
      BY <1>1, <3>1, <3>3, <3>4
    <3> QED BY <1>1, <3>3, <3>4, <3>5 DEF AsManyAsAskedFor
  <2>3. CASE e # d
    <3>1. Enqueuing(d)' \subseteq Enqueuing(d)
      BY <2>1, <2>3 DEF Enqueuing
    <3>2. delivery'[d] = delivery[d]
      BY <1>0, <1>2, <2>3 DEF Publish, Redeliver, WebhookTypeOK
    <3> QED BY <1>0, <1>1, <2>1, <3>1, <3>2, AskedForNoLess
  <2> QED BY <2>2, <2>3
<1>3. ASSUME NEW c \in Callers, NEW j \in Jobs, Enqueue(c, j)
      PROVE  AsManyAsAskedFor(d)'
  <2>1. /\ caller[c].pc = "enqueue" /\ caller[c].of \in Deliveries
        /\ payload' = [payload EXCEPT ![j] = caller[c].of] /\ UNCHANGED delivery
        /\ \A b \in Callers \ {c} : caller'[b] = caller[b]
        /\ caller'[c].pc # "enqueue"
    BY <1>0, <1>3 DEF Enqueue, WebhookTypeOK, CallerState, BasicInv, PartsFit
  <2>2. CASE caller[c].of = d
    <3>1. c \in Enqueuing(d) /\ Enqueuing(d)' \subseteq Enqueuing(d) \ {c}
      BY <2>1, <2>2 DEF Enqueuing
    <3>2. /\ IsFiniteSet(Enqueuing(d)') /\ Cardinality(Enqueuing(d)') \in Nat
          /\ Cardinality(Enqueuing(d)') + 1 <= Cardinality(Enqueuing(d))
      BY <1>1, <3>1, OneFewer
    <3>3. JobsOf(d)' \subseteq JobsOf(d) \cup {j}
      BY <1>0, <2>1 DEF JobsOf, WebhookTypeOK
    <3>4. /\ IsFiniteSet(JobsOf(d)') /\ Cardinality(JobsOf(d)') \in Nat
          /\ Cardinality(JobsOf(d)') <= Cardinality(JobsOf(d)) + 1
      BY <1>1, <3>3, OneMore
    <3>5. AskedFor(d)' = AskedFor(d)
      BY <2>1 DEF AskedFor
    <3>6. Cardinality(JobsOf(d)') + Cardinality(Enqueuing(d)') <= AskedFor(d)'
      BY <1>1, <3>2, <3>4, <3>5
    <3> QED BY <3>2, <3>4, <3>6 DEF AsManyAsAskedFor
  <2>3. CASE caller[c].of # d
    <3>1. Enqueuing(d)' \subseteq Enqueuing(d) /\ JobsOf(d)' \subseteq JobsOf(d)
      BY <1>0, <2>1, <2>3 DEF Enqueuing, JobsOf, WebhookTypeOK
    <3>2. /\ IsFiniteSet(Enqueuing(d)') /\ Cardinality(Enqueuing(d)') \in Nat
          /\ Cardinality(Enqueuing(d)') <= Cardinality(Enqueuing(d))
          /\ IsFiniteSet(JobsOf(d)') /\ Cardinality(JobsOf(d)') \in Nat
          /\ Cardinality(JobsOf(d)') <= Cardinality(JobsOf(d))
      BY <1>1, <3>1, NoMore
    <3>3. AskedFor(d)' = AskedFor(d)
      BY <2>1 DEF AskedFor
    <3>4. Cardinality(JobsOf(d)') + Cardinality(Enqueuing(d)') <= AskedFor(d)'
      BY <1>1, <3>2, <3>3
    <3> QED BY <3>2, <3>4 DEF AsManyAsAskedFor
  <2> QED BY <2>2, <2>3
<1>4. ASSUME NEW c \in Callers, EnqueueThrows(c) \/ Link(c) \/ MarkFailed(c) \/ CallerDies(c)
      PROVE  AsManyAsAskedFor(d)'
  <2>1. /\ UNCHANGED payload
        /\ \A b \in Callers \ {c} : caller'[b] = caller[b]
        /\ caller'[c].pc # "enqueue"
    BY <1>0, <1>4 DEF EnqueueThrows, Link, MarkFailed, CallerDies, Idle, WebhookTypeOK, CallerState
  <2>2. Enqueuing(d)' \subseteq Enqueuing(d)
    BY <2>1 DEF Enqueuing
  <2>3. /\ delivery'[d].status # "absent" \/ delivery'[d] = delivery[d]
        /\ delivery'[d].redeliveries = delivery[d].redeliveries
    <3>1. \/ UNCHANGED delivery
          \/ delivery' = [delivery EXCEPT ![caller[c].of].status = "failed"]
      BY <1>4 DEF EnqueueThrows, Link, MarkFailed, CallerDies
    <3> QED BY <1>0, <3>1 DEF WebhookTypeOK, DeliveryDoc
  <2> QED BY <1>0, <1>1, <2>1, <2>2, <2>3, AskedForNoLess
<1>5. ASSUME UNCHANGED <<payload, caller>>,
             \/ UNCHANGED delivery
             \/ \E e \in Deliveries, status \in {"delivered", "failed", "pending"} :
                  delivery' = [delivery EXCEPT ![e].status = status]
      PROVE  AsManyAsAskedFor(d)'
  <2>1. Enqueuing(d)' = Enqueuing(d)
    BY <1>5 DEF Enqueuing
  <2>2. /\ delivery'[d].status # "absent" \/ delivery'[d] = delivery[d]
        /\ delivery'[d].redeliveries = delivery[d].redeliveries
    <3>1. ASSUME NEW e \in Deliveries, NEW status \in {"delivered", "failed", "pending"},
                 delivery' = [delivery EXCEPT ![e].status = status]
          PROVE  /\ delivery'[d].status # "absent" \/ delivery'[d] = delivery[d]
                 /\ delivery'[d].redeliveries = delivery[d].redeliveries
      BY <1>0, <3>1 DEF WebhookTypeOK, DeliveryDoc
    <3> QED BY <1>5, <3>1
  <2> QED BY <1>0, <1>1, <1>5, <2>1, <2>2, AskedForNoLess
<1>6. ASSUME NEW r \in runs, InvocationStep(r)
      PROVE  AsManyAsAskedFor(d)'
  <2>1. Of(r) \in Deliveries
    BY DEF BasicInv, PartsFit, WebhookTypeOK, RunState, Of
  <2>2. UNCHANGED <<payload, caller>>
    BY <1>6 DEF InvocationStep, Look, Send, RecordDelivered, RecordFailure, Returns, Throws, RunDies
  <2>3. \/ UNCHANGED delivery
        \/ \E status \in {"delivered", "failed", "pending"} :
             delivery' = [delivery EXCEPT ![Of(r)].status = status]
    <3>1. CASE RecordFailure(r)
      BY <3>1 DEF RecordFailure, Record, AfterFailure
    <3>2. CASE RecordDelivered(r)
      BY <3>2 DEF RecordDelivered, Record
    <3>3. CASE Look(r) \/ Send(r) \/ Returns(r) \/ Throws(r) \/ RunDies(r)
      BY <3>3 DEF Look, Send, Returns, Throws, RunDies
    <3> QED BY <1>6, <3>1, <3>2, <3>3 DEF InvocationStep
  <2> QED BY <1>5, <2>1, <2>2, <2>3
<1>7. ASSUME NEW j \in Jobs, StartRun(j) \/ TakenAway(j) \/ RetryDead(j)
      PROVE  AsManyAsAskedFor(d)'
  BY <1>5, <1>7 DEF StartRun, TakenAway, RetryDead
<1>8. CASE UNCHANGED webhookVars
  BY <1>5, <1>8 DEF webhookVars
<1> QED BY <1>2, <1>3, <1>4, <1>6, <1>7, <1>8 DEF WebhookNext, CallerStep

-----------------------------------------------------------------------------
(* Attempts are never multiplied: what was sent, the attempts left and the *)
(* runs that have yet to send fit in the budgets.                          *)

LEMMA LeftIsFinite ==
  ASSUME NEW d, IsFiniteSet(JobsOf(d)), IsFiniteSet(runs)
  PROVE  /\ IsFiniteSet(AttemptsLeft(d)) /\ Cardinality(AttemptsLeft(d)) \in Nat
         /\ IsFiniteSet(AboutToSend(d)) /\ Cardinality(AboutToSend(d)) \in Nat
<1>1. IsFiniteSet(1..MaxAttempts)
  BY AttemptBudget, FS_Interval
<1>2. IsFiniteSet(JobsOf(d) \X (1..MaxAttempts))
  BY <1>1, FS_Product
<1>3. AttemptsLeft(d) \subseteq JobsOf(d) \X (1..MaxAttempts) /\ AboutToSend(d) \subseteq runs
  BY DEF AttemptsLeft, AboutToSend
<1> QED BY <1>2, <1>3, NoMore

LEMMA SendsNoMore ==
  ASSUME BasicInv, JobsAreAskedFor, NEW d \in Deliveries, SendsCovered(d),
         AttemptsLeft(d)' \subseteq AttemptsLeft(d), AboutToSend(d)' \subseteq AboutToSend(d),
         sends'[d] = sends[d], budgets'[d] = budgets[d]
  PROVE  SendsCovered(d)'
<1>1. IsFiniteSet(JobsOf(d)) /\ IsFiniteSet(runs) /\ sends[d] \in Nat /\ budgets[d] \in Nat
  BY DEF BasicInv, PartsFit, WebhookTypeOK, JobsAreAskedFor, AsManyAsAskedFor
<1>2. /\ Cardinality(AttemptsLeft(d)) \in Nat /\ Cardinality(AttemptsLeft(d)') \in Nat
      /\ Cardinality(AttemptsLeft(d)') <= Cardinality(AttemptsLeft(d))
      /\ Cardinality(AboutToSend(d)) \in Nat /\ Cardinality(AboutToSend(d)') \in Nat
      /\ Cardinality(AboutToSend(d)') <= Cardinality(AboutToSend(d))
  BY <1>1, LeftIsFinite, NoMore
<1>3. sends[d] + Cardinality(AttemptsLeft(d)) + Cardinality(AboutToSend(d)) <= MaxAttempts * budgets[d]
  BY DEF SendsCovered
<1>4. MaxAttempts * budgets[d] \in Nat
  BY <1>1, AttemptBudget
<1>5. sends'[d] + Cardinality(AttemptsLeft(d)') + Cardinality(AboutToSend(d)') <= MaxAttempts * budgets'[d]
  BY <1>1, <1>2, <1>3, <1>4
<1> QED BY <1>5 DEF SendsCovered

LEMMA SendsMoreBudget ==
  ASSUME BasicInv, JobsAreAskedFor, NEW d \in Deliveries, SendsCovered(d), NEW j,
         AttemptsLeft(d)' \subseteq AttemptsLeft(d) \cup ({j} \X (1..MaxAttempts)),
         AboutToSend(d)' \subseteq AboutToSend(d),
         sends'[d] = sends[d], budgets'[d] = budgets[d] + 1
  PROVE  SendsCovered(d)'
<1>1. IsFiniteSet(JobsOf(d)) /\ IsFiniteSet(runs) /\ sends[d] \in Nat /\ budgets[d] \in Nat
  BY DEF BasicInv, PartsFit, WebhookTypeOK, JobsAreAskedFor, AsManyAsAskedFor
<1>2. /\ IsFiniteSet(AttemptsLeft(d)) /\ Cardinality(AttemptsLeft(d)) \in Nat
      /\ IsFiniteSet(AboutToSend(d)) /\ Cardinality(AboutToSend(d)) \in Nat
  BY <1>1, LeftIsFinite
<1>3. /\ Cardinality(AttemptsLeft(d)') \in Nat
      /\ Cardinality(AttemptsLeft(d)') <= Cardinality(AttemptsLeft(d)) + MaxAttempts
  BY <1>2, BudgetMore
<1>4. /\ Cardinality(AboutToSend(d)') \in Nat
      /\ Cardinality(AboutToSend(d)') <= Cardinality(AboutToSend(d))
  BY <1>2, NoMore
<1>5. sends[d] + Cardinality(AttemptsLeft(d)) + Cardinality(AboutToSend(d)) <= MaxAttempts * budgets[d]
  BY DEF SendsCovered
<1>6. MaxAttempts \in Nat /\ MaxAttempts * budgets[d] \in Nat
  BY <1>1, AttemptBudget
<1>7. MaxAttempts * (budgets[d] + 1) = MaxAttempts * budgets[d] + MaxAttempts
  BY <1>1, AttemptBudget
<1>8. sends'[d] + Cardinality(AttemptsLeft(d)') + Cardinality(AboutToSend(d)')
        <= MaxAttempts * budgets[d] + MaxAttempts
  BY <1>1, <1>2, <1>3, <1>4, <1>5, <1>6
<1> QED BY <1>7, <1>8 DEF SendsCovered

(* A run looks, sends, or goes on to record what came of it.               *)
LEMMA SendsOfRun ==
  ASSUME BasicInv, JobsAreAskedFor, NEW d \in Deliveries, SendsCovered(d),
         NEW r \in runs, InvocationStep(r)
  PROVE  SendsCovered(d)'
<1>0. /\ r \in RunState /\ Of(r) \in Deliveries /\ IsFiniteSet(JobsOf(d)) /\ IsFiniteSet(runs)
      /\ sends \in [Deliveries -> Nat] /\ life \in [Jobs -> [phase : Phases, tries : Nat]]
      /\ sends[d] \in Nat /\ budgets[d] \in Nat
  BY DEF BasicInv, WebhookTypeOK, LifeTypeOK, PartsFit, RunState, Of, JobsAreAskedFor, AsManyAsAskedFor
<1>1. CASE Look(r)
  <2>1. PICK to \in {"return", "send"} : runs' = Moved(r, to)
    BY <1>1 DEF Look
  <2>2. UNCHANGED <<life, payload, sends, budgets>> /\ r.pc = "look"
    BY <1>1 DEF Look
  <2> DEFINE s == [r EXCEPT !.pc = to]
  <2>3. runs' = (runs \ {r}) \cup {s} /\ s.job = r.job
    <3>1. s.job = r.job /\ s.pc = to
      BY <1>0 DEF RunState
    <3>2. Moved(r, to) = (runs \ {r}) \cup {s}
      BY DEF Moved
    <3> HIDE DEF s
    <3> QED BY <2>1, <3>1, <3>2
  <2> HIDE DEF s
  <2>4. AttemptsLeft(d)' = AttemptsLeft(d)
    BY <2>2 DEF AttemptsLeft, JobsOf
  <2>5. CASE Of(r) # d
    <3>1. AboutToSend(d)' \subseteq AboutToSend(d)
      BY <2>2, <2>3, <2>5 DEF AboutToSend, Of
    <3> QED BY <2>2, <2>4, <3>1, SendsNoMore
  <2>6. CASE Of(r) = d
    <3>1. r \in AboutToSend(d) /\ AboutToSend(d)' \subseteq (AboutToSend(d) \ {r}) \cup {s}
      BY <2>2, <2>3, <2>6 DEF AboutToSend, Of
    <3>2. /\ Cardinality(AttemptsLeft(d)) \in Nat
          /\ IsFiniteSet(AboutToSend(d)) /\ Cardinality(AboutToSend(d)) \in Nat
      BY <1>0, LeftIsFinite
    <3>3. /\ Cardinality(AboutToSend(d)') \in Nat
          /\ Cardinality(AboutToSend(d)') <= Cardinality(AboutToSend(d))
      BY <3>1, <3>2, OneExchanged
    <3>4. sends[d] + Cardinality(AttemptsLeft(d)) + Cardinality(AboutToSend(d)) <= MaxAttempts * budgets[d]
      BY DEF SendsCovered
    <3>5. MaxAttempts * budgets[d] \in Nat
      BY <1>0, AttemptBudget
    <3>6. sends[d] + Cardinality(AttemptsLeft(d)) + Cardinality(AboutToSend(d)') <= MaxAttempts * budgets[d]
      BY <1>0, <3>2, <3>3, <3>4, <3>5
    <3> QED BY <2>2, <2>4, <3>6 DEF SendsCovered
  <2> QED BY <2>5, <2>6
<1>2. CASE Send(r)
  <2>1. PICK to \in {"recordOk", "recordRetry", "recordFinal"} : runs' = Moved(r, to)
    BY <1>2 DEF Send, Unaccepted
  <2>2. /\ UNCHANGED <<life, payload, budgets>> /\ r.pc = "send"
        /\ sends' = [sends EXCEPT ![Of(r)] = @ + 1]
    BY <1>2 DEF Send
  <2> DEFINE s == [r EXCEPT !.pc = to]
  <2>3. runs' = (runs \ {r}) \cup {s} /\ s.job = r.job /\ s.pc \notin {"look", "send"}
    <3>1. s.job = r.job /\ s.pc = to
      BY <1>0 DEF RunState
    <3>2. Moved(r, to) = (runs \ {r}) \cup {s}
      BY DEF Moved
    <3> HIDE DEF s
    <3> QED BY <2>1, <3>1, <3>2
  <2> HIDE DEF s
  <2>4. AttemptsLeft(d)' = AttemptsLeft(d)
    BY <2>2 DEF AttemptsLeft, JobsOf
  <2>5. AboutToSend(d)' \subseteq AboutToSend(d) \ {r}
    BY <2>2, <2>3 DEF AboutToSend, Of
  <2>6. CASE Of(r) # d
    BY <1>0, <2>2, <2>4, <2>5, <2>6, SendsNoMore
  <2>7. CASE Of(r) = d
    <3>1. r \in AboutToSend(d)
      BY <2>2, <2>7 DEF AboutToSend
    <3>2. /\ Cardinality(AttemptsLeft(d)) \in Nat
          /\ IsFiniteSet(AboutToSend(d)) /\ Cardinality(AboutToSend(d)) \in Nat
      BY <1>0, LeftIsFinite
    <3>3. /\ Cardinality(AboutToSend(d)') \in Nat
          /\ Cardinality(AboutToSend(d)') + 1 <= Cardinality(AboutToSend(d))
      BY <2>5, <3>1, <3>2, OneFewer
    <3>4. sends[d] + Cardinality(AttemptsLeft(d)) + Cardinality(AboutToSend(d)) <= MaxAttempts * budgets[d]
      BY DEF SendsCovered
    <3>5. MaxAttempts * budgets[d] \in Nat
      BY <1>0, AttemptBudget
    <3>6. sends'[d] = sends[d] + 1
      BY <1>0, <2>2, <2>7
    <3>7. sends'[d] + Cardinality(AttemptsLeft(d)) + Cardinality(AboutToSend(d)') <= MaxAttempts * budgets[d]
      BY <1>0, <3>2, <3>3, <3>4, <3>5, <3>6
    <3> QED BY <2>2, <2>4, <3>7 DEF SendsCovered
  <2> QED BY <2>6, <2>7
<1>3. CASE RecordDelivered(r) \/ RecordFailure(r)
  <2>1. UNCHANGED <<life, payload, sends, budgets>>
    BY <1>3 DEF RecordDelivered, RecordFailure
  <2>2. PICK to \in {"return", "recordRetry", "throwRetry", "throwFinal"} : runs' = Moved(r, to)
    BY <1>3 DEF RecordDelivered, RecordFailure
  <2> DEFINE s == [r EXCEPT !.pc = to]
  <2>3. runs' = (runs \ {r}) \cup {s} /\ s.job = r.job /\ s.pc \notin {"look", "send"}
    <3>1. s.job = r.job /\ s.pc = to
      BY <1>0 DEF RunState
    <3>2. Moved(r, to) = (runs \ {r}) \cup {s}
      BY DEF Moved
    <3> HIDE DEF s
    <3> QED BY <2>2, <3>1, <3>2
  <2> HIDE DEF s
  <2>4. AttemptsLeft(d)' = AttemptsLeft(d) /\ AboutToSend(d)' \subseteq AboutToSend(d)
    BY <2>1, <2>3 DEF AttemptsLeft, JobsOf, AboutToSend, Of
  <2> QED BY <2>1, <2>4, SendsNoMore
<1>4. CASE Returns(r) \/ Throws(r) \/ RunDies(r)
  <2>1. /\ UNCHANGED <<payload, sends, budgets>> /\ runs' = runs \ {r}
        /\ \/ UNCHANGED life
           \/ /\ life[r.job].phase = "running"
              /\ \E p \in {"succeeded", "queued", "dead"} : life' = [life EXCEPT ![r.job].phase = p]
    BY <1>4 DEF Returns, Throws, RunDies, Finish, Retry, Bury
  <2>2. \A k \in Jobs : /\ life'[k].tries = life[k].tries
                        /\ life'[k].phase = life[k].phase \/ life[k].phase = "running"
    <3>1. ASSUME NEW p, life' = [life EXCEPT ![r.job].phase = p], life[r.job].phase = "running"
          PROVE  \A k \in Jobs : /\ life'[k].tries = life[k].tries
                                 /\ life'[k].phase = life[k].phase \/ life[k].phase = "running"
      BY <1>0, <3>1
    <3> QED BY <2>1, <3>1
  <2>3. AttemptsLeft(d)' \subseteq AttemptsLeft(d)
    BY <2>1, <2>2 DEF AttemptsLeft, JobsOf
  <2>4. AboutToSend(d)' \subseteq AboutToSend(d)
    BY <2>1 DEF AboutToSend, Of
  <2> QED BY <2>1, <2>3, <2>4, SendsNoMore
<1> QED BY <1>1, <1>2, <1>3, <1>4 DEF InvocationStep

(* A job is started, which uses an attempt; is taken away from its run; or *)
(* is given a new budget.                                                  *)
LEMMA SendsOfJob ==
  ASSUME BasicInv, JobsAreAskedFor, NEW d \in Deliveries, SendsCovered(d),
         NEW j \in Jobs, StartRun(j) \/ TakenAway(j) \/ RetryDead(j)
  PROVE  SendsCovered(d)'
<1>0. /\ IsFiniteSet(JobsOf(d)) /\ IsFiniteSet(runs) /\ runs \subseteq RunState
      /\ life \in [Jobs -> [phase : Phases, tries : Nat]] /\ life[j].tries \in Nat
      /\ budgets \in [Deliveries -> Nat] /\ sends[d] \in Nat /\ budgets[d] \in Nat
  BY DEF BasicInv, WebhookTypeOK, LifeTypeOK, PartsFit, JobsAreAskedFor, AsManyAsAskedFor
<1>1. CASE StartRun(j)
  <2> DEFINE r == [job |-> j, attempt |-> life[j].tries + 1, holds |-> TRUE, pc |-> "look"]
             t == life[j].tries + 1
  <2>1. /\ runs' = runs \cup {r} /\ life[j].phase = "queued" /\ life[j].tries < MaxAttempts
        /\ life' = [life EXCEPT ![j] = [phase |-> "running", tries |-> @.tries + 1]]
        /\ UNCHANGED <<payload, sends, budgets>>
    BY <1>1 DEF StartRun, Begin
  <2>2. /\ life'[j].phase = "running" /\ life'[j].tries = t
        /\ \A k \in Jobs \ {j} : life'[k] = life[k]
    BY <1>0, <2>1
  <2>3. r.job = j /\ t \in 1..MaxAttempts
    BY <1>0, <2>1, AttemptBudget
  <2> HIDE DEF r
  <2>4. AboutToSend(d)' \subseteq AboutToSend(d) \cup {r}
    BY <2>1 DEF AboutToSend, Of
  <2>5. CASE payload[j] # d
    <3>1. AttemptsLeft(d)' \subseteq AttemptsLeft(d)
      BY <2>1, <2>2, <2>5 DEF AttemptsLeft, JobsOf
    <3>2. AboutToSend(d)' \subseteq AboutToSend(d)
      BY <2>1, <2>3, <2>5 DEF AboutToSend, Of
    <3> QED BY <2>1, <3>1, <3>2, SendsNoMore
  <2>6. CASE payload[j] = d
    <3>1. <<j, t>> \in AttemptsLeft(d)
      BY <1>0, <2>1, <2>3, <2>6 DEF AttemptsLeft, JobsOf
    <3>2. AttemptsLeft(d)' \subseteq AttemptsLeft(d) \ {<<j, t>>}
      <4> SUFFICES ASSUME NEW s \in AttemptsLeft(d)' PROVE s \in AttemptsLeft(d) \ {<<j, t>>}
        OBVIOUS
      <4>1. /\ s \in JobsOf(d) \X (1..MaxAttempts) /\ life'[s[1]].phase \in {"queued", "running"}
            /\ life'[s[1]].tries < s[2]
        BY <2>1 DEF AttemptsLeft, JobsOf
      <4>2. s[1] \in Jobs /\ s[2] \in 1..MaxAttempts
        BY <4>1 DEF JobsOf
      <4>3. CASE s[1] = j
        <5>1. life[j].tries < s[2] /\ s[2] # t
          BY <1>0, <2>2, <4>1, <4>2, <4>3
        <5> QED BY <2>1, <4>1, <4>3, <5>1 DEF AttemptsLeft
      <4>4. CASE s[1] # j
        BY <2>2, <4>1, <4>2, <4>4 DEF AttemptsLeft
      <4> QED BY <4>3, <4>4
    <3>3. /\ IsFiniteSet(AttemptsLeft(d)) /\ Cardinality(AttemptsLeft(d)) \in Nat
          /\ IsFiniteSet(AboutToSend(d)) /\ Cardinality(AboutToSend(d)) \in Nat
      BY <1>0, LeftIsFinite
    <3>4. /\ Cardinality(AttemptsLeft(d)') \in Nat
          /\ Cardinality(AttemptsLeft(d)') + 1 <= Cardinality(AttemptsLeft(d))
      <4> HIDE DEF t
      <4> QED BY <3>1, <3>2, <3>3, OneFewer
    <3>5. /\ Cardinality(AboutToSend(d)') \in Nat
          /\ Cardinality(AboutToSend(d)') <= Cardinality(AboutToSend(d)) + 1
      BY <2>4, <3>3, OneMore
    <3>6. sends[d] + Cardinality(AttemptsLeft(d)) + Cardinality(AboutToSend(d)) <= MaxAttempts * budgets[d]
      BY DEF SendsCovered
    <3>7. MaxAttempts * budgets[d] \in Nat
      BY <1>0, AttemptBudget
    <3>8. sends[d] + Cardinality(AttemptsLeft(d)') + Cardinality(AboutToSend(d)') <= MaxAttempts * budgets[d]
      BY <1>0, <3>3, <3>4, <3>5, <3>6, <3>7
    <3> QED BY <2>1, <3>8 DEF SendsCovered
  <2> QED BY <2>5, <2>6
<1>2. CASE TakenAway(j)
  <2> DEFINE f == [r \in runs |-> IF r.job = j THEN [r EXCEPT !.holds = FALSE] ELSE r]
  <2>1. /\ life[j].phase = "running"
        /\ \/ life' = [life EXCEPT ![j].phase = "queued"]
           \/ life' = [life EXCEPT ![j].phase = "dead"]
        /\ runs' = {IF r.job = j THEN [r EXCEPT !.holds = FALSE] ELSE r : r \in runs}
        /\ UNCHANGED <<payload, sends, budgets>>
    BY <1>2 DEF TakenAway, Retry, Bury
  <2>2. /\ life'[j].tries = life[j].tries
        /\ \A k \in Jobs \ {j} : life'[k] = life[k]
    BY <1>0, <2>1
  <2>3. AttemptsLeft(d)' \subseteq AttemptsLeft(d)
    BY <2>1, <2>2 DEF AttemptsLeft, JobsOf
  <2>4. \A r \in runs : f[r].job = r.job /\ f[r].pc = r.pc
    BY <1>0 DEF RunState
  <2>5. runs' = {f[r] : r \in runs}
    BY <2>1
  <2> HIDE DEF f
  <2>6. AboutToSend(d)' \subseteq {f[r] : r \in AboutToSend(d)}
    BY <2>1, <2>4, <2>5 DEF AboutToSend, Of
  <2>7. /\ IsFiniteSet(AttemptsLeft(d)) /\ Cardinality(AttemptsLeft(d)) \in Nat
        /\ IsFiniteSet(AboutToSend(d)) /\ Cardinality(AboutToSend(d)) \in Nat
    BY <1>0, LeftIsFinite
  <2>8. /\ Cardinality(AboutToSend(d)') \in Nat
        /\ Cardinality(AboutToSend(d)') <= Cardinality(AboutToSend(d))
    BY <2>6, <2>7, ImageNoMore
  <2>9. /\ Cardinality(AttemptsLeft(d)') \in Nat
        /\ Cardinality(AttemptsLeft(d)') <= Cardinality(AttemptsLeft(d))
    BY <2>3, <2>7, NoMore
  <2>10. sends[d] + Cardinality(AttemptsLeft(d)) + Cardinality(AboutToSend(d)) <= MaxAttempts * budgets[d]
    BY DEF SendsCovered
  <2>11. MaxAttempts * budgets[d] \in Nat
    BY <1>0, AttemptBudget
  <2>12. sends[d] + Cardinality(AttemptsLeft(d)') + Cardinality(AboutToSend(d)') <= MaxAttempts * budgets[d]
    BY <1>0, <2>7, <2>8, <2>9, <2>10, <2>11
  <2> QED BY <2>1, <2>12 DEF SendsCovered
<1>3. CASE RetryDead(j)
  <2>1. /\ life[j].phase = "dead" /\ payload[j] \in Deliveries
        /\ life' = [life EXCEPT ![j] = [phase |-> "queued", tries |-> 0]]
        /\ budgets' = [budgets EXCEPT ![payload[j]] = @ + 1]
        /\ UNCHANGED <<payload, runs, sends>>
    BY <1>3 DEF RetryDead, Revive, BasicInv, PartsFit
  <2>2. \A k \in Jobs \ {j} : life'[k] = life[k]
    BY <1>0, <2>1
  <2>3. AboutToSend(d)' = AboutToSend(d)
    BY <2>1 DEF AboutToSend, Of
  <2>4. CASE payload[j] # d
    <3>1. AttemptsLeft(d)' \subseteq AttemptsLeft(d) /\ budgets'[d] = budgets[d]
      BY <1>0, <2>1, <2>2, <2>4 DEF AttemptsLeft, JobsOf
    <3> QED BY <2>1, <2>3, <3>1, SendsNoMore
  <2>5. CASE payload[j] = d
    <3>1. budgets'[d] = budgets[d] + 1
      BY <1>0, <2>1, <2>5
    <3>2. AttemptsLeft(d)' \subseteq AttemptsLeft(d) \cup ({j} \X (1..MaxAttempts))
      BY <2>1, <2>2 DEF AttemptsLeft, JobsOf
    <3> QED BY <2>1, <2>3, <3>1, <3>2, SendsMoreBudget
  <2> QED BY <2>4, <2>5
<1> QED BY <1>1, <1>2, <1>3

LEMMA SendsStep ==
  ASSUME BasicInv, JobsAreAskedFor, SendsAreCovered, [WebhookNext]_webhookVars
  PROVE  SendsAreCovered'
<1> SUFFICES ASSUME NEW d \in Deliveries PROVE SendsCovered(d)'
  BY DEF SendsAreCovered
<1>0. SendsCovered(d)
  BY DEF SendsAreCovered
<1>1. ASSUME UNCHANGED <<life, payload, runs, sends, budgets>>
      PROVE  SendsCovered(d)'
  BY <1>0, <1>1 DEF SendsCovered, AttemptsLeft, AboutToSend, JobsOf, Of
<1>2. ASSUME NEW c \in Callers, NEW j \in Jobs, Enqueue(c, j)
      PROVE  SendsCovered(d)'
  <2>1. /\ caller[c].of \in Deliveries /\ life[j].phase = "absent"
        /\ life' = [life EXCEPT ![j] = [phase |-> "queued", tries |-> 0]]
        /\ payload' = [payload EXCEPT ![j] = caller[c].of]
        /\ budgets' = [budgets EXCEPT ![caller[c].of] = @ + 1]
        /\ UNCHANGED <<runs, sends>>
    BY <1>2 DEF Enqueue, Submit, BasicInv, PartsFit
  <2>2. /\ \A k \in Jobs \ {j} : life'[k] = life[k] /\ payload'[k] = payload[k]
        /\ payload'[j] = caller[c].of
        /\ budgets'[d] = IF caller[c].of = d THEN budgets[d] + 1 ELSE budgets[d]
    BY <2>1 DEF BasicInv, WebhookTypeOK, LifeTypeOK
  <2>3. \A r \in runs : r.job \in Jobs \ {j}
    BY <2>1 DEF BasicInv, WebhookTypeOK, PartsFit, RunState
  <2>4. AboutToSend(d)' \subseteq AboutToSend(d)
    BY <2>1, <2>2, <2>3 DEF AboutToSend, Of
  <2>5. CASE caller[c].of # d
    <3>1. AttemptsLeft(d)' \subseteq AttemptsLeft(d)
      BY <2>2, <2>5 DEF AttemptsLeft, JobsOf
    <3> QED BY <1>0, <2>1, <2>2, <2>4, <2>5, <3>1, SendsNoMore
  <2>6. CASE caller[c].of = d
    <3>1. AttemptsLeft(d)' \subseteq AttemptsLeft(d) \cup ({j} \X (1..MaxAttempts))
      BY <2>2 DEF AttemptsLeft, JobsOf
    <3> QED BY <1>0, <2>1, <2>2, <2>4, <2>6, <3>1, SendsMoreBudget
  <2> QED BY <2>5, <2>6
<1>3. ASSUME NEW c \in Callers, CallerStep(c)
      PROVE  SendsCovered(d)'
  BY <1>1, <1>2, <1>3 DEF CallerStep, Publish, Redeliver, EnqueueThrows, Link, MarkFailed, CallerDies
<1>4. CASE UNCHANGED webhookVars
  BY <1>1, <1>4 DEF webhookVars
<1> QED BY <1>0, <1>3, <1>4, SendsOfJob, SendsOfRun DEF WebhookNext

-----------------------------------------------------------------------------
(* The theorems on webhooks.                                               *)

LEMMA WebhookInvHolds == WebhookSpec => []WebhookInv
<1>1. WebhookInit => WebhookInv
  <2> SUFFICES ASSUME WebhookInit PROVE WebhookInv
    OBVIOUS
  <2>0. None \notin Deliveries /\ MaxAttempts \in Nat
    BY WebhookConstants, AttemptBudget
  <2>1. WebhookTypeOK
    BY DEF WebhookInit, WebhookTypeOK, LifeInit, LifeTypeOK, Phases, DeliveryDoc, DeliveryStatuses,
           CallerState, Idle
  <2>2. PartsFit
    BY FS_EmptySet DEF WebhookInit, LifeInit, PartsFit, Idle
  <2>3. DeliveredWasAccepted
    BY DEF WebhookInit, LifeInit, DeliveredWasAccepted, JobsOf
  <2>4. JobsAreAskedFor
    <3> SUFFICES ASSUME NEW d \in Deliveries PROVE AsManyAsAskedFor(d)
      BY DEF JobsAreAskedFor
    <3>1. JobsOf(d) = {} /\ Enqueuing(d) = {} /\ AskedFor(d) = 0
      BY <2>0 DEF WebhookInit, JobsOf, Enqueuing, AskedFor, Idle
    <3> QED BY <3>1, FS_EmptySet DEF AsManyAsAskedFor
  <2>5. SendsAreCovered
    <3> SUFFICES ASSUME NEW d \in Deliveries PROVE SendsCovered(d)
      BY DEF SendsAreCovered
    <3>1. AttemptsLeft(d) = {} /\ AboutToSend(d) = {} /\ sends[d] = 0 /\ budgets[d] = 0
      BY <2>0 DEF WebhookInit, AttemptsLeft, AboutToSend, JobsOf
    <3>2. Cardinality(AttemptsLeft(d)) = 0 /\ Cardinality(AboutToSend(d)) = 0
      BY <3>1, FS_EmptySet
    <3> QED BY <2>0, <3>1, <3>2 DEF SendsCovered
  <2> QED BY <2>1, <2>2, <2>3, <2>4, <2>5 DEF WebhookInv
<1>2. WebhookInv /\ [WebhookNext]_webhookVars => WebhookInv'
  <2> SUFFICES ASSUME WebhookInv, [WebhookNext]_webhookVars PROVE WebhookInv'
    OBVIOUS
  <2>1. BasicInv /\ BasicInv'
    BY BasicStep DEF WebhookInv, BasicInv
  <2>2. JobsAreAskedFor'
    BY <2>1, JobsStep DEF WebhookInv
  <2>3. SendsAreCovered'
    BY <2>1, SendsStep DEF WebhookInv
  <2> QED BY <2>1, <2>2, <2>3 DEF WebhookInv, BasicInv
<1> QED BY <1>1, <1>2, PTL DEF WebhookSpec

(* webhooks/service.ts under any number of publishers, operators, timeouts *)
(* and deaths: a delivery has one job per request for it, is sent within   *)
(* the attempts it was given, and is called delivered only after it was.   *)
THEOREM DeliveriesStayHonest == WebhookSpec => []DeliveriesAreHonest
<1>1. WebhookInv => DeliveriesAreHonest
  <2> SUFFICES ASSUME WebhookInv PROVE DeliveriesAreHonest
    OBVIOUS
  <2>0. BasicInv /\ JobsAreAskedFor /\ SendsAreCovered /\ WebhookTypeOK /\ DeliveredWasAccepted
    BY DEF WebhookInv, BasicInv
  <2>1. OneJobPerRequest
    <3> SUFFICES ASSUME NEW d \in Deliveries
                 PROVE  Cardinality(JobsOf(d)) <= 1 + delivery[d].redeliveries
      BY DEF OneJobPerRequest
    <3>1. /\ IsFiniteSet(JobsOf(d)) /\ IsFiniteSet(Enqueuing(d))
          /\ Cardinality(JobsOf(d)) + Cardinality(Enqueuing(d)) <= AskedFor(d)
      BY <2>0 DEF JobsAreAskedFor, AsManyAsAskedFor
    <3>2. Cardinality(JobsOf(d)) \in Nat /\ Cardinality(Enqueuing(d)) \in Nat
      BY <3>1, FS_CardinalityType
    <3>3. /\ delivery[d].redeliveries \in Nat /\ AskedFor(d) \in Nat
          /\ AskedFor(d) <= 1 + delivery[d].redeliveries
      BY <2>0, AskedForIsNat DEF AskedFor
    <3> QED BY <3>1, <3>2, <3>3
  <2>2. SendsWithinBudget
    <3> SUFFICES ASSUME NEW d \in Deliveries PROVE sends[d] <= MaxAttempts * budgets[d]
      BY DEF SendsWithinBudget
    <3>1. /\ IsFiniteSet(JobsOf(d)) /\ IsFiniteSet(runs) /\ sends[d] \in Nat /\ budgets[d] \in Nat
      BY <2>0 DEF BasicInv, PartsFit, WebhookTypeOK, JobsAreAskedFor, AsManyAsAskedFor
    <3>2. Cardinality(AttemptsLeft(d)) \in Nat /\ Cardinality(AboutToSend(d)) \in Nat
      BY <3>1, LeftIsFinite
    <3>3. sends[d] + Cardinality(AttemptsLeft(d)) + Cardinality(AboutToSend(d)) <= MaxAttempts * budgets[d]
      BY <2>0 DEF SendsAreCovered, SendsCovered
    <3>4. MaxAttempts * budgets[d] \in Nat
      BY <3>1, AttemptBudget
    <3> QED BY <3>1, <3>2, <3>3, <3>4
  <2> QED BY <2>0, <2>1, <2>2 DEF DeliveriesAreHonest
<1> QED BY <1>1, WebhookInvHolds, PTL

(* The filter of recordAttempt: no run, of whatever age, and no operator   *)
(* takes a delivery out of the delivered state; only the failure path of   *)
(* schedule() can.                                                         *)
THEOREM DeliveredNotDowngraded == WebhookSpec => [][AttemptsNeverDowngrade]_webhookVars
<1>1. WebhookInv /\ [WebhookNext]_webhookVars => [AttemptsNeverDowngrade]_webhookVars
  <2> SUFFICES ASSUME WebhookInv, WebhookNext, NEW d \in Deliveries,
                      delivery[d].status = "delivered", delivery'[d].status # "delivered"
               PROVE  \E c \in Callers : caller[c] = [pc |-> "mark", of |-> d]
    BY DEF AttemptsNeverDowngrade
  <2>0. /\ delivery \in [Deliveries -> DeliveryDoc] /\ caller \in [Callers -> CallerState]
        /\ ~ UNCHANGED delivery
    BY DEF WebhookInv, WebhookTypeOK
  <2>1. ASSUME NEW c \in Callers, CallerStep(c)
        PROVE  caller[c] = [pc |-> "mark", of |-> d]
    <3>1. ASSUME NEW e \in Deliveries, Publish(c, e) \/ Redeliver(c, e)
          PROVE  FALSE
      <4>1. delivery[e].status # "delivered"
        BY <3>1 DEF Publish, Insertable, Redeliver
      <4>2. delivery'[d] = delivery[d]
        BY <2>0, <3>1, <4>1 DEF Publish, Redeliver
      <4> QED BY <4>2
    <3>2. MarkFailed(c)
      BY <2>0, <2>1, <3>1 DEF CallerStep, Enqueue, EnqueueThrows, Link, CallerDies
    <3>3. caller[c].pc = "mark" /\ delivery' = [delivery EXCEPT ![caller[c].of].status = "failed"]
      BY <2>0, <3>2 DEF MarkFailed
    <3>4. caller[c].of = d
      BY <2>0, <3>3
    <3> QED BY <2>0, <3>3, <3>4 DEF CallerState
  <2>2. ASSUME NEW j \in Jobs, StartRun(j) \/ TakenAway(j) \/ RetryDead(j)
        PROVE  FALSE
    BY <2>0, <2>2 DEF StartRun, TakenAway, RetryDead
  <2>3. ASSUME NEW r \in runs, InvocationStep(r)
        PROVE  FALSE
    <3>1. RecordDelivered(r) \/ RecordFailure(r)
      BY <2>0, <2>3 DEF InvocationStep, Look, Send, Returns, Throws, RunDies
    <3>2. PICK status : Recordable(Of(r)) /\ delivery' = [delivery EXCEPT ![Of(r)].status = status]
      BY <2>0, <3>1 DEF RecordDelivered, RecordFailure, Record
    <3>3. delivery'[d] = delivery[d]
      BY <2>0, <3>2 DEF Recordable
    <3> QED BY <3>3
  <2> QED BY <2>1, <2>2, <2>3 DEF WebhookNext
<1> QED BY <1>1, WebhookInvHolds, PTL DEF WebhookSpec

-----------------------------------------------------------------------------
(* Retention.                                                              *)

Archiving == {"check", "copy", "delete"}

RunPlaces == {"idle", "find", "survivors", "remove", "purge", "scan", "refs", "unlink", "release"} \cup Archiving

RunRecord ==
  [at : RunPlaces, task : {"idle", "completed", "purge", "media"}, start : Nat, until : Nat,
   batch : Nat, full : BOOLEAN, kept : SUBSET Sessions, chosen : SUBSET Sessions,
   linked : SUBSET Sessions, reads : SUBSET {"verifications", "sessions", "archive"},
   found : SUBSET Sessions, again : BOOLEAN]

StoresTypeOK ==
  /\ now \in Nat
  /\ live \in [Sessions -> [state : {"none", "open", "submitted", "completed", "abandoned", "expired"},
                            seen : Nat]]
  /\ archive \in [Sessions -> Nat \cup {Never}]
  /\ verification \in [Sessions -> {"none", "pending", "ended"}]
  /\ file \in [Sessions -> {"none", "stored", "deleted"}] /\ born \in [Sessions -> Nat]
  /\ lock \in [owner : {InstanceOf[r] : r \in Runs} \cup {NoInstance}, until : Nat]
  /\ run \in [Runs -> RunRecord]
  /\ opened \subseteq Sessions

(* The task whose sessions are stale again before the archive gives up     *)
(* what two runs have moved there.                                         *)
Lasting == CHOOSE task \in DOMAIN StaleAfter : ArchiveTime + 2 >= 2 * StaleAfter[task]

Lap == StaleAfter[Lasting]

TimesFit ==
  /\ \A s \in Sessions : live[s].seen <= now /\ archive[s] <= now
  /\ \A r \in Runs :
       /\ run[r].start <= now
       /\ run[r].at # "idle" => \A task \in DOMAIN StaleAfter : now < run[r].start + StaleAfter[task]

(* Sessions are where they were left, or were seen since the run began.    *)
Untouched(s, one) == IsLive(s) /\ live[s].seen < one.start

(* A session a run has found is live, or was archived by a run so recent   *)
(* that no purge has reached it.                                           *)
StillKept(s, one) == IsLive(s) \/ (archive[s] # Never /\ archive[s] > one.start - Lap)

Gone(s) == ~IsLive(s) /\ archive[s] = Never /\ verification[s] = "none"

ChosenFits(s, one) ==
  /\ one.at \in Archiving =>
       /\ s \in opened /\ StillKept(s, one)
       /\ Untouched(s, one) => Matches(s, one)
  /\ one.at = "check" /\ s \notin one.linked /\ Untouched(s, one) => verification[s] = "none"
  /\ one.at \in {"copy", "delete"} /\ Untouched(s, one) => verification[s] # "pending"
  /\ one.at = "delete" /\ Untouched(s, one) => archive[s] >= one.start
  /\ one.at = "survivors" => s \in opened /\ ~Untouched(s, one)
  /\ one.at = "remove" => s \in opened /\ IsLive(s) /\ live[s].seen >= one.start
  /\ one.at \in {"refs", "unlink"} => file[s] # "none" /\ OldEnough(s)
  /\ one.at = "refs" /\ s \notin one.found =>
       /\ one.again \/ "sessions" \notin one.reads => ~IsLive(s)
       /\ one.again /\ "archive" \notin one.reads => archive[s] = Never
       /\ one.again /\ "verifications" \notin one.reads => verification[s] = "none"
  /\ one.at = "unlink" => Gone(s)

(* What a run has in hand.                                                 *)
RunFits(one) ==
  /\ one.kept \cap one.chosen = {}
  /\ one.at \in Archiving \cup {"survivors", "remove", "unlink"} => one.chosen # {}
  /\ one.at \in Archiving \cup {"find", "survivors", "remove"} => one.task \in {"idle", "completed"}
  /\ one.at = "check" => Cardinality(one.chosen) <= BatchSize /\ one.batch <= MaxBatches
  /\ one.at \in {"purge", "scan", "refs", "unlink"} => one.kept = {}
  /\ one.at = "scan" => ~one.again
  /\ one.at = "idle" => one.chosen = {}

LeaseFits ==
  OneRunEach => \A r \in Runs : run[r].at # "idle" =>
    run[r].until <= now \/ (lock.owner = InstanceOf[r] /\ run[r].until <= lock.until)

RetentionInv ==
  /\ StoresTypeOK /\ TimesFit /\ LeaseFits
  /\ \A s \in Sessions : IsLive(s) => s \in opened
  /\ \A r \in Runs : RunFits(run[r]) /\ \A s \in run[r].chosen : ChosenFits(s, run[r])
  /\ SessionNeverLost /\ ReferencedMediaStays

LEMMA StaleTimes ==
  /\ Lasting \in {"idle", "completed"} /\ DOMAIN StaleAfter = {"idle", "completed"}
  /\ Lap \in Nat \ {0} /\ ArchiveTime \in Nat /\ ArchiveTime + 2 >= 2 * Lap /\ ArchiveTime >= Lap
  /\ \A task \in {"idle", "completed"} :
       StaleAfter[task] \in Nat \ {0} /\ ArchiveTime >= StaleAfter[task]
<1>1. /\ StaleAfter \in [{"idle", "completed"} -> Nat \ {0}] /\ ArchiveTime \in Nat
      /\ \A task \in DOMAIN StaleAfter : ArchiveTime >= StaleAfter[task]
      /\ \E task \in DOMAIN StaleAfter : ArchiveTime + 2 >= 2 * StaleAfter[task]
  BY RetentionConstants
<1>2. Lasting \in DOMAIN StaleAfter /\ ArchiveTime + 2 >= 2 * StaleAfter[Lasting]
  BY <1>1 DEF Lasting
<1> QED BY <1>1, <1>2 DEF Lap

(* A run that has nothing in hand: between two tasks, or two batches.      *)
Between(one, old) ==
  /\ one \in RunRecord /\ one.at \in {"find", "purge", "scan", "release"} /\ one.chosen = {}
  /\ one.start = old.start /\ one.until = old.until
  /\ one.at = "find" => one.task \in {"idle", "completed"}
  /\ one.at # "find" => one.kept = {} /\ ~one.again

LEMMA IdleRunOK == IdleRun \in RunRecord /\ IdleRun.start = 0
BY DEF IdleRun, RunRecord, RunPlaces

LEMMA NextTaskBetween ==
  ASSUME NEW one \in RunRecord
  PROVE  Between(NextTask(one), one)
<1> DEFINE Task == CASE one.task = "idle" -> "completed" [] one.task = "completed" -> "purge"
                     [] OTHER -> "media"
           At == CASE one.task = "idle" -> "find" [] one.task = "completed" -> "purge"
                   [] one.task = "purge" -> "scan" [] OTHER -> "release"
<1>2. NextTask(one) = [IdleRun EXCEPT !.start = one.start, !.until = one.until, !.task = Task, !.at = At]
  BY Zenon DEF NextTask
<1>3. one.task \in {"idle", "completed", "purge", "media"}
  BY DEF RunRecord
<1>4. {"find", "purge", "scan", "release"} \subseteq RunPlaces
  BY DEF RunPlaces
<1>5. /\ Task \in {"completed", "purge", "media"} /\ At \in {"find", "purge", "scan", "release"}
      /\ At = "find" => Task = "completed"
  BY <1>3
<1> HIDE DEF Task, At
<1>6. /\ NextTask(one) \in RunRecord /\ NextTask(one).at = At /\ NextTask(one).task = Task
      /\ NextTask(one).start = one.start /\ NextTask(one).until = one.until
      /\ NextTask(one).chosen = {} /\ NextTask(one).kept = {} /\ ~NextTask(one).again
  <2>1. Task \in {"idle", "completed", "purge", "media"} /\ At \in RunPlaces
    BY <1>4, <1>5
  <2>2. one.start \in Nat /\ one.until \in Nat
    BY DEF RunRecord
  <2>3. IdleRun.chosen = {} /\ IdleRun.kept = {} /\ ~IdleRun.again
    BY DEF IdleRun
  <2> QED BY <1>2, <2>1, <2>2, <2>3, IdleRunOK DEF RunRecord
<1> QED BY <1>5, <1>6 DEF Between

LEMMA NextBatchBetween ==
  ASSUME NEW one \in RunRecord, one.task \in {"idle", "completed"}
  PROVE  Between(NextBatch(one), one)
<1>1. CASE one.full
  <2>1. NextBatch(one) = [one EXCEPT !.at = "find", !.batch = @ + 1, !.chosen = {}, !.linked = {}]
    BY <1>1 DEF NextBatch
  <2>2. one.batch + 1 \in Nat
    BY DEF RunRecord
  <2> DEFINE n == one.batch + 1
             two == [one EXCEPT !.at = "find", !.batch = n, !.chosen = {}, !.linked = {}]
  <2>3. NextBatch(one) = two
    BY <2>1
  <2> HIDE DEF n
  <2>4. /\ two \in RunRecord /\ two.at = "find" /\ two.chosen = {} /\ two.task = one.task
        /\ two.start = one.start /\ two.until = one.until
    BY <2>2 DEF n, RunRecord, RunPlaces
  <2> HIDE DEF two
  <2> QED BY <2>3, <2>4 DEF Between
<1>2. CASE ~one.full
  BY <1>2, NextTaskBetween DEF NextBatch
<1> QED BY <1>1, <1>2

LEMMA BetweenFits ==
  ASSUME NEW one, NEW old, Between(one, old)
  PROVE  RunFits(one)
BY DEF Between, RunFits, Archiving

(* One run goes on, and the others stay where they are.                    *)
LEMMA RunMoves ==
  ASSUME RetentionInv, NEW q \in Runs, run[q].at # "idle",
         NEW two, two \in RunRecord, RunFits(two), run' = [run EXCEPT ![q] = two],
         two.start = run[q].start, two.until = run[q].until, UNCHANGED <<now, lock>>
  PROVE  /\ run' \in [Runs -> RunRecord] /\ LeaseFits'
         /\ \A r \in Runs :
              /\ RunFits(run[r])' /\ (r # q => run'[r] = run[r])
              /\ run'[r].start <= now
              /\ run'[r].at # "idle" =>
                   \A task \in DOMAIN StaleAfter : now < run'[r].start + StaleAfter[task]
         /\ run'[q] = two
<1>1. run \in [Runs -> RunRecord]
  BY DEF RetentionInv, StoresTypeOK
<1>2. run' \in [Runs -> RunRecord] /\ run'[q] = two /\ \A r \in Runs : r # q => run'[r] = run[r]
  BY <1>1
<1>4. ASSUME NEW r \in Runs PROVE RunFits(run[r])'
  <2>1. CASE r = q
    BY <1>2, <2>1 DEF RunFits
  <2>2. CASE r # q
    BY <1>2, <2>2 DEF RetentionInv, RunFits
  <2> QED BY <2>1, <2>2
<1>5. LeaseFits'
  BY <1>2 DEF RetentionInv, LeaseFits, OneRunEach
<1>6. ASSUME NEW r \in Runs
      PROVE  /\ run'[r].start <= now
             /\ run'[r].at # "idle" =>
                  \A task \in DOMAIN StaleAfter : now < run'[r].start + StaleAfter[task]
  BY <1>2 DEF RetentionInv, TimesFit
<1> QED BY <1>2, <1>4, <1>5, <1>6

(* What a step may do to a session that a run, which goes on as it was,    *)
(* has in hand.                                                            *)
SessionMoves(s, one) ==
  /\ live'[s].state # "none" /\ live'[s].seen < one.start =>
       /\ IsLive(s) /\ live'[s].seen = live[s].seen
       /\ live[s].state \in StatesOf(one.task) => live'[s].state \in StatesOf(one.task)
       /\ verification[s] = "none" \/ live[s].state \in StatesOf(one.task) =>
            verification'[s] = verification[s] \/ verification'[s] = "ended"
       /\ verification[s] = "none" => verification'[s] = "none"
       /\ one.at = "delete" /\ Matches(s, one) /\ archive[s] >= one.start =>
            archive'[s] >= one.start
  /\ StillKept(s, one) =>
       live'[s].state # "none" \/ (archive'[s] # Never /\ archive'[s] > one.start - Lap)
  /\ IsLive(s) /\ live[s].seen >= one.start => live'[s].state # "none" /\ live'[s].seen >= one.start
  /\ file[s] # "none" => file'[s] # "none" /\ born'[s] = born[s]
  /\ file[s] # "none" /\ OldEnough(s) /\ ~IsLive(s) =>
       /\ live'[s].state = "none"
       /\ archive[s] = Never => archive'[s] = Never
       /\ verification[s] = "none" => verification'[s] = "none"

LEMMA ChosenStays ==
  ASSUME RetentionInv, StoresTypeOK', NEW r \in Runs, run'[r] = run[r],
         NEW s \in run[r].chosen, SessionMoves(s, run[r]), now <= now', opened \subseteq opened'
  PROVE  ChosenFits(s, run[r])'
<1> DEFINE one == run[r]
<1>1. /\ one \in RunRecord /\ s \in Sessions /\ ChosenFits(s, one) /\ run'[r] = one
      /\ live[s] \in [state : {"none", "open", "submitted", "completed", "abandoned", "expired"}, seen : Nat]
      /\ live'[s] \in [state : {"none", "open", "submitted", "completed", "abandoned", "expired"}, seen : Nat]
      /\ archive[s] \in Int /\ archive'[s] \in Int /\ now \in Nat /\ now' \in Nat /\ born[s] \in Nat
      /\ one.start \in Nat
  BY DEF RetentionInv, StoresTypeOK, RunRecord, Never
<1>2. SessionMoves(s, one)
  OBVIOUS
<1>3. MinAge \in Nat
  BY RetentionConstants
<1> HIDE DEF one
<1>4. CASE one.at \in Archiving
  <2>1. /\ one.task \in {"idle", "completed"} /\ s \in opened'
        /\ StillKept(s, one) /\ (Untouched(s, one) => Matches(s, one))
    BY <1>1, <1>4 DEF RetentionInv, RunFits, ChosenFits, one
  <2>2. live'[s].state # "none" \/ (archive'[s] # Never /\ archive'[s] > one.start - Lap)
    BY <1>2, <2>1 DEF SessionMoves
  <2>3. CASE live'[s].state # "none" /\ live'[s].seen < one.start
    <3>1. /\ Untouched(s, one) /\ live'[s].seen = live[s].seen
          /\ live[s].state \in StatesOf(one.task) => live'[s].state \in StatesOf(one.task)
          /\ verification[s] = "none" \/ live[s].state \in StatesOf(one.task) =>
               verification'[s] = verification[s] \/ verification'[s] = "ended"
          /\ verification[s] = "none" => verification'[s] = "none"
          /\ one.at = "delete" /\ Matches(s, one) /\ archive[s] >= one.start =>
               archive'[s] >= one.start
      BY <1>2, <2>3 DEF SessionMoves, Untouched
    <3>2. Matches(s, one) /\ live'[s].state \in StatesOf(one.task)
          /\ live'[s].seen < one.start - StaleAfter[one.task]
      BY <2>1, <3>1 DEF Matches
    <3>3. /\ one.at = "check" /\ s \notin one.linked => verification'[s] = "none"
          /\ one.at \in {"copy", "delete"} => verification'[s] # "pending"
          /\ one.at = "delete" => archive'[s] >= one.start
      BY <1>1, <3>1, <3>2 DEF ChosenFits, Matches
    <3> QED BY <1>1, <1>4, <2>1, <2>2, <3>2, <3>3
            DEF ChosenFits, Untouched, IsLive, StillKept, Matches, Archiving, one
  <2>4. CASE ~(live'[s].state # "none" /\ live'[s].seen < one.start)
    BY <1>1, <1>4, <2>1, <2>2, <2>4 DEF ChosenFits, Untouched, IsLive, StillKept, Archiving, one
  <2> QED BY <2>3, <2>4
<1>5. CASE one.at \in {"survivors", "remove"}
  <2>1. s \in opened' /\ ~Untouched(s, one) /\ (one.at = "remove" => IsLive(s) /\ live[s].seen >= one.start)
    BY <1>1, <1>5 DEF ChosenFits, Untouched
  <2>2. ~(live'[s].state # "none" /\ live'[s].seen < one.start)
    BY <1>2, <2>1 DEF SessionMoves, Untouched
  <2>3. one.at = "remove" => live'[s].state # "none" /\ live'[s].seen >= one.start
    BY <1>2, <2>1 DEF SessionMoves
  <2> QED BY <1>1, <1>5, <2>1, <2>2, <2>3 DEF ChosenFits, Untouched, IsLive, Archiving, one
<1>6. CASE one.at \in {"refs", "unlink"}
  <2>1. file[s] # "none" /\ OldEnough(s)
    BY <1>1, <1>6 DEF ChosenFits
  <2>2. file'[s] # "none" /\ born'[s] < now' - MinAge
    BY <1>1, <1>2, <1>3, <2>1 DEF SessionMoves, OldEnough
  <2>3. ~IsLive(s) =>
          /\ live'[s].state = "none" /\ (archive[s] = Never => archive'[s] = Never)
          /\ verification[s] = "none" => verification'[s] = "none"
    BY <1>2, <2>1 DEF SessionMoves
  <2>4. CASE one.at = "refs"
    BY <1>1, <2>2, <2>3, <2>4 DEF ChosenFits, OldEnough, IsLive, Archiving, one
  <2>5. CASE one.at = "unlink"
    BY <1>1, <2>2, <2>3, <2>5 DEF ChosenFits, OldEnough, IsLive, Gone, Archiving, one
  <2> QED BY <1>6, <2>4, <2>5
<1>7. CASE one.at \notin Archiving \cup {"survivors", "remove", "refs", "unlink"}
  BY <1>1, <1>7 DEF ChosenFits, Archiving, one
<1> QED BY <1>4, <1>5, <1>6, <1>7

(* A step that leaves a session alone.                                     *)
LEMMA UnmovedMoves ==
  ASSUME NEW s \in Sessions, NEW one,
         live'[s] = live[s], archive'[s] = archive[s], verification'[s] = verification[s],
         file'[s] = file[s], born'[s] = born[s]
  PROVE  SessionMoves(s, one)
BY DEF SessionMoves, IsLive, StillKept

LEMMA RunsUnmoved ==
  ASSUME RetentionInv, StoresTypeOK', UNCHANGED <<now, lock, run>>, opened \subseteq opened',
         \A s \in Sessions : live'[s].seen <= now /\ archive'[s] <= now,
         \A s \in Sessions : live'[s].state # "none" => s \in opened',
         SessionNeverLost', ReferencedMediaStays',
         \A r \in Runs : \A s \in run[r].chosen : SessionMoves(s, run[r])
  PROVE  RetentionInv'
<1>1. TimesFit' /\ LeaseFits'
  BY DEF RetentionInv, TimesFit, LeaseFits, OneRunEach
<1>2. ASSUME NEW r \in Runs PROVE RunFits(run[r])' /\ run'[r] = run[r]
  BY DEF RetentionInv, RunFits
<1>3. now <= now'
  BY DEF RetentionInv, StoresTypeOK
<1>4. ASSUME NEW r \in Runs, NEW s \in run[r].chosen PROVE ChosenFits(s, run[r])'
  BY <1>2, <1>3, <1>4, ChosenStays
<1> QED BY <1>1, <1>2, <1>4 DEF RetentionInv, IsLive

LEMMA ApplicationStep ==
  ASSUME RetentionInv, Application, UNCHANGED now
  PROVE  RetentionInv'
<1>0. /\ UNCHANGED <<lock, run>> /\ now \in Nat /\ run \in [Runs -> RunRecord]
      /\ live \in [Sessions -> [state : {"none", "open", "submitted", "completed", "abandoned", "expired"},
                                seen : Nat]]
      /\ archive \in [Sessions -> Nat \cup {Never}]
      /\ verification \in [Sessions -> {"none", "pending", "ended"}]
      /\ file \in [Sessions -> {"none", "stored", "deleted"}] /\ born \in [Sessions -> Nat]
      /\ opened \subseteq Sessions
      /\ \A r \in Runs : run[r].chosen \subseteq Sessions /\ run[r].start \in Nat /\ run[r].start <= now
      /\ MinAge \in Nat
  BY RetentionConstants DEF RetentionInv, StoresTypeOK, Application, RunRecord, TimesFit
<1>1. ASSUME NEW s \in Sessions,
             \/ Upload(s) \/ OpenSession(s) \/ TouchSession(s) \/ SubmitVerification(s)
             \/ EndVerification(s) \/ MarkCompleted(s)
             \/ \E state \in {"abandoned", "expired"} : EndSession(s, state)
      PROVE  RetentionInv'
  <2>0. /\ UNCHANGED <<archive, purged>>
        /\ \A t \in Sessions \ {s} : /\ live'[t] = live[t] /\ verification'[t] = verification[t]
                                     /\ file'[t] = file[t] /\ born'[t] = born[t]
    BY <1>0, <1>1 DEF Upload, OpenSession, TouchSession, SubmitVerification, EndVerification,
                      MarkCompleted, EndSession
  <2> DEFINE Seen == [state : {"none", "open", "submitted", "completed", "abandoned", "expired"}, seen : Nat]
  <2>1. /\ live' \in [Sessions -> Seen] /\ verification' \in [Sessions -> {"none", "pending", "ended"}]
        /\ file' \in [Sessions -> {"none", "stored", "deleted"}] /\ born' \in [Sessions -> Nat]
        /\ opened \subseteq opened' /\ opened' \subseteq Sessions
        /\ live'[s].seen \in {live[s].seen, now} /\ (live'[s].state # "none" => s \in opened')
        /\ \A t \in opened' : t \in opened \/ (t = s /\ live'[s].state # "none")
        /\ IsLive(s) => live'[s].state # "none"
        /\ file'[s] = "deleted" =>
             file[s] = "deleted" /\ live'[s].state \in {"none", live[s].state}
        /\ \A r \in Runs : SessionMoves(s, run[r])
    <3>0. /\ live[s] \in Seen /\ live[s].state \in {"none", "open", "submitted", "completed", "abandoned", "expired"}
          /\ live[s].seen \in Nat /\ (IsLive(s) => s \in opened) /\ verification[s] \in {"none", "pending", "ended"}
          /\ (file[s] = "deleted" => ~IsLive(s)) /\ born[s] \in Nat
      BY <1>0 DEF RetentionInv, ReferencedMediaStays
    <3>1. CASE Upload(s)
      BY <1>0, <3>0, <3>1 DEF Upload, SessionMoves, IsLive, StillKept
    <3>2. CASE OpenSession(s)
      <4>1. /\ live' = [live EXCEPT ![s] = [state |-> "open", seen |-> now]]
            /\ live'[s].state = "open" /\ live'[s].seen = now
            /\ file[s] = "stored" /\ now <= born[s] + MinAge /\ opened' = opened \cup {s}
            /\ UNCHANGED <<archive, verification, file, born>> /\ s \notin opened
        BY <1>0, <3>2 DEF OpenSession
      <4>2. live' \in [Sessions -> Seen]
        BY <1>0, <4>1
      <4>3. ~OldEnough(s) /\ ~IsLive(s)
        BY <1>0, <3>0, <4>1 DEF OldEnough
      <4>4. \A r \in Runs : SessionMoves(s, run[r])
        BY <1>0, <3>0, <4>1, <4>3 DEF SessionMoves
      <4> QED BY <1>0, <3>0, <4>1, <4>2, <4>3, <4>4
    <3>3. CASE TouchSession(s)
      <4>1. /\ live' = [live EXCEPT ![s].seen = now] /\ IsLive(s)
            /\ live'[s].state = live[s].state /\ live'[s].seen = now
            /\ UNCHANGED <<archive, verification, file, born, opened>>
        BY <1>0, <3>0, <3>3 DEF TouchSession
      <4>2. live' \in [Sessions -> Seen]
        BY <1>0, <4>1
      <4>4. \A r \in Runs : SessionMoves(s, run[r])
        BY <1>0, <3>0, <4>1 DEF SessionMoves, IsLive
      <4> QED BY <1>0, <3>0, <4>1, <4>2, <4>4 DEF IsLive
    <3>4. CASE SubmitVerification(s)
      <4>1. /\ live' = [live EXCEPT ![s] = [state |-> "submitted", seen |-> now]] /\ IsLive(s)
            /\ live'[s].state = "submitted" /\ live'[s].seen = now
            /\ verification' = [verification EXCEPT ![s] = "pending"]
            /\ UNCHANGED <<archive, file, born, opened>>
        BY <1>0, <3>0, <3>4 DEF SubmitVerification, IsLive
      <4>2. live' \in [Sessions -> Seen] /\ verification' \in [Sessions -> {"none", "pending", "ended"}]
        BY <1>0, <4>1
      <4>4. \A r \in Runs : SessionMoves(s, run[r])
        BY <1>0, <3>0, <4>1 DEF SessionMoves, IsLive
      <4> QED BY <1>0, <3>0, <4>1, <4>2, <4>4 DEF IsLive
    <3>5. CASE EndVerification(s)
      <4>1. /\ verification[s] = "pending" /\ verification' = [verification EXCEPT ![s] = "ended"]
            /\ UNCHANGED <<live, archive, file, born, opened>>
        BY <3>5 DEF EndVerification
      <4>2. verification' \in [Sessions -> {"none", "pending", "ended"}] /\ verification'[s] = "ended"
        BY <1>0, <4>1
      <4>4. \A r \in Runs : SessionMoves(s, run[r])
        BY <1>0, <3>0, <4>1, <4>2 DEF SessionMoves, IsLive, StillKept
      <4> QED BY <1>0, <3>0, <4>1, <4>2, <4>4 DEF IsLive
    <3>6. CASE MarkCompleted(s)
      <4>1. /\ live' = [live EXCEPT ![s] = [state |-> "completed", seen |-> now]] /\ IsLive(s)
            /\ live'[s].state = "completed" /\ live'[s].seen = now
            /\ UNCHANGED <<archive, verification, file, born, opened>>
        BY <1>0, <3>0, <3>6 DEF MarkCompleted, IsLive
      <4>2. live' \in [Sessions -> Seen]
        BY <1>0, <4>1
      <4>4. \A r \in Runs : SessionMoves(s, run[r])
        BY <1>0, <3>0, <4>1 DEF SessionMoves, IsLive
      <4> QED BY <1>0, <3>0, <4>1, <4>2, <4>4 DEF IsLive
    <3>7. ASSUME NEW state \in {"abandoned", "expired"}, EndSession(s, state)
          PROVE  /\ live' \in [Sessions -> Seen] /\ live'[s].state = state
                 /\ live'[s].seen \in {live[s].seen, now} /\ IsLive(s)
                 /\ live[s].state \in {"open", "submitted"}
                 /\ state = "abandoned" => live'[s].seen = now
                 /\ UNCHANGED <<archive, verification, file, born, opened>>
                 /\ \A r \in Runs : SessionMoves(s, run[r])
      <4> DEFINE seen == IF state = "abandoned" THEN now ELSE live[s].seen
      <4>1. /\ live' = [live EXCEPT ![s] = [state |-> state, seen |-> seen]]
            /\ live[s].state \in {"open", "submitted"} /\ seen \in Nat
            /\ UNCHANGED <<archive, verification, file, born, opened>>
        BY <1>0, <3>0, <3>7 DEF EndSession
      <4>2. live' \in [Sessions -> Seen] /\ live'[s].state = state /\ live'[s].seen = seen /\ IsLive(s)
        <5> HIDE DEF seen
        <5> QED BY <1>0, <4>1 DEF IsLive
      <4>4. ASSUME NEW r \in Runs PROVE SessionMoves(s, run[r])
        <5>1. CASE live'[s].seen < run[r].start
          <6>1. seen = live[s].seen /\ state = "expired"
            BY <1>0, <3>0, <4>2, <5>1
          <6>2. live[s].state \in StatesOf(run[r].task) => "expired" \in StatesOf(run[r].task)
            BY <4>1 DEF StatesOf
          <6> HIDE DEF seen
          <6> QED BY <1>0, <3>0, <4>1, <4>2, <5>1, <6>1, <6>2 DEF SessionMoves
        <5>2. CASE ~(live'[s].seen < run[r].start)
          <6>1. IsLive(s) /\ live[s].seen >= run[r].start => live'[s].seen >= run[r].start
            BY <1>0, <3>0, <4>2
          <6>2. live'[s].state # "none"
            BY <4>2
          <6> HIDE DEF seen
          <6> QED BY <4>1, <4>2, <5>2, <6>1, <6>2 DEF SessionMoves
        <5> QED BY <5>1, <5>2
      <4> QED BY <4>1, <4>2, <4>4
    <3>8. CASE \E state \in {"abandoned", "expired"} : EndSession(s, state)
      BY <1>0, <3>0, <3>7, <3>8 DEF IsLive
    <3> QED BY <1>1, <3>1, <3>2, <3>3, <3>4, <3>5, <3>6, <3>8
  <2>2. StoresTypeOK'
    BY <1>0, <2>0, <2>1 DEF RetentionInv, StoresTypeOK
  <2>3. /\ \A t \in Sessions : live'[t].seen <= now /\ archive'[t] <= now
        /\ \A t \in Sessions : live'[t].state # "none" => t \in opened'
    <3>1. ASSUME NEW t \in Sessions
          PROVE  live[t].seen <= now /\ archive[t] <= now /\ (IsLive(t) => t \in opened)
      BY DEF RetentionInv, TimesFit
    <3>2. archive' = archive /\ now <= now
      BY <1>0, <2>0
    <3>3. ASSUME NEW t \in Sessions
          PROVE  live'[t].seen <= now /\ archive'[t] <= now /\ (live'[t].state # "none" => t \in opened')
      <4>1. CASE t = s
        BY <2>1, <3>1, <3>2, <4>1
      <4>2. CASE t # s
        BY <2>0, <2>1, <3>1, <3>2, <4>2 DEF IsLive
      <4> QED BY <4>1, <4>2
    <3> QED BY <3>3
  <2>4. SessionNeverLost'
    BY <1>0, <2>0, <2>1 DEF RetentionInv, SessionNeverLost, IsLive
  <2>5. ReferencedMediaStays'
    <3>1. verification'[s] = verification[s] \/ verification[s] = "pending" \/ IsLive(s)
      BY <1>1 DEF Upload, OpenSession, TouchSession, SubmitVerification, EndVerification,
                  MarkCompleted, EndSession, IsLive
    <3> QED BY <1>0, <2>0, <2>1, <3>1 DEF RetentionInv, ReferencedMediaStays, IsLive
  <2>6. ASSUME NEW r \in Runs, NEW t \in run[r].chosen PROVE SessionMoves(t, run[r])
    <3>1. CASE t = s
      BY <2>1, <3>1
    <3>2. CASE t # s
      <4>1. t \in Sessions /\ archive'[t] = archive[t]
        BY <1>0, <2>0
      <4> QED BY <2>0, <3>2, <4>1, UnmovedMoves
    <3> QED BY <3>1, <3>2
  <2> QED BY <1>0, <2>1, <2>2, <2>3, <2>4, <2>5, <2>6, RunsUnmoved
<1> QED BY <1>1 DEF Application

(* A run takes a step, and what it does to the sessions suits the others.  *)
LEMMA RunGoes ==
  ASSUME RetentionInv, NEW q \in Runs, run[q].at # "idle", UNCHANGED now,
         NEW two, two \in RunRecord, RunFits(two), Goes(q, two),
         two.start = run[q].start, two.until = run[q].until,
         UNCHANGED <<verification, born, opened>>,
         live' \in [Sessions -> [state : {"none", "open", "submitted", "completed", "abandoned", "expired"},
                                 seen : Nat]],
         archive' \in [Sessions -> Nat \cup {Never}],
         file' \in [Sessions -> {"none", "stored", "deleted"}],
         \A s \in Sessions : live'[s].seen <= now /\ archive'[s] <= now,
         \A s \in Sessions : live'[s].state # "none" => IsLive(s),
         SessionNeverLost', ReferencedMediaStays',
         \A r \in Runs \ {q} : \A s \in run[r].chosen : SessionMoves(s, run[r]),
         \A s \in two.chosen : ChosenFits(s, two)'
  PROVE  RetentionInv'
<1>1. /\ run' \in [Runs -> RunRecord] /\ LeaseFits'
      /\ \A r \in Runs :
           /\ RunFits(run[r])' /\ (r # q => run'[r] = run[r])
           /\ run'[r].start <= now
           /\ run'[r].at # "idle" =>
                \A task \in DOMAIN StaleAfter : now < run'[r].start + StaleAfter[task]
      /\ run'[q] = two
  BY RunMoves DEF Goes
<1>2. StoresTypeOK'
  BY <1>1 DEF Goes, RetentionInv, StoresTypeOK
<1>3. TimesFit'
  BY <1>1 DEF TimesFit
<1>4. \A s \in Sessions : IsLive(s)' => s \in opened'
  BY DEF RetentionInv, IsLive
<1>5. ASSUME NEW r \in Runs PROVE \A s \in run'[r].chosen : ChosenFits(s, run[r])'
  <2>1. CASE r = q
    BY <1>1, <2>1 DEF ChosenFits, StillKept, Untouched, Matches, IsLive, OldEnough, Gone
  <2>2. CASE r # q
    <3>1. run'[r] = run[r] /\ now <= now' /\ opened \subseteq opened'
      BY <1>1, <2>2 DEF RetentionInv, StoresTypeOK
    <3>2. ASSUME NEW s \in run[r].chosen PROVE ChosenFits(s, run[r])'
      BY <1>2, <2>2, <3>1, ChosenStays
    <3> QED BY <3>1, <3>2
  <2> QED BY <2>1, <2>2
<1> QED BY <1>1, <1>2, <1>3, <1>4, <1>5 DEF RetentionInv

LEMMA RunGoesAlone ==
  ASSUME RetentionInv, NEW q \in Runs, run[q].at # "idle", UNCHANGED now,
         NEW two, two \in RunRecord, RunFits(two), Goes(q, two),
         two.start = run[q].start, two.until = run[q].until,
         UNCHANGED records, \A s \in two.chosen : ChosenFits(s, two)
  PROVE  RetentionInv'
<1>1. UNCHANGED <<live, archive, verification, file, born, opened, purged>>
  BY DEF records
<1>2. SessionNeverLost' /\ ReferencedMediaStays'
  BY <1>1 DEF RetentionInv, SessionNeverLost, ReferencedMediaStays, IsLive
<1>3. \A s \in two.chosen : ChosenFits(s, two)'
  BY <1>1 DEF ChosenFits, StillKept, Untouched, Matches, IsLive, OldEnough, Gone
<1>4. ASSUME NEW r \in Runs, NEW s \in run[r].chosen PROVE SessionMoves(s, run[r])
  <2>1. s \in Sessions
    BY DEF RetentionInv, StoresTypeOK, RunRecord
  <2> QED BY <1>1, <2>1, UnmovedMoves
<1>5. /\ live \in [Sessions -> [state : {"none", "open", "submitted", "completed", "abandoned", "expired"},
                                seen : Nat]]
      /\ archive \in [Sessions -> Nat \cup {Never}]
      /\ file \in [Sessions -> {"none", "stored", "deleted"}]
      /\ \A s \in Sessions : live[s].seen <= now /\ archive[s] <= now
  BY DEF RetentionInv, StoresTypeOK, TimesFit
<1>6. /\ live' \in [Sessions -> [state : {"none", "open", "submitted", "completed", "abandoned", "expired"},
                                seen : Nat]]
      /\ archive' \in [Sessions -> Nat \cup {Never}]
      /\ file' \in [Sessions -> {"none", "stored", "deleted"}]
      /\ \A s \in Sessions : live'[s].seen <= now /\ archive'[s] <= now
      /\ \A s \in Sessions : live'[s].state # "none" => IsLive(s)
  BY <1>1, <1>5 DEF IsLive
<1> QED BY <1>1, <1>2, <1>3, <1>4, <1>6, RunGoes

(* The run goes to its next task or batch.                                 *)
LEMMA RunGoesBetween ==
  ASSUME RetentionInv, NEW q \in Runs, run[q].at # "idle", UNCHANGED now,
         NEW two, Between(two, run[q]), Goes(q, two), UNCHANGED records
  PROVE  RetentionInv'
<1>1. two \in RunRecord /\ RunFits(two) /\ two.start = run[q].start /\ two.until = run[q].until
      /\ two.chosen = {}
  BY BetweenFits DEF Between
<1> QED BY <1>1, RunGoesAlone

(* The lease is taken or given up.                                         *)
LEMMA LeaseStep ==
  ASSUME RetentionInv, NEW q \in Runs, RunNow(q) \/ Release(q) \/ Crash(q), UNCHANGED now
  PROVE  RetentionInv'
<1>0. /\ now \in Nat /\ run \in [Runs -> RunRecord] /\ LeaseTtl \in Nat
      /\ lock \in [owner : {InstanceOf[r] : r \in Runs} \cup {NoInstance}, until : Nat]
      /\ UNCHANGED <<live, archive, verification, file, born, opened, purged>>
      /\ \A r \in Runs : run[r].start <= now
  BY RetentionConstants DEF RetentionInv, StoresTypeOK, TimesFit, RunNow, Release, Crash, records
<1>1. ASSUME NEW two, two \in RunRecord, RunFits(two), run' = [run EXCEPT ![q] = two], two.chosen = {},
             two.start <= now,
             two.at # "idle" => \A task \in DOMAIN StaleAfter : now < two.start + StaleAfter[task],
             lock' \in [owner : {InstanceOf[r] : r \in Runs} \cup {NoInstance}, until : Nat],
             LeaseFits'
      PROVE  RetentionInv'
  <2>1. run' \in [Runs -> RunRecord] /\ run'[q] = two /\ \A r \in Runs : r # q => run'[r] = run[r]
    BY <1>0, <1>1
  <2>2. StoresTypeOK'
    BY <1>0, <1>1, <2>1 DEF RetentionInv, StoresTypeOK
  <2>3. TimesFit'
    BY <1>0, <1>1, <2>1 DEF RetentionInv, TimesFit
  <2>4. \A s \in Sessions : IsLive(s)' => s \in opened'
    BY <1>0 DEF RetentionInv, IsLive
  <2>5. SessionNeverLost' /\ ReferencedMediaStays'
    BY <1>0 DEF RetentionInv, SessionNeverLost, ReferencedMediaStays, IsLive
  <2>6. ASSUME NEW r \in Runs
        PROVE  RunFits(run[r])' /\ \A s \in run'[r].chosen : ChosenFits(s, run[r])'
    <3>1. CASE r = q
      BY <1>1, <2>1, <3>1 DEF RunFits
    <3>2. CASE r # q
      BY <1>0, <2>1, <3>2
         DEF RetentionInv, RunFits, ChosenFits, StillKept, Untouched, Matches, IsLive, OldEnough, Gone
    <3> QED BY <3>1, <3>2
  <2> QED BY <1>1, <2>2, <2>3, <2>4, <2>5, <2>6 DEF RetentionInv
<1>2. IdleRun \in RunRecord /\ RunFits(IdleRun) /\ IdleRun.chosen = {} /\ IdleRun.start = 0
      /\ IdleRun.at = "idle"
  BY IdleRunOK DEF IdleRun, RunFits, Archiving
<1>3. CASE Crash(q) \/ Release(q)
  <2>1. /\ run' = [run EXCEPT ![q] = IdleRun]
        /\ lock' = lock \/ (lock.owner = InstanceOf[q] /\ lock' = [lock EXCEPT !.until = 0])
    BY <1>3 DEF Crash, Release
  <2>2. /\ run'[q].at = "idle" /\ \A r \in Runs : r # q => run'[r] = run[r]
        /\ lock' \in [owner : {InstanceOf[r] : r \in Runs} \cup {NoInstance}, until : Nat]
    BY <1>0, <1>2, <2>1
  <2>3. LeaseFits'
    BY <1>0, <2>1, <2>2 DEF RetentionInv, LeaseFits, OneRunEach
  <2>4. IdleRun.start <= now
    BY <1>0, <1>2
  <2> QED BY <1>1, <1>2, <2>1, <2>2, <2>3, <2>4
<1>4. CASE RunNow(q)
  <2> DEFINE until == now + LeaseTtl
             two == [IdleRun EXCEPT !.at = "find", !.start = now, !.until = until]
  <2>1. /\ run[q].at = "idle" /\ Free(q) /\ lock' = [owner |-> InstanceOf[q], until |-> until]
        /\ run' = [run EXCEPT ![q] = two] /\ until \in Nat
    BY <1>0, <1>4 DEF RunNow
  <2> HIDE DEF until
  <2>2. /\ two \in RunRecord /\ two.at = "find" /\ two.start = now /\ two.until = until
        /\ two.chosen = {} /\ two.kept = {} /\ two.task = "idle"
    <3>1. IdleRun.kept = {} /\ IdleRun.task = "idle"
      BY DEF IdleRun
    <3> QED BY <1>0, <1>2, <2>1, <3>1 DEF RunRecord, RunPlaces
  <2> HIDE DEF two
  <2>3. RunFits(two)
    BY <2>2 DEF RunFits, Archiving
  <2>4. \A task \in DOMAIN StaleAfter : now < two.start + StaleAfter[task]
    BY <1>0, <2>2, StaleTimes
  <2>5. LeaseFits'
    <3> SUFFICES ASSUME OneRunEach, NEW r \in Runs, run'[r].at # "idle"
                 PROVE  run'[r].until <= now \/ (lock'.owner = InstanceOf[r] /\ run'[r].until <= lock'.until)
      BY DEF LeaseFits, OneRunEach
    <3>1. lock'.owner = InstanceOf[q] /\ lock'.until = until /\ until <= until /\ until >= now
      BY <1>0, <2>1 DEF until
    <3>2. CASE r = q
      BY <1>0, <2>1, <2>2, <3>1, <3>2
    <3>3. CASE r # q
      <4>1. run'[r] = run[r] /\ run[r].until \in Nat /\ lock.until \in Nat
        BY <1>0, <2>1, <3>3 DEF RunRecord
      <4>2. run[r].until <= now \/ (lock.owner = InstanceOf[r] /\ run[r].until <= lock.until)
        BY <4>1 DEF RetentionInv, LeaseFits
      <4>3. lock.until <= now \/ lock.owner = InstanceOf[q]
        BY <2>1 DEF Free
      <4>4. run[r].until <= now
        BY <1>0, <3>3, <4>1, <4>2, <4>3 DEF OneRunEach
      <4> QED BY <4>1, <4>4
    <3> QED BY <3>2, <3>3
  <2>6. /\ lock' \in [owner : {InstanceOf[r] : r \in Runs} \cup {NoInstance}, until : Nat]
        /\ two.start <= now
    BY <1>0, <2>1, <2>2
  <2> QED BY <1>1, <2>1, <2>2, <2>3, <2>4, <2>5, <2>6
<1> QED BY <1>3, <1>4

-----------------------------------------------------------------------------
(* The steps of a run.                                                     *)

LEMMA RunInHand ==
  ASSUME RetentionInv, NEW q \in Runs
  PROVE  /\ run[q] \in RunRecord /\ RunFits(run[q]) /\ now \in Nat /\ run[q].start \in Nat
         /\ run[q].start <= now /\ run[q].chosen \subseteq Sessions
         /\ \A s \in run[q].chosen : ChosenFits(s, run[q])
         /\ run[q].at # "idle" => \A task \in {"idle", "completed"} : now < run[q].start + StaleAfter[task]
         /\ run[q].at # "idle" => now < run[q].start + Lap
         /\ \A s \in Sessions : /\ live[s].seen \in Nat /\ live[s].seen <= now
                                /\ archive[s] \in Nat \cup {-1} /\ (IsLive(s) => s \in opened)
BY StaleTimes DEF RetentionInv, StoresTypeOK, RunRecord, TimesFit, Never, Lap

LEMMA FindStep ==
  ASSUME RetentionInv, NEW q \in Runs, FindBatch(q), UNCHANGED now
  PROVE  RetentionInv'
<1> DEFINE one == run[q]
           stale == Remaining(one)
<1>0. one \in RunRecord /\ RunFits(one) /\ one.at = "find" /\ UNCHANGED records /\ one.task \in {"idle", "completed"}
  BY RunInHand DEF FindBatch, RunFits
<1>1. CASE stale = {} \/ one.batch > MaxBatches
  <2>1. Goes(q, NextTask(one)) /\ Between(NextTask(one), one)
    BY <1>0, <1>1, NextTaskBetween DEF FindBatch
  <2> QED BY <1>0, <2>1, RunGoesBetween
<1>2. CASE ~(stale = {} \/ one.batch > MaxBatches)
  <2>1. PICK B \in Batches(stale) :
          Goes(q, [one EXCEPT !.at = "check", !.chosen = B, !.full = Cardinality(B) = BatchSize,
                              !.linked = {s \in B : verification[s] # "none"}])
    BY <1>2 DEF FindBatch
  <2> DEFINE full == Cardinality(B) = BatchSize
             linked == {s \in B : verification[s] # "none"}
             two == [one EXCEPT !.at = "check", !.chosen = B, !.full = full, !.linked = linked]
  <2>2. B \subseteq stale /\ stale \subseteq Sessions /\ full \in BOOLEAN /\ linked \subseteq Sessions
    BY DEF Batches, Remaining
  <2>3. B # {} /\ Cardinality(B) <= BatchSize
    <3>1. /\ IsFiniteSet(stale) /\ Cardinality(stale) \in Nat /\ Cardinality(stale) # 0
          /\ BatchSize \in Nat \ {0}
      BY <1>2, <2>2, RetentionConstants, FS_Subset, FS_CardinalityType, FS_EmptySet
    <3>2. Cardinality(B) = IF Cardinality(stale) < BatchSize THEN Cardinality(stale) ELSE BatchSize
      BY DEF Batches
    <3>3. Cardinality(B) \in Nat /\ Cardinality(B) # 0 /\ Cardinality(B) <= BatchSize
      BY <3>1, <3>2
    <3> QED BY <3>3, FS_EmptySet
  <2>4. Goes(q, two)
    BY <2>1
  <2> HIDE DEF full, linked
  <2>5. /\ two \in RunRecord /\ two.at = "check" /\ two.chosen = B /\ two.linked = linked
        /\ two.start = one.start /\ two.until = one.until /\ two.task = one.task
        /\ two.kept = one.kept /\ two.batch = one.batch
    BY <1>0, <2>2 DEF RunRecord, RunPlaces, Archiving
  <2> HIDE DEF two
  <2>6. one.batch <= MaxBatches /\ one.kept \cap B = {}
    <3>1. one.batch \in Nat /\ MaxBatches \in Nat
      BY <1>0, RetentionConstants DEF RunRecord
    <3> QED BY <1>2, <2>2, <3>1 DEF Remaining
  <2>7. RunFits(two)
    BY <1>0, <2>3, <2>5, <2>6 DEF RunFits, Archiving
  <2>8. ASSUME NEW s \in two.chosen PROVE ChosenFits(s, two)
    <3>1. s \in Sessions /\ Matches(s, one)
      BY <2>2, <2>5 DEF Remaining
    <3>2. IsLive(s)
      BY <3>1 DEF Matches, StatesOf, IsLive
    <3>3. Matches(s, two) /\ s \in opened
      BY <2>5, <3>1, <3>2, RunInHand DEF Matches
    <3>4. s \notin linked => verification[s] = "none"
      BY <2>5 DEF linked
    <3> QED BY <2>5, <3>2, <3>3, <3>4 DEF ChosenFits, StillKept, Archiving
  <2> QED BY <1>0, <2>4, <2>5, <2>7, <2>8, RunGoesAlone
<1> QED BY <1>1, <1>2

LEMMA CheckStep ==
  ASSUME RetentionInv, NEW q \in Runs, CheckVerifications(q), UNCHANGED now
  PROVE  RetentionInv'
<1> DEFINE one == run[q]
           kept == one.kept \cup Active(one.linked)
           chosen == one.chosen \ Active(one.linked)
           rest == [one EXCEPT !.kept = kept, !.chosen = chosen]
<1>0. /\ one \in RunRecord /\ RunFits(one) /\ one.at = "check" /\ UNCHANGED records
      /\ one.task \in {"idle", "completed"}
      /\ Goes(q, IF rest.chosen = {} THEN NextBatch(rest) ELSE [rest EXCEPT !.at = "copy"])
  BY RunInHand DEF CheckVerifications, RunFits, Archiving
<1>1. kept \subseteq Sessions /\ chosen \subseteq Sessions /\ kept \cap chosen = {}
  BY <1>0 DEF RunRecord, Active, RunFits
<1>2. \A s \in chosen : s \in one.chosen /\ (s \in one.linked => verification[s] # "pending")
  BY DEF Active
<1> HIDE DEF kept, chosen
<1>3. /\ rest \in RunRecord /\ rest.chosen = chosen /\ rest.kept = kept /\ rest.at = "check"
      /\ rest.start = one.start /\ rest.until = one.until /\ rest.task = one.task
  BY <1>0, <1>1 DEF RunRecord
<1>4. CASE chosen = {}
  <2>1. Between(NextBatch(rest), rest) /\ Goes(q, NextBatch(rest))
    BY <1>0, <1>3, <1>4, NextBatchBetween
  <2>2. Between(NextBatch(rest), one)
    <3> HIDE DEF rest
    <3> QED BY <1>3, <2>1 DEF Between
  <2> QED BY <1>0, <2>1, <2>2, RunGoesBetween
<1>5. CASE chosen # {}
  <2> DEFINE two == [rest EXCEPT !.at = "copy"]
  <2>1. Goes(q, two)
    BY <1>0, <1>3, <1>5
  <2> HIDE DEF rest
  <2>2. /\ two \in RunRecord /\ two.at = "copy" /\ two.chosen = chosen /\ two.kept = kept
        /\ two.start = one.start /\ two.until = one.until /\ two.task = one.task
    BY <1>3 DEF RunRecord, RunPlaces, Archiving
  <2> HIDE DEF two
  <2>3. RunFits(two)
    BY <1>0, <1>1, <1>5, <2>2 DEF RunFits, Archiving
  <2>4. ASSUME NEW s \in two.chosen PROVE ChosenFits(s, two)
    <3>1. ChosenFits(s, one) /\ (s \in one.linked => verification[s] # "pending")
      BY <1>2, <2>2, RunInHand
    <3>2. /\ s \in opened /\ StillKept(s, one) /\ (Untouched(s, one) => Matches(s, one))
          /\ Untouched(s, one) => verification[s] # "pending"
      BY <1>0, <3>1 DEF ChosenFits, Archiving
    <3> QED BY <2>2, <3>2 DEF ChosenFits, StillKept, Untouched, Matches, Archiving
  <2> QED BY <1>0, <2>1, <2>2, <2>3, <2>4, RunGoesAlone
<1> QED BY <1>4, <1>5

LEMMA SurvivorsStep ==
  ASSUME RetentionInv, NEW q \in Runs, FindSurvivors(q), UNCHANGED now
  PROVE  RetentionInv'
<1> DEFINE one == run[q]
           survivors == Survivors(one.chosen)
           two == [one EXCEPT !.at = "remove", !.chosen = survivors]
<1>0. /\ one \in RunRecord /\ RunFits(one) /\ one.at = "survivors" /\ UNCHANGED records
      /\ one.task \in {"idle", "completed"}
      /\ Goes(q, IF survivors = {} THEN NextBatch(one) ELSE two)
  BY RunInHand DEF FindSurvivors, RunFits
<1>1. survivors \subseteq one.chosen /\ one.chosen \subseteq Sessions /\ \A s \in survivors : IsLive(s)
  BY <1>0 DEF Survivors, RunRecord
<1> HIDE DEF survivors
<1>2. CASE survivors = {}
  BY <1>0, <1>2, NextBatchBetween, RunGoesBetween
<1>3. CASE survivors # {}
  <2>1. Goes(q, two)
    BY <1>0, <1>3
  <2>2. /\ two \in RunRecord /\ two.at = "remove" /\ two.chosen = survivors /\ two.kept = one.kept
        /\ two.start = one.start /\ two.until = one.until /\ two.task = one.task
    BY <1>0, <1>1 DEF RunRecord, RunPlaces
  <2> HIDE DEF two
  <2>3. RunFits(two)
    BY <1>0, <1>1, <1>3, <2>2 DEF RunFits, Archiving
  <2>4. ASSUME NEW s \in two.chosen PROVE ChosenFits(s, two)
    <3>1. /\ ChosenFits(s, one) /\ IsLive(s) /\ live[s].seen \in Nat /\ one.start \in Nat
      BY <1>1, <2>2, RunInHand
    <3>2. s \in opened /\ live[s].seen >= one.start
      BY <1>0, <3>1 DEF ChosenFits, Untouched
    <3> QED BY <2>2, <3>1, <3>2 DEF ChosenFits, Archiving
  <2> QED BY <1>0, <2>1, <2>2, <2>3, <2>4, RunGoesAlone
<1> QED BY <1>2, <1>3

(* What a step of the cleanup leaves as it was, and where nothing is lost. *)
LEMMA NothingMoves ==
  ASSUME RetentionInv
  PROVE  /\ live \in [Sessions -> [state : {"none", "open", "submitted", "completed", "abandoned", "expired"},
                                   seen : Nat]]
         /\ archive \in [Sessions -> Nat \cup {Never}]
         /\ file \in [Sessions -> {"none", "stored", "deleted"}]
         /\ now \in Nat /\ \A s \in Sessions : live[s].seen <= now /\ archive[s] <= now
         /\ SessionNeverLost /\ ReferencedMediaStays /\ opened \subseteq Sessions
BY DEF RetentionInv, StoresTypeOK, TimesFit

LEMMA CopyStep ==
  ASSUME RetentionInv, NEW q \in Runs, CopyToArchive(q), UNCHANGED now
  PROVE  RetentionInv'
<1> DEFINE one == run[q]
           copying == [one EXCEPT !.at = "delete"]
<1>0. one \in RunRecord /\ RunFits(one) /\ one.at = "copy" /\ one.task \in {"idle", "completed"}
  BY RunInHand DEF CopyToArchive, RunFits, Archiving
<1>1. PICK copied \in SUBSET one.chosen :
        /\ archive' = [s \in Sessions |-> IF s \in copied THEN now ELSE archive[s]]
        /\ Goes(q, IF copied = one.chosen THEN copying ELSE NextTask(one))
  BY DEF CopyToArchive
<1>2. UNCHANGED <<live, verification, file, born, opened, purged>>
  BY DEF CopyToArchive
<1>3. /\ archive' \in [Sessions -> Nat \cup {Never}] /\ \A s \in Sessions : archive'[s] <= now
      /\ \A s \in Sessions : archive'[s] \in {archive[s], now}
      /\ \A s \in copied : archive'[s] = now
      /\ \A s \in Sessions \ copied : archive'[s] = archive[s]
  BY <1>1, NothingMoves, RunInHand
<1>4. \A s \in copied : StillKept(s, one)
  BY <1>0, <1>1, RunInHand DEF ChosenFits, Archiving
<1>5. SessionNeverLost'
  BY <1>2, <1>3, NothingMoves DEF SessionNeverLost, IsLive, Never
<1>6. ReferencedMediaStays'
  BY <1>2, <1>3, <1>4, NothingMoves DEF ReferencedMediaStays, IsLive, StillKept
<1>7. ASSUME NEW r \in Runs \ {q}, NEW s \in run[r].chosen PROVE SessionMoves(s, run[r])
  <2>1. s \in Sessions /\ archive'[s] \in {archive[s], now} /\ now \in Nat /\ archive[s] \in Nat \cup {-1}
    BY <1>3, RunInHand
  <2>2. run[r].start \in Nat /\ run[r].start <= now /\ Lap \in Nat \ {0}
    BY RunInHand, StaleTimes
  <2>3. ~IsLive(s) /\ archive[s] = Never => archive'[s] = Never
    BY <1>3, <1>4, <2>1 DEF StillKept
  <2> QED BY <1>2, <2>1, <2>2, <2>3 DEF SessionMoves, IsLive, StillKept, Never
<1>8. CASE copied = one.chosen
  <2>0. PICK two : two = copying
    OBVIOUS
  <2>1. Goes(q, two)
    BY <1>1, <1>8, <2>0
  <2>2. /\ two \in RunRecord /\ two.at = "delete" /\ two.chosen = one.chosen /\ two.kept = one.kept
        /\ two.start = one.start /\ two.until = one.until /\ two.task = one.task
    BY <1>0, <2>0 DEF RunRecord, RunPlaces, Archiving
  <2>3. RunFits(two)
    BY <1>0, <2>2 DEF RunFits, Archiving
  <2>4. ASSUME NEW s \in two.chosen PROVE ChosenFits(s, two)'
    <3>1. /\ ChosenFits(s, one) /\ archive'[s] = now /\ s \in Sessions
          /\ one.start \in Nat /\ one.start <= now /\ now \in Nat /\ Lap \in Nat \ {0}
      BY <1>3, <1>8, <2>2, RunInHand, StaleTimes
    <3>2. /\ s \in opened /\ (Untouched(s, one) => Matches(s, one))
          /\ Untouched(s, one) => verification[s] # "pending"
      BY <1>0, <3>1 DEF ChosenFits, Archiving
    <3> QED BY <1>2, <2>2, <3>1, <3>2
            DEF ChosenFits, StillKept, Untouched, Matches, IsLive, Archiving, Never
  <2> QED BY <1>0, <1>2, <1>3, <1>5, <1>6, <1>7, <2>1, <2>2, <2>3, <2>4, NothingMoves, RunGoes DEF IsLive
<1>9. CASE copied # one.chosen
  <2> DEFINE two == NextTask(one)
  <2>1. Goes(q, two) /\ Between(two, one)
    BY <1>0, <1>1, <1>9, NextTaskBetween
  <2>2. two \in RunRecord /\ RunFits(two) /\ two.start = one.start /\ two.until = one.until /\ two.chosen = {}
    BY <2>1, BetweenFits DEF Between
  <2> HIDE DEF two
  <2> QED BY <1>0, <1>2, <1>3, <1>5, <1>6, <1>7, <2>1, <2>2, NothingMoves, RunGoes DEF IsLive
<1> QED BY <1>8, <1>9

(* What was archived by this run is out of reach of every purge, and what  *)
(* it deletes was found by no run that began after it was last seen.       *)
LEMMA DeleteStep ==
  ASSUME RetentionInv, NEW q \in Runs, DeleteCopied(q), UNCHANGED now
  PROVE  RetentionInv'
<1> DEFINE one == run[q]
           deleted == {s \in one.chosen : Deletable(s, one)}
<1>0. /\ one \in RunRecord /\ RunFits(one) /\ one.at = "delete" /\ one.task \in {"idle", "completed"}
      /\ live' = [s \in Sessions |-> IF s \in deleted THEN NoSession ELSE live[s]]
      /\ Goes(q, IF deleted = one.chosen THEN NextBatch(one) ELSE [one EXCEPT !.at = "survivors"])
      /\ UNCHANGED <<archive, verification, file, born, opened, purged>>
  BY RunInHand DEF DeleteCopied, RunFits, Archiving
<1>1. \A s \in deleted : s \in one.chosen /\ Matches(s, one)
  BY DEF Deletable
<1>2. \A s \in one.chosen \ deleted : ~Matches(s, one)
  BY DEF Deletable
<1> HIDE DEF deleted
<1>3. /\ live' \in [Sessions -> [state : {"none", "open", "submitted", "completed", "abandoned", "expired"},
                                 seen : Nat]]
      /\ \A s \in deleted : live'[s] = NoSession
      /\ \A s \in Sessions \ deleted : live'[s] = live[s]
      /\ \A s \in Sessions : live'[s].seen <= now /\ archive'[s] <= now
      /\ \A s \in Sessions : live'[s].state # "none" => IsLive(s)
      /\ archive' \in [Sessions -> Nat \cup {Never}] /\ file' \in [Sessions -> {"none", "stored", "deleted"}]
      /\ \A s \in deleted : s \in Sessions /\ live'[s].state = "none"
  <2>1. deleted \subseteq Sessions
    BY <1>1, RunInHand
  <2>2. NoSession \in [state : {"none", "open", "submitted", "completed", "abandoned", "expired"}, seen : Nat]
        /\ NoSession.state = "none" /\ NoSession.seen = 0
    BY DEF NoSession
  <2> QED BY <1>0, <2>1, <2>2, NothingMoves DEF IsLive
<1>4. \A s \in deleted :
        /\ archive[s] >= one.start /\ one.start \in Nat /\ archive[s] \in Nat \cup {-1}
        /\ IsLive(s) /\ live[s].seen \in Nat /\ live[s].seen < one.start - StaleAfter[one.task]
        /\ live[s].seen < one.start
  <2> SUFFICES ASSUME NEW s \in deleted
               PROVE  /\ archive[s] >= one.start /\ one.start \in Nat /\ archive[s] \in Nat \cup {-1}
                      /\ IsLive(s) /\ live[s].seen \in Nat /\ live[s].seen < one.start - StaleAfter[one.task]
                      /\ live[s].seen < one.start
    OBVIOUS
  <2>1. /\ s \in one.chosen /\ s \in Sessions /\ ChosenFits(s, one)
        /\ live[s].seen \in Nat /\ one.start \in Nat /\ archive[s] \in Nat \cup {-1}
        /\ StaleAfter[one.task] \in Nat \ {0}
    BY <1>0, <1>1, RunInHand, StaleTimes
  <2>2. IsLive(s) /\ live[s].seen < one.start - StaleAfter[one.task]
    BY <1>1 DEF Matches, StatesOf, IsLive
  <2>3. Untouched(s, one)
    BY <2>1, <2>2 DEF Untouched
  <2> QED BY <1>0, <2>1, <2>2, <2>3 DEF ChosenFits
<1>5. SessionNeverLost'
  BY <1>0, <1>3, <1>4, NothingMoves DEF SessionNeverLost, IsLive, Never
<1>6. ReferencedMediaStays'
  BY <1>0, <1>3, NothingMoves DEF ReferencedMediaStays, IsLive
<1>7. ASSUME NEW r \in Runs \ {q}, NEW s \in run[r].chosen PROVE SessionMoves(s, run[r])
  <2>1. s \in Sessions /\ run[r].at # "idle"
    BY RunInHand DEF RunFits
  <2>2. CASE s \notin deleted
    BY <1>0, <1>3, <2>1, <2>2, UnmovedMoves
  <2>3. CASE s \in deleted
    <3>1. /\ live'[s].state = "none" /\ archive'[s] = archive[s] /\ archive[s] >= one.start
          /\ one.start \in Nat /\ archive[s] \in Nat \cup {-1} /\ live[s].seen \in Nat
          /\ live[s].seen < one.start - StaleAfter[one.task] /\ IsLive(s)
      BY <1>0, <1>3, <1>4, <2>3
    <3>2. /\ now \in Nat /\ one.start <= now /\ run[r].start \in Nat /\ now < run[r].start + Lap
          /\ now < run[r].start + StaleAfter[one.task] /\ now < one.start + Lap
          /\ Lap \in Nat /\ StaleAfter[one.task] \in Nat /\ run[r].start <= now
      BY <1>0, <2>1, RunInHand, StaleTimes
    <3>3. archive'[s] # Never /\ archive'[s] > run[r].start - Lap
      BY <3>1, <3>2 DEF Never
    <3>4. ~(live[s].seen >= run[r].start)
      BY <3>1, <3>2
    <3> QED BY <1>0, <3>1, <3>3, <3>4 DEF SessionMoves
  <2> QED BY <2>2, <2>3
<1>8. CASE deleted = one.chosen
  <2> DEFINE two == NextBatch(one)
  <2>1. Goes(q, two) /\ Between(two, one)
    BY <1>0, <1>8, NextBatchBetween
  <2>2. two \in RunRecord /\ RunFits(two) /\ two.start = one.start /\ two.until = one.until /\ two.chosen = {}
    BY <2>1, BetweenFits DEF Between
  <2> HIDE DEF two
  <2> QED BY <1>0, <1>3, <1>5, <1>6, <1>7, <2>1, <2>2, RunGoes
<1>9. CASE deleted # one.chosen
  <2>0. PICK two : two = [one EXCEPT !.at = "survivors"]
    OBVIOUS
  <2>1. Goes(q, two)
    BY <1>0, <1>9, <2>0
  <2>2. /\ two \in RunRecord /\ two.at = "survivors" /\ two.chosen = one.chosen /\ two.kept = one.kept
        /\ two.start = one.start /\ two.until = one.until /\ two.task = one.task
    BY <1>0, <2>0 DEF RunRecord, RunPlaces
  <2>3. RunFits(two)
    BY <1>0, <2>2 DEF RunFits, Archiving
  <2>4. ASSUME NEW s \in two.chosen PROVE ChosenFits(s, two)'
    <3>1. /\ ChosenFits(s, one) /\ s \in Sessions /\ s \in opened /\ (Untouched(s, one) => Matches(s, one))
      BY <1>0, <2>2, RunInHand DEF ChosenFits, Archiving
    <3>2. ~(live'[s].state # "none" /\ live'[s].seen < one.start)
      BY <1>2, <1>3, <2>2, <3>1 DEF Untouched, IsLive
    <3> QED BY <1>0, <2>2, <3>1, <3>2 DEF ChosenFits, Untouched, IsLive, Archiving
  <2> QED BY <1>0, <1>3, <1>5, <1>6, <1>7, <2>1, <2>2, <2>3, <2>4, RunGoes
<1> QED BY <1>8, <1>9

LEMMA RemoveStep ==
  ASSUME RetentionInv, NEW q \in Runs, RemoveCopies(q), UNCHANGED now
  PROVE  RetentionInv'
<1> DEFINE one == run[q]
           two == NextBatch(one)
<1>0. /\ one \in RunRecord /\ RunFits(one) /\ one.at = "remove" /\ one.task \in {"idle", "completed"}
      /\ archive' = [s \in Sessions |-> IF s \in one.chosen THEN Never ELSE archive[s]]
      /\ Goes(q, two)
      /\ UNCHANGED <<live, verification, file, born, opened, purged>>
  BY RunInHand DEF RemoveCopies, RunFits
<1>1. \A s \in one.chosen : s \in Sessions /\ IsLive(s) /\ live[s].seen >= one.start
  BY <1>0, RunInHand DEF ChosenFits
<1>2. Between(two, one)
  BY <1>0, NextBatchBetween
<1>3. two \in RunRecord /\ RunFits(two) /\ two.start = one.start /\ two.until = one.until /\ two.chosen = {}
  BY <1>2, BetweenFits DEF Between
<1> HIDE DEF two
<1>4. /\ archive' \in [Sessions -> Nat \cup {Never}]
      /\ \A s \in Sessions : archive'[s] = IF s \in one.chosen THEN Never ELSE archive[s]
      /\ \A s \in Sessions : live'[s].seen <= now /\ archive'[s] <= now
  <2>1. Never <= now
    BY NothingMoves DEF Never
  <2> QED BY <1>0, <2>1, NothingMoves
<1>5. SessionNeverLost'
  BY <1>0, <1>1, <1>4, NothingMoves DEF SessionNeverLost, IsLive
<1>6. ReferencedMediaStays'
  BY <1>0, <1>4, NothingMoves DEF ReferencedMediaStays, IsLive
<1>7. ASSUME NEW r \in Runs \ {q}, NEW s \in run[r].chosen PROVE SessionMoves(s, run[r])
  <2>1. s \in Sessions /\ run[r].at # "idle"
    BY RunInHand DEF RunFits
  <2>2. CASE s \notin one.chosen
    BY <1>0, <1>4, <2>1, <2>2, UnmovedMoves
  <2>3. CASE s \in one.chosen
    <3>1. IsLive(s) /\ live[s].seen >= one.start /\ live[s].seen \in Nat /\ one.start \in Nat
      BY <1>1, <2>1, <2>3, RunInHand
    <3>2. ~(run[r].at = "delete" /\ Matches(s, run[r]))
      <4> SUFFICES ASSUME run[r].at = "delete" PROVE ~Matches(s, run[r])
        OBVIOUS
      <4>1. /\ run[r].task \in {"idle", "completed"} /\ run[r].start <= now /\ now \in Nat
            /\ run[r].start \in Nat /\ StaleAfter[run[r].task] \in Nat
            /\ now < one.start + StaleAfter[run[r].task]
        BY <1>0, RunInHand, StaleTimes DEF RunFits, Archiving
      <4> QED BY <3>1, <4>1 DEF Matches
    <3> QED BY <1>0, <3>1, <3>2 DEF SessionMoves, IsLive
  <2> QED BY <2>2, <2>3
<1> QED BY <1>0, <1>3, <1>4, <1>5, <1>6, <1>7, NothingMoves, RunGoes DEF IsLive

LEMMA PurgeStep ==
  ASSUME RetentionInv, NEW q \in Runs, PurgeArchive(q), UNCHANGED now
  PROVE  RetentionInv'
<1> DEFINE one == run[q]
           old == {s \in Sessions : archive[s] # Never /\ archive[s] < one.start - ArchiveTime}
           two == NextTask(one)
<1>0. /\ one \in RunRecord /\ one.at = "purge"
      /\ archive' = [s \in Sessions |-> IF s \in old THEN Never ELSE archive[s]]
      /\ purged' = purged \cup {s \in old : ~IsLive(s)}
      /\ Goes(q, two)
      /\ UNCHANGED <<live, verification, file, born, opened>>
  BY RunInHand DEF PurgeArchive
<1>1. \A s \in old : s \in Sessions /\ archive[s] < one.start - ArchiveTime
  OBVIOUS
<1>2. Between(two, one)
  BY <1>0, NextTaskBetween
<1>3. two \in RunRecord /\ RunFits(two) /\ two.start = one.start /\ two.until = one.until /\ two.chosen = {}
  BY <1>2, BetweenFits DEF Between
<1> HIDE DEF two, old
<1>4. /\ archive' \in [Sessions -> Nat \cup {Never}]
      /\ \A s \in Sessions : archive'[s] = IF s \in old THEN Never ELSE archive[s]
      /\ \A s \in Sessions : live'[s].seen <= now /\ archive'[s] <= now
  <2>1. Never <= now
    BY NothingMoves DEF Never
  <2> QED BY <1>0, <2>1, NothingMoves
<1>5. SessionNeverLost'
  BY <1>0, <1>4, NothingMoves DEF SessionNeverLost, IsLive
<1>6. ReferencedMediaStays'
  BY <1>0, <1>4, NothingMoves DEF ReferencedMediaStays, IsLive
<1>7. ASSUME NEW r \in Runs \ {q}, NEW s \in run[r].chosen PROVE SessionMoves(s, run[r])
  <2>1. s \in Sessions /\ run[r].at # "idle"
    BY RunInHand DEF RunFits
  <2>2. CASE s \notin old
    BY <1>0, <1>4, <2>1, <2>2, UnmovedMoves
  <2>3. CASE s \in old
    <3>1. /\ archive[s] < one.start - ArchiveTime /\ one.start \in Nat /\ one.start <= now /\ now \in Nat
          /\ run[r].start \in Nat /\ now < run[r].start + Lap /\ archive[s] \in Nat \cup {-1}
          /\ Lap \in Nat \ {0} /\ ArchiveTime \in Nat /\ ArchiveTime + 2 >= 2 * Lap /\ ArchiveTime >= Lap
      BY <1>0, <1>1, <2>1, <2>3, RunInHand, StaleTimes
    <3>2. ~(archive[s] >= run[r].start)
      BY <3>1
    <3>3. ~(archive[s] > run[r].start - Lap)
      BY <3>1
    <3> QED BY <1>0, <1>4, <2>1, <2>3, <3>2, <3>3 DEF SessionMoves, IsLive, StillKept
  <2> QED BY <2>2, <2>3
<1> QED BY <1>0, <1>3, <1>4, <1>5, <1>6, <1>7, NothingMoves, RunGoes DEF IsLive

-----------------------------------------------------------------------------
(* Orphaned media: what was found without a reference twice has none.      *)

LEMMA ScanStep ==
  ASSUME RetentionInv, NEW q \in Runs, ScanMedia(q), UNCHANGED now
  PROVE  RetentionInv'
<1> DEFINE one == run[q]
           old == {s \in Sessions : file[s] = "stored" /\ OldEnough(s)}
           two == [one EXCEPT !.at = "refs", !.chosen = old,
                              !.reads = {"verifications", "sessions", "archive"}]
<1>0. /\ one \in RunRecord /\ RunFits(one) /\ one.at = "scan" /\ ~one.again /\ one.kept = {}
      /\ Goes(q, two) /\ UNCHANGED records
  BY RunInHand DEF ScanMedia, RunFits
<1>1. old \subseteq Sessions /\ \A s \in old : file[s] # "none" /\ OldEnough(s)
  OBVIOUS
<1> HIDE DEF old
<1>2. /\ two \in RunRecord /\ two.at = "refs" /\ two.chosen = old /\ two.kept = {} /\ ~two.again
      /\ two.reads = {"verifications", "sessions", "archive"}
      /\ two.start = one.start /\ two.until = one.until
  BY <1>0, <1>1 DEF RunRecord, RunPlaces
<1> HIDE DEF two
<1>3. RunFits(two)
  BY <1>2 DEF RunFits, Archiving
<1>4. \A s \in two.chosen : ChosenFits(s, two)
  BY <1>1, <1>2 DEF ChosenFits, Archiving
<1> QED BY <1>0, <1>2, <1>3, <1>4, RunGoesAlone

LEMMA ReadStep ==
  ASSUME RetentionInv, NEW q \in Runs, NEW c, ReadReferences(q, c), UNCHANGED now
  PROVE  RetentionInv'
<1> DEFINE one == run[q]
           reads == one.reads \ {c}
           found == one.found \cup (one.chosen \cap References(c))
           two == [one EXCEPT !.reads = reads, !.found = found]
<1>0. /\ one \in RunRecord /\ RunFits(one) /\ one.at = "refs" /\ c \in one.reads
      /\ Goes(q, two) /\ UNCHANGED records
  BY RunInHand DEF ReadReferences
<1>1. reads \subseteq one.reads /\ found \subseteq Sessions /\ one.found \subseteq found
      /\ \A s \in one.chosen : s \notin found => s \notin one.found /\ s \notin References(c)
  BY <1>0 DEF RunRecord
<1>2. c \in {"verifications", "sessions", "archive"}
  BY <1>0 DEF RunRecord
<1>3. \A d \in {"verifications", "sessions", "archive"} : d \notin reads => d \notin one.reads \/ d = c
  OBVIOUS
<1> HIDE DEF reads, found
<1>4. /\ two \in RunRecord /\ two.at = "refs" /\ two.chosen = one.chosen /\ two.kept = one.kept
      /\ two.reads = reads /\ two.found = found /\ two.again = one.again
      /\ two.start = one.start /\ two.until = one.until
  BY <1>0, <1>1 DEF RunRecord
<1> HIDE DEF two
<1>5. RunFits(two)
  BY <1>0, <1>4 DEF RunFits, Archiving
<1>6. ASSUME NEW s \in two.chosen PROVE ChosenFits(s, two)
  <2>1. ChosenFits(s, one) /\ s \in Sessions
    BY <1>4, RunInHand
  <2>2. /\ c = "sessions" /\ s \notin found => ~IsLive(s)
        /\ c = "archive" /\ s \notin found => archive[s] = Never
        /\ c = "verifications" /\ s \notin found => verification[s] = "none"
    BY <1>1, <1>4, <2>1 DEF References, InArchive
  <2>3. s \notin found => s \notin one.found
    BY <1>1
  <2> QED BY <1>0, <1>3, <1>4, <2>1, <2>2, <2>3 DEF ChosenFits, Archiving
<1> QED BY <1>0, <1>4, <1>5, <1>6, RunGoesAlone

LEMMA ClassifiedStep ==
  ASSUME RetentionInv, NEW q \in Runs, Classified(q), UNCHANGED now
  PROVE  RetentionInv'
<1> DEFINE one == run[q]
           orphans == one.chosen \ one.found
           unlinking == [one EXCEPT !.at = "unlink", !.chosen = orphans, !.found = {}]
           looking == [one EXCEPT !.again = TRUE, !.chosen = orphans, !.found = {},
                                  !.reads = {"verifications", "sessions", "archive"}]
<1>0. /\ one \in RunRecord /\ RunFits(one) /\ one.at = "refs" /\ one.reads = {} /\ one.kept = {}
      /\ UNCHANGED records
      /\ \/ Goes(q, NextTask(one))
         \/ orphans # {} /\ one.again /\ Goes(q, unlinking)
         \/ orphans # {} /\ Goes(q, looking)
  BY RunInHand DEF Classified, CheckedAgain, RunFits
<1>1. orphans \subseteq Sessions /\ \A s \in orphans : s \in one.chosen /\ s \notin one.found
  BY <1>0 DEF RunRecord
<1> HIDE DEF orphans
<1>2. \A s \in orphans :
        /\ file[s] # "none" /\ OldEnough(s) /\ ~IsLive(s)
        /\ one.again => archive[s] = Never /\ verification[s] = "none"
  BY <1>0, <1>1, RunInHand DEF ChosenFits
<1>3. CASE Goes(q, NextTask(one))
  BY <1>0, <1>3, NextTaskBetween, RunGoesBetween
<1>4. CASE orphans # {} /\ one.again /\ Goes(q, unlinking)
  <2>1. /\ unlinking \in RunRecord /\ unlinking.at = "unlink" /\ unlinking.chosen = orphans
        /\ unlinking.kept = {} /\ unlinking.start = one.start /\ unlinking.until = one.until
    BY <1>0, <1>1 DEF RunRecord, RunPlaces
  <2> HIDE DEF unlinking
  <2>2. RunFits(unlinking)
    BY <1>4, <2>1 DEF RunFits, Archiving
  <2>3. \A s \in unlinking.chosen : ChosenFits(s, unlinking)
    BY <1>2, <1>4, <2>1 DEF ChosenFits, Gone, Archiving
  <2> QED BY <1>0, <1>4, <2>1, <2>2, <2>3, RunGoesAlone
<1>5. CASE orphans # {} /\ Goes(q, looking)
  <2>1. /\ looking \in RunRecord /\ looking.at = "refs" /\ looking.chosen = orphans
        /\ looking.reads = {"verifications", "sessions", "archive"}
        /\ looking.kept = {} /\ looking.start = one.start /\ looking.until = one.until
    BY <1>0, <1>1 DEF RunRecord, RunPlaces
  <2> HIDE DEF looking
  <2>2. RunFits(looking)
    BY <2>1 DEF RunFits, Archiving
  <2>3. \A s \in looking.chosen : ChosenFits(s, looking)
    BY <1>2, <2>1 DEF ChosenFits, Archiving
  <2> QED BY <1>0, <1>5, <2>1, <2>2, <2>3, RunGoesAlone
<1> QED BY <1>0, <1>3, <1>4, <1>5

LEMMA UnlinkStep ==
  ASSUME RetentionInv, NEW q \in Runs, NEW s, Unlink(q, s), UNCHANGED now
  PROVE  RetentionInv'
<1> DEFINE one == run[q]
           chosen == one.chosen \ {s}
           rest == [one EXCEPT !.chosen = chosen]
<1>0. /\ one \in RunRecord /\ RunFits(one) /\ one.at = "unlink" /\ one.kept = {}
      /\ s \in one.chosen /\ s \in Sessions /\ Gone(s) /\ file[s] # "none"
      /\ file' \in {file, [file EXCEPT ![s] = "deleted"]}
      /\ Goes(q, IF rest.chosen = {} THEN NextTask(rest) ELSE rest)
      /\ UNCHANGED <<live, archive, verification, born, opened, purged>>
  BY RunInHand DEF Unlink, RunFits, ChosenFits
<1>1. /\ file' \in [Sessions -> {"none", "stored", "deleted"}]
      /\ \A t \in Sessions : t # s => file'[t] = file[t]
      /\ file'[s] # "none"
  BY <1>0, NothingMoves
<1>2. chosen \subseteq one.chosen /\ chosen \subseteq Sessions
  BY <1>0 DEF RunRecord
<1> HIDE DEF chosen
<1>3. /\ rest \in RunRecord /\ rest.at = "unlink" /\ rest.chosen = chosen /\ rest.kept = {}
      /\ rest.start = one.start /\ rest.until = one.until
  BY <1>0, <1>2 DEF RunRecord
<1>4. SessionNeverLost' /\ ReferencedMediaStays'
  BY <1>0, <1>1, NothingMoves DEF SessionNeverLost, ReferencedMediaStays, IsLive, Gone
<1>5. ASSUME NEW r \in Runs, NEW t \in run[r].chosen PROVE SessionMoves(t, run[r])
  <2>1. t \in Sessions
    BY RunInHand
  <2>2. CASE t = s
    BY <1>0, <1>1, <2>1, <2>2 DEF SessionMoves, Gone, IsLive, StillKept
  <2>3. CASE t # s
    BY <1>0, <1>1, <2>1, <2>3, UnmovedMoves
  <2> QED BY <2>2, <2>3
<1>6. CASE chosen = {}
  <2> DEFINE two == NextTask(rest)
  <2>1. Goes(q, two) /\ Between(two, rest)
    BY <1>0, <1>3, <1>6, NextTaskBetween
  <2> HIDE DEF rest
  <2>2. two \in RunRecord /\ RunFits(two) /\ two.start = one.start /\ two.until = one.until /\ two.chosen = {}
    BY <1>3, <2>1, BetweenFits DEF Between
  <2> HIDE DEF two
  <2> QED BY <1>0, <1>1, <1>4, <1>5, <2>1, <2>2, NothingMoves, RunGoes DEF IsLive
<1>7. CASE chosen # {}
  <2>0. PICK two : two = rest
    OBVIOUS
  <2>1. Goes(q, two)
    BY <1>0, <1>3, <1>7, <2>0
  <2> HIDE DEF rest
  <2>2. /\ two \in RunRecord /\ two.at = "unlink" /\ two.chosen = chosen /\ two.kept = {}
        /\ two.start = one.start /\ two.until = one.until
    BY <1>3, <2>0
  <2>3. RunFits(two)
    BY <1>7, <2>2 DEF RunFits, Archiving
  <2>4. ASSUME NEW t \in two.chosen PROVE ChosenFits(t, two)'
    <3>1. ChosenFits(t, one) /\ t \in Sessions
      BY <1>2, <2>2, RunInHand
    <3>2. file'[t] # "none" /\ OldEnough(t) /\ Gone(t)
      BY <1>0, <1>1, <3>1 DEF ChosenFits
    <3> QED BY <1>0, <2>2, <3>2 DEF ChosenFits, OldEnough, Gone, IsLive, Archiving
  <2> QED BY <1>0, <1>1, <1>4, <1>5, <2>1, <2>2, <2>3, <2>4, NothingMoves, RunGoes DEF IsLive
<1> QED BY <1>6, <1>7

LEMMA RetentionTickStep ==
  ASSUME RetentionInv, RetentionTick, UNCHANGED retentionVars
  PROVE  RetentionInv'
<1>0. /\ now \in Nat /\ now' = now + 1
      /\ UNCHANGED <<live, archive, verification, file, born, lock, run, opened, purged>>
      /\ \A r \in Runs, task \in DOMAIN StaleAfter :
           run[r].at # "idle" => now + 1 < run[r].start + StaleAfter[task]
  BY DEF RetentionInv, StoresTypeOK, RetentionTick, Tick, retentionVars
<1>1. StoresTypeOK'
  BY <1>0 DEF RetentionInv, StoresTypeOK
<1>2. TimesFit'
  <2>1. \A s \in Sessions : live[s].seen \in Int /\ archive[s] \in Int
    BY RunInHand DEF RetentionInv, StoresTypeOK, Never
  <2>2. \A r \in Runs : run[r].start \in Nat
    BY RunInHand
  <2>3. \A s \in Sessions : live[s].seen <= now + 1 /\ archive[s] <= now + 1
    BY <1>0, <2>1 DEF RetentionInv, TimesFit
  <2>4. \A r \in Runs : run[r].start <= now + 1
    BY <1>0, <2>2 DEF RetentionInv, TimesFit
  <2> QED BY <1>0, <2>3, <2>4 DEF TimesFit
<1>3. LeaseFits'
  <2>1. \A r \in Runs : run[r].until \in Nat
    BY RunInHand DEF RunRecord
  <2>2. \A r \in Runs : run[r].until <= now => run[r].until <= now + 1
    BY <1>0, <2>1
  <2> QED BY <1>0, <2>2 DEF RetentionInv, LeaseFits, OneRunEach
<1>4. SessionNeverLost' /\ ReferencedMediaStays' /\ \A s \in Sessions : IsLive(s)' => s \in opened'
  BY <1>0 DEF RetentionInv, SessionNeverLost, ReferencedMediaStays, IsLive
<1>5. ASSUME NEW r \in Runs PROVE RunFits(run[r])' /\ \A s \in run'[r].chosen : ChosenFits(s, run[r])'
  <2>1. RunFits(run[r])' /\ run'[r] = run[r]
    BY <1>0, RunInHand DEF RunFits
  <2>2. ASSUME NEW s \in run[r].chosen PROVE ChosenFits(s, run[r])'
    <3>1. s \in Sessions /\ now <= now' /\ opened \subseteq opened'
      BY <1>0, RunInHand
    <3>2. SessionMoves(s, run[r])
      BY <1>0, <3>1, UnmovedMoves
    <3> QED BY <1>1, <2>1, <3>1, <3>2, ChosenStays
  <2> QED BY <2>1, <2>2
<1> QED BY <1>1, <1>2, <1>3, <1>4, <1>5 DEF RetentionInv

LEMMA CallFailsStep ==
  ASSUME RetentionInv, NEW q \in Runs, CallFails(q), UNCHANGED now
  PROVE  RetentionInv'
<1>1. run[q].at # "idle" /\ Goes(q, NextTask(run[q])) /\ UNCHANGED records /\ run[q] \in RunRecord
  BY RunInHand DEF CallFails
<1> QED BY <1>1, NextTaskBetween, RunGoesBetween

LEMMA StutterStep ==
  ASSUME RetentionInv, UNCHANGED <<now, retentionVars>>
  PROVE  RetentionInv'
<1>1. UNCHANGED <<now, live, archive, verification, file, born, lock, run, opened, purged>>
  BY DEF retentionVars
<1>2. StoresTypeOK' /\ TimesFit' /\ LeaseFits'
  BY <1>1 DEF RetentionInv, StoresTypeOK, TimesFit, LeaseFits, OneRunEach
<1>3. SessionNeverLost' /\ ReferencedMediaStays' /\ \A s \in Sessions : IsLive(s)' => s \in opened'
  BY <1>1 DEF RetentionInv, SessionNeverLost, ReferencedMediaStays, IsLive
<1>4. now \in Nat /\ now <= now' /\ opened \subseteq opened'
  BY <1>1 DEF RetentionInv, StoresTypeOK
<1>5. ASSUME NEW r \in Runs PROVE RunFits(run[r])' /\ \A s \in run'[r].chosen : ChosenFits(s, run[r])'
  <2>1. RunFits(run[r])' /\ run'[r] = run[r]
    BY <1>1, RunInHand DEF RunFits
  <2>2. ASSUME NEW s \in run[r].chosen PROVE ChosenFits(s, run[r])'
    <3>1. s \in Sessions
      BY RunInHand
    <3>2. SessionMoves(s, run[r])
      BY <1>1, <1>4, <3>1, UnmovedMoves
    <3> QED BY <1>2, <1>4, <2>1, <3>1, <3>2, ChosenStays
  <2> QED BY <2>1, <2>2
<1> QED BY <1>2, <1>3, <1>5 DEF RetentionInv

-----------------------------------------------------------------------------
(* The theorems on retention.                                              *)

LEMMA RetentionInvHolds == RetentionSpec => []RetentionInv
<1>1. RetentionInit /\ now = 0 => RetentionInv
  <2> SUFFICES ASSUME RetentionInit, now = 0 PROVE RetentionInv
    OBVIOUS
  <2>1. StoresTypeOK
    BY IdleRunOK DEF RetentionInit, StoresTypeOK, NoSession, Never
  <2>2. TimesFit /\ LeaseFits /\ \A r \in Runs : RunFits(run[r]) /\ run[r].chosen = {}
    BY DEF RetentionInit, TimesFit, LeaseFits, RunFits, IdleRun, NoSession, Never, Archiving
  <2>3. SessionNeverLost /\ ReferencedMediaStays /\ \A s \in Sessions : IsLive(s) => s \in opened
    BY DEF RetentionInit, SessionNeverLost, ReferencedMediaStays, IsLive, NoSession
  <2> QED BY <2>1, <2>2, <2>3 DEF RetentionInv
<1>2. RetentionInv /\ [RetentionNext]_<<now, retentionVars>> => RetentionInv'
  <2> SUFFICES ASSUME RetentionInv, [RetentionNext]_<<now, retentionVars>> PROVE RetentionInv'
    OBVIOUS
  <2>1. CASE Application /\ UNCHANGED now
    BY <2>1, ApplicationStep
  <2>2. ASSUME NEW r \in Runs, RunStep(r), UNCHANGED now PROVE RetentionInv'
    <3>1. CASE RunNow(r) \/ Release(r) \/ Crash(r)
      BY <2>2, <3>1, LeaseStep
    <3>2. CASE CallFails(r) \/ FindBatch(r) \/ CheckVerifications(r) \/ CopyToArchive(r)
      BY <2>2, <3>2, CallFailsStep, FindStep, CheckStep, CopyStep
    <3>3. CASE DeleteCopied(r) \/ FindSurvivors(r) \/ RemoveCopies(r) \/ PurgeArchive(r)
      BY <2>2, <3>3, DeleteStep, SurvivorsStep, RemoveStep, PurgeStep
    <3>4. CASE ScanMedia(r) \/ Classified(r)
      BY <2>2, <3>4, ScanStep, ClassifiedStep
    <3>5. CASE \E c \in run[r].reads : ReadReferences(r, c)
      BY <2>2, <3>5, ReadStep
    <3>6. CASE \E s \in run[r].chosen : Unlink(r, s)
      BY <2>2, <3>6, UnlinkStep
    <3> QED BY <2>2, <3>1, <3>2, <3>3, <3>4, <3>5, <3>6 DEF RunStep
  <2>3. CASE RetentionTick /\ UNCHANGED retentionVars
    BY <2>3, RetentionTickStep
  <2>4. CASE UNCHANGED <<now, retentionVars>>
    BY <2>4, StutterStep
  <2> QED BY <2>1, <2>2, <2>3, <2>4 DEF RetentionNext
<1> QED BY <1>1, <1>2, PTL DEF RetentionSpec

(* maintenance/cleanup.ts and maintenance/orphans.ts, with any number of   *)
(* overlapping runs, failing calls and crashes: no session is lost between *)
(* the collections and no file that is referred to is unlinked; where an   *)
(* instance has one run at a time, instances clean together only past the  *)
(* lease of one of them.                                                   *)
THEOREM CleanupLosesNothing == RetentionSpec => []NothingNeededIsLost
<1>1. RetentionInv => NothingNeededIsLost
  <2> SUFFICES ASSUME RetentionInv PROVE NothingNeededIsLost
    OBVIOUS
  <2>1. RetentionTypeOK
    <3>1. ASSUME NEW s \in Sessions
          PROVE  /\ live[s].state \in {"none", "open", "submitted", "completed", "abandoned", "expired"}
                 /\ live[s].seen <= now /\ archive[s] \in {Never} \cup 0..now
                 /\ verification[s] \in {"none", "pending", "ended"} /\ file[s] \in {"none", "stored", "deleted"}
      BY DEF RetentionInv, StoresTypeOK, TimesFit, Never
    <3>2. ASSUME NEW r \in Runs
          PROVE  /\ run[r] \in RunRecord /\ RunFits(run[r])
      BY DEF RetentionInv, StoresTypeOK
    <3> QED BY <3>1, <3>2 DEF RetentionTypeOK, RunRecord, RunPlaces, Archiving, RunFits
  <2>2. OneRunEach => OverlapNeedsExpiry
    BY DEF RetentionInv, LeaseFits, OverlapNeedsExpiry
  <2> QED BY <2>1, <2>2 DEF RetentionInv, NothingNeededIsLost
<1> QED BY <1>1, RetentionInvHolds, PTL

(* archiveSessions deletes by the filter and not by what it read: between  *)
(* the two a session may have been used again or its verification may have *)
(* begun, and then the session stays.                                      *)
THEOREM SessionsInUseStay == RetentionSpec => [][InFlightStays]_<<now, retentionVars>>
<1>1. RetentionInv /\ [RetentionNext]_<<now, retentionVars>> => [InFlightStays]_<<now, retentionVars>>
  <2> SUFFICES ASSUME RetentionInv, RetentionNext, NEW s \in Sessions, IsLive(s), live'[s].state = "none"
               PROVE  verification[s] # "pending" /\ \E r \in Runs : live[s].seen < run[r].start
    BY DEF InFlightStays
  <2>0. live \in [Sessions -> [state : {"none", "open", "submitted", "completed", "abandoned", "expired"},
                               seen : Nat]]
    BY DEF RetentionInv, StoresTypeOK
  <2>1. live' # live
    BY DEF IsLive
  <2>2. ~Application
    BY <2>0, <2>1 DEF Application, Upload, OpenSession, TouchSession, SubmitVerification,
          EndVerification, MarkCompleted, EndSession, IsLive
  <2>3. PICK r \in Runs : RunStep(r)
    BY <2>1, <2>2 DEF RetentionNext, retentionVars
  <2>4. DeleteCopied(r)
    BY <2>1, <2>3 DEF RunStep, RunNow, Release, Crash, CallFails, FindBatch, CheckVerifications,
          CopyToArchive, FindSurvivors, RemoveCopies, PurgeArchive, ScanMedia, Classified,
          ReadReferences, Unlink, records
  <2>5. s \in run[r].chosen /\ Matches(s, run[r]) /\ run[r].at = "delete"
    BY <2>0, <2>4 DEF DeleteCopied, Deletable, IsLive
  <2>6. ChosenFits(s, run[r]) /\ run[r].start \in Nat /\ live[s].seen \in Nat
        /\ run[r].task \in {"idle", "completed"}
    BY <2>5, RunInHand DEF RunFits, Archiving
  <2>7. live[s].seen < run[r].start
    BY <2>5, <2>6, StaleTimes DEF Matches
  <2> QED BY <2>5, <2>6, <2>7 DEF ChosenFits, Untouched
<1> QED BY <1>1, RetentionInvHolds, PTL DEF RetentionSpec

-----------------------------------------------------------------------------
(* The index of events. Of an event that was fetched it is either its id   *)
(* that is indexed or, when contents are compared, its content.            *)

IndexHolds ==
  /\ fetched \in Seq(Fetched)
  /\ events \in [DOMAIN events -> Contents] /\ DOMAIN events \subseteq Ids
  /\ IsFiniteSet(DOMAIN events)
  /\ idByContent \in [DOMAIN idByContent -> DOMAIN events] /\ DOMAIN idByContent \subseteq Contents
  /\ \A c \in DOMAIN idByContent : events[idByContent[c]] = c
  /\ \A i \in DOMAIN events : events[i] \in DOMAIN idByContent
  /\ DedupeByContent => \A i, j \in DOMAIN events : events[i] = events[j] => i = j

Known(e) ==
  e.id \in DOMAIN events \/ (DedupeByContent /\ e.content \in DOMAIN idByContent)

Origins ==
  /\ \A i \in DOMAIN events :
       \E n \in DOMAIN fetched : fetched[n].id = i /\ fetched[n].content = events[i]
  /\ \A n \in DOMAIN fetched : Known(fetched[n])

Counted ==
  /\ duplicatesIgnored \in Nat /\ conflictsDetected \in Nat
  /\ Len(fetched) = Cardinality(DOMAIN events) + duplicatesIgnored + conflictsDetected

LastIsLogged ==
  LET n == Len(fetched) IN
  n \in DOMAIN fetched /\ fetched[n].id \in DOMAIN events
  /\ events[fetched[n].id] = fetched[n].content
  /\ (\E k \in 1..(n - 1) : fetched[k] = fetched[n]) /\ MaxAuditRecords > 0
    => Last(duplicateLog) = fetched[n]

Logged ==
  /\ duplicateLog \in Seq(Fetched) /\ Len(duplicateLog) <= MaxAuditRecords
  /\ LastIsLogged

OfSubject(s) == {i \in DOMAIN events : s \in Range(ProofSubjectIds(events[i]))}
OfContract(c) == {i \in DOMAIN events : events[i].contract = c}

Filed ==
  /\ bySubject \in [AllSubjects -> Seq(Ids)] /\ byContract \in [AllContracts -> Seq(Ids)]
  /\ \A s \in AllSubjects :
       /\ Range(bySubject[s]) = OfSubject(s)
       /\ \A i \in OfSubject(s) : Times(i, bySubject[s]) = Times(s, ProofSubjectIds(events[i]))
  /\ \A c \in AllContracts : IsInjective(byContract[c]) /\ Range(byContract[c]) = OfContract(c)

(* A ledger with an event or within a gap.                                 *)
Told(n) ==
  \/ \E i \in DOMAIN events : events[i].ledger = n
  \/ \E g \in DOMAIN gaps : gaps[g][1] <= n /\ n <= gaps[g][2]

GapsTold ==
  /\ gaps \in Seq(Nat \X Nat) /\ highWaterLedger \in Nat
  /\ \A i \in DOMAIN events : events[i].ledger <= highWaterLedger
  /\ highWaterLedger > 0 => \E i \in DOMAIN events : events[i].ledger = highWaterLedger
  /\ \A g \in DOMAIN gaps : gaps[g][2] < highWaterLedger
  /\ \A g, h \in DOMAIN gaps : g < h => gaps[g][2] < gaps[h][1]
  /\ fetched = << >> => events = << >> /\ highWaterLedger = 0
  /\ fetched # << >> =>
       /\ fetched[1].content.ledger <= highWaterLedger
       /\ \A n \in (fetched[1].content.ledger + 1)..(highWaterLedger - 1) : Told(n)

OneIdEach ==
  \A m, n \in DOMAIN fetched : fetched[m].content = fetched[n].content => fetched[m].id = fetched[n].id

First(n) == \A k \in 1..(n - 1) : fetched[k].id # fetched[n].id

FirstsIndexed ==
  OneIdEach =>
    /\ \A n \in DOMAIN fetched : First(n) => /\ fetched[n].id \in DOMAIN events
                                             /\ events[fetched[n].id] = fetched[n].content
    /\ \A i \in DOMAIN events : \E n \in DOMAIN fetched : First(n) /\ fetched[n].id = i

IndexInv == IndexHolds /\ Origins /\ Counted /\ Logged /\ Filed /\ GapsTold /\ FirstsIndexed

-----------------------------------------------------------------------------
(* How often a list names something.                                       *)

Places(x, list) == {n \in DOMAIN list : list[n] = x}

LEMMA TimesIs ==
  ASSUME NEW S, NEW s \in Seq(S), NEW x
  PROVE  /\ IsFiniteSet(Places(x, s)) /\ Times(x, s) = Cardinality(Places(x, s))
         /\ Times(x, s) \in Nat
         /\ Times(x, s) > 0 <=> x \in Range(s)
         /\ IsInjective(s) /\ x \in Range(s) => Times(x, s) = 1
<1>1. DOMAIN s = 1..Len(s) /\ 1 \in Int /\ Len(s) \in Int
  OBVIOUS
<1>2. IsFiniteSet(1..Len(s)) /\ Places(x, s) \in SUBSET (1..Len(s))
  BY <1>1, FS_Interval DEF Places
<1>3. IsFiniteSet(Places(x, s)) /\ Times(x, s) = Cardinality(Places(x, s)) /\ Times(x, s) \in Nat
  BY <1>2, FS_Subset, FS_CardinalityType DEF Times, Places
<1>4. Times(x, s) = 0 <=> Places(x, s) = {}
  BY <1>3, FS_EmptySet
<1>5. Places(x, s) # {} <=> x \in Range(s)
  BY DEF Places, Range
<1>6. ASSUME IsInjective(s), x \in Range(s) PROVE Times(x, s) = 1
  <2>1. PICK n \in DOMAIN s : s[n] = x
    BY <1>6 DEF Range
  <2>2. Places(x, s) = {n}
    BY <1>6, <2>1 DEF Places, IsInjective
  <2> QED BY <1>3, <2>2, FS_Singleton
<1>7. Times(x, s) > 0 <=> x \in Range(s)
  BY <1>3, <1>4, <1>5
<1> QED BY <1>3, <1>6, <1>7

(* What is not dropped stays as often as it was.                           *)
LEMMA DroppingTimes ==
  ASSUME NEW S, NEW s \in Seq(S), NEW D, NEW x, x \notin D
  PROVE  Times(x, Dropping(s, D)) = Times(x, s)
<1> DEFINE t == Dropping(s, D)
<1>1. t \in Seq(S)
  BY DroppingInOrder
<1>2. PICK at : KeptAt(s, D, Len(s), t, at)
  BY DroppingInOrder
<1> HIDE DEF t
<1>3. DOMAIN s = 1..Len(s) /\ DOMAIN t = 1..Len(t) /\ Len(t) \in Nat /\ Len(s) \in Nat
  BY <1>1
<1>4. /\ \A k \in 1..Len(t) : at[k] \in 1..Len(s) /\ t[k] = s[at[k]]
      /\ \A i \in 1..Len(s) : s[i] \notin D => \E k \in 1..Len(t) : at[k] = i
      /\ \A j, k \in 1..Len(t) : j < k => at[j] < at[k]
  BY <1>2 DEF KeptAt
<1> DEFINE f == [k \in Places(x, t) |-> at[k]]
<1>5. f \in [Places(x, t) -> Places(x, s)]
  BY <1>3, <1>4 DEF Places
<1>6. ASSUME NEW j \in Places(x, t), NEW k \in Places(x, t), f[j] = f[k] PROVE j = k
  <2>1. j \in 1..Len(t) /\ k \in 1..Len(t) /\ at[j] = at[k] /\ at[j] \in Nat
    BY <1>3, <1>4, <1>6 DEF Places
  <2>2. ~(j < k) /\ ~(k < j)
    BY <1>4, <2>1
  <2> QED BY <1>3, <2>1, <2>2
<1>7. ASSUME NEW i \in Places(x, s) PROVE \E k \in Places(x, t) : f[k] = i
  <2>1. i \in 1..Len(s) /\ s[i] = x
    BY <1>3 DEF Places
  <2>2. PICK k \in 1..Len(t) : at[k] = i
    BY <1>4, <2>1
  <2>3. k \in Places(x, t)
    BY <1>3, <1>4, <2>1, <2>2 DEF Places
  <2> QED BY <2>2, <2>3
<1> HIDE DEF f
<1>8. f \in Bijection(Places(x, t), Places(x, s))
  <2>1. f \in Injection(Places(x, t), Places(x, s))
    BY <1>5, <1>6 DEF Injection, IsInjective
  <2>2. f \in Surjection(Places(x, t), Places(x, s))
    BY <1>5, <1>7 DEF Surjection
  <2> QED BY <2>1, <2>2 DEF Bijection
<1>9. ExistsBijection(Places(x, t), Places(x, s)) /\ IsFiniteSet(Places(x, t))
  BY <1>1, <1>8, TimesIs DEF ExistsBijection
<1>10. Cardinality(Places(x, t)) = Cardinality(Places(x, s))
  BY <1>9, FS_Bijection
<1> QED BY <1>1, <1>10, TimesIs DEF t

(* A new element behind a list, m times over.                              *)
LEMMA RepeatedBehind ==
  ASSUME NEW S, NEW s \in Seq(S), NEW y \in S, y \notin Range(s), NEW m \in Nat
  PROVE  LET u == s \o [n \in 1..m |-> y] IN
         /\ u \in Seq(S)
         /\ Times(y, u) = m
         /\ \A x : x # y => Times(x, u) = Times(x, s)
         /\ Range(u) = Range(s) \cup (IF m = 0 THEN {} ELSE {y})
<1> DEFINE t == [n \in 1..m |-> y]
           u == s \o t
           l == Len(s)
<1>1. t \in Seq(S) /\ Len(t) = m /\ DOMAIN t = 1..m /\ \A k \in 1..m : t[k] = y
  OBVIOUS
<1> HIDE DEF t
<1>2. /\ u \in Seq(S) /\ DOMAIN u = 1..(l + m) /\ l \in Nat /\ DOMAIN s = 1..l
      /\ \A k \in 1..l : u[k] = s[k]
      /\ \A k \in 1..m : u[l + k] = t[k]
  BY <1>1
<1>3. Range(u) = Range(s) \cup Range(t)
  BY <1>1, JoinedElements
<1> HIDE DEF u, l
<1>4. \A k \in 1..(l + m) : k \in 1..l \/ (k \in (l + 1)..(l + m) /\ u[k] = y)
  <2> SUFFICES ASSUME NEW k \in 1..(l + m), k \notin 1..l
               PROVE  k \in (l + 1)..(l + m) /\ u[k] = y
    OBVIOUS
  <2>1. k - l \in 1..m /\ k = l + (k - l)
    BY <1>2
  <2>2. u[l + (k - l)] = y
    BY <1>1, <1>2, <2>1
  <2> QED BY <1>2, <2>1, <2>2
<1>5. \A k \in 1..l : u[k] # y /\ k \in 1..(l + m)
  BY <1>2 DEF Range
<1>6. Places(y, u) = (l + 1)..(l + m)
  <2>1. \A k \in (l + 1)..(l + m) : k \in 1..(l + m) /\ k \notin 1..l
    BY <1>2
  <2> QED BY <1>2, <1>4, <1>5, <2>1 DEF Places
<1>7. Times(y, u) = m
  <2>1. l + 1 \in Int /\ l + m \in Int
    BY <1>2
  <2>2. Cardinality((l + 1)..(l + m)) = IF l + 1 > l + m THEN 0 ELSE (l + m) - (l + 1) + 1
    BY ONLY <2>1, FS_Interval
  <2>3. Cardinality(Places(y, u)) = m
    BY <1>2, <1>6, <2>2
  <2> QED BY <1>2, <2>3, TimesIs
<1>8. \A x : x # y => Places(x, u) = Places(x, s)
  BY <1>2, <1>4, <1>5 DEF Places
<1>9. \A x : x # y => Times(x, u) = Times(x, s)
  BY <1>2, <1>8, TimesIs
<1>10. Range(t) = IF m = 0 THEN {} ELSE {y}
  <2>1. m # 0 => 1 \in 1..m
    OBVIOUS
  <2>2. m = 0 => 1..m = {}
    OBVIOUS
  <2> QED BY <1>1, <2>1, <2>2 DEF Range
<1> QED BY <1>2, <1>3, <1>7, <1>9, <1>10 DEF u, t

-----------------------------------------------------------------------------
(* What an ingested event is to the index.                                 *)

LEMMA Outcomes ==
  ASSUME NEW e \in Fetched, Ingest(e)
  PROVE  /\ fetched' = Append(fetched, e)
         /\ \/ ~Known(e) /\ Index(e)
            \/ /\ e.id \in DOMAIN events => events[e.id] = e.content
               /\ e.id \notin DOMAIN events => Known(e)
               /\ RecordDuplicate(e)
            \/ e.id \in DOMAIN events /\ events[e.id] # e.content /\ RecordConflict
<1>1. CASE e.id \in DOMAIN events /\ events[e.id] = e.content
  <2>1. OutcomeOf(e) = "same_id"
    BY <1>1 DEF OutcomeOf
  <2> QED BY <1>1, <2>1 DEF Ingest, Known
<1>2. CASE e.id \in DOMAIN events /\ events[e.id] # e.content
  <2>1. OutcomeOf(e) = "conflict"
    BY <1>2 DEF OutcomeOf
  <2> QED BY <1>2, <2>1 DEF Ingest, Known
<1>3. CASE e.id \notin DOMAIN events /\ DedupeByContent /\ e.content \in DOMAIN idByContent
  <2>1. OutcomeOf(e) = "same_content"
    BY <1>3 DEF OutcomeOf
  <2> QED BY <1>3, <2>1 DEF Ingest, Known
<1>4. CASE e.id \notin DOMAIN events /\ ~(DedupeByContent /\ e.content \in DOMAIN idByContent)
  <2>1. OutcomeOf(e) = "indexed"
    BY <1>4 DEF OutcomeOf
  <2> QED BY <1>4, <2>1 DEF Ingest, Known
<1> QED BY <1>1, <1>2, <1>3, <1>4

LEMMA Indexing ==
  ASSUME NEW e \in Fetched, Index(e), e.id \notin DOMAIN events
  PROVE  /\ DOMAIN events' = DOMAIN events \cup {e.id}
         /\ events' = [i \in DOMAIN events' |-> IF i = e.id THEN e.content ELSE events[i]]
         /\ events'[e.id] = e.content
         /\ \A i \in DOMAIN events : i # e.id /\ events'[i] = events[i]
         /\ DOMAIN idByContent' = DOMAIN idByContent \cup {e.content}
         /\ \A c \in DOMAIN idByContent : idByContent'[c] = idByContent[c]
         /\ e.content \notin DOMAIN idByContent => idByContent'[e.content] = e.id
BY DEF Index, Put

LEMMA FetchedMore ==
  ASSUME NEW e \in Fetched, fetched \in Seq(Fetched), fetched' = Append(fetched, e)
  PROVE  /\ fetched' \in Seq(Fetched) /\ Len(fetched) \in Nat /\ Len(fetched') = Len(fetched) + 1
         /\ DOMAIN fetched = 1..Len(fetched) /\ DOMAIN fetched' = 1..(Len(fetched) + 1)
         /\ fetched'[Len(fetched) + 1] = e
         /\ \A n \in DOMAIN fetched : fetched'[n] = fetched[n]
         /\ fetched' # << >>
OBVIOUS

LEMMA FetchedKinds ==
  /\ \A e \in Fetched : e.content \in Contents /\ e.id \in Ids /\ e.id \in Nat
  /\ \A c \in Contents : /\ c.ledger \in Nat \ {0} /\ c.contract \in AllContracts
                         /\ c.subjects \in Seq(ToSet(c.subjects))
                         /\ ToSet(c.subjects) \subseteq AllSubjects
  /\ \A c \in Contents : /\ ProofSubjectIds(c) \in Seq(AllSubjects)
                         /\ IsProof(c) => ProofSubjectIds(c) = c.subjects
<1>1. \A e \in Fetched : e.content \in Contents /\ e.id \in Ids /\ e.id \in Nat
  BY IndexerConstants DEF Contents, Ids
<1>2. ASSUME NEW c \in Contents
      PROVE  /\ c.ledger \in Nat \ {0} /\ c.contract \in AllContracts
             /\ c.subjects \in Seq(ToSet(c.subjects))
             /\ ToSet(c.subjects) \subseteq AllSubjects
  <2>1. PICK e \in Fetched : c = e.content
    BY DEF Contents
  <2>2. c.ledger \in Nat \ {0} /\ c.subjects \in Seq(ToSet(c.subjects))
    BY <2>1, IndexerConstants
  <2> QED BY <2>2 DEF AllContracts, AllSubjects
<1>3. ASSUME NEW c \in Contents
      PROVE  /\ ProofSubjectIds(c) \in Seq(AllSubjects)
             /\ IsProof(c) => ProofSubjectIds(c) = c.subjects
  <2>1. c.subjects \in Seq(AllSubjects)
    BY <1>2
  <2>2. << >> \in Seq(AllSubjects)
    OBVIOUS
  <2> QED BY <2>1, <2>2 DEF ProofSubjectIds
<1> QED BY <1>1, <1>2, <1>3

LEMMA IndexHoldsStep ==
  ASSUME IndexHolds, NEW e \in Fetched, Ingest(e)
  PROVE  IndexHolds'
<1>1. fetched' \in Seq(Fetched)
  BY Outcomes, FetchedMore DEF IndexHolds
<1>2. CASE ~Known(e) /\ Index(e)
  <2>1. e.id \notin DOMAIN events
    BY <1>2 DEF Known
  <2>2. /\ DOMAIN events' = DOMAIN events \cup {e.id}
        /\ events' = [i \in DOMAIN events' |-> IF i = e.id THEN e.content ELSE events[i]]
        /\ events'[e.id] = e.content
        /\ \A i \in DOMAIN events : i # e.id /\ events'[i] = events[i]
        /\ DOMAIN idByContent' = DOMAIN idByContent \cup {e.content}
        /\ \A c \in DOMAIN idByContent : idByContent'[c] = idByContent[c]
        /\ e.content \notin DOMAIN idByContent => idByContent'[e.content] = e.id
    BY <1>2, <2>1, Indexing
  <2>3. /\ events' \in [DOMAIN events' -> Contents] /\ DOMAIN events' \subseteq Ids
    BY <2>2, FetchedKinds DEF IndexHolds
  <2>4. IsFiniteSet(DOMAIN events')
    BY <2>2, FS_AddElement DEF IndexHolds
  <2>5. idByContent' \in [DOMAIN idByContent' -> DOMAIN events'] /\ DOMAIN idByContent' \subseteq Contents
    <3>1. DOMAIN idByContent' \subseteq Contents
      BY <2>2, FetchedKinds DEF IndexHolds
    <3>2. CASE e.content \in DOMAIN idByContent
      <4>1. idByContent' = idByContent
        BY <1>2, <3>2 DEF Index
      <4> QED BY <4>1, <3>1, <2>2 DEF IndexHolds
    <3>3. CASE e.content \notin DOMAIN idByContent
      <4>1. idByContent' = [x \in DOMAIN idByContent \cup {e.content} |->
                              IF x = e.content THEN e.id ELSE idByContent[x]]
        BY <1>2, <3>3 DEF Index, Put
      <4> QED BY <4>1, <3>1, <2>2 DEF IndexHolds
    <3> QED BY <3>2, <3>3
  <2>6. \A c \in DOMAIN idByContent' : events'[idByContent'[c]] = c
    <3> SUFFICES ASSUME NEW c \in DOMAIN idByContent' PROVE events'[idByContent'[c]] = c
      OBVIOUS
    <3>1. CASE c \in DOMAIN idByContent
      <4>1. idByContent[c] \in DOMAIN events
        BY <3>1 DEF IndexHolds
      <4> QED BY <3>1, <4>1, <2>2 DEF IndexHolds
    <3>2. CASE c \notin DOMAIN idByContent
      BY <3>2, <2>2
    <3> QED BY <3>1, <3>2
  <2>7. \A i \in DOMAIN events' : events'[i] \in DOMAIN idByContent'
    BY <2>2 DEF IndexHolds
  <2>8. ASSUME DedupeByContent, NEW i \in DOMAIN events', NEW j \in DOMAIN events', events'[i] = events'[j]
        PROVE  i = j
    <3>1. e.content \notin DOMAIN idByContent
      BY <1>2, <2>8 DEF Known
    <3>2. \A k \in DOMAIN events : events[k] # e.content
      BY <3>1 DEF IndexHolds
    <3> QED BY <2>2, <2>8, <3>2 DEF IndexHolds
  <2> QED BY <1>1, <2>3, <2>4, <2>5, <2>6, <2>7, <2>8 DEF IndexHolds
<1>3. CASE UNCHANGED <<events, idByContent>>
  BY <1>1, <1>3 DEF IndexHolds
<1> QED BY <1>2, <1>3, Outcomes DEF RecordDuplicate, RecordConflict

LEMMA OriginsStep ==
  ASSUME IndexHolds, Origins, NEW e \in Fetched, Ingest(e)
  PROVE  Origins'
<1>1. fetched \in Seq(Fetched) /\ fetched' = Append(fetched, e)
  BY Outcomes DEF IndexHolds
<1>2. /\ Len(fetched) \in Nat
      /\ DOMAIN fetched = 1..Len(fetched) /\ DOMAIN fetched' = 1..(Len(fetched) + 1)
      /\ fetched'[Len(fetched) + 1] = e
      /\ \A n \in DOMAIN fetched : fetched'[n] = fetched[n]
  BY <1>1, FetchedMore
<1>3. CASE ~Known(e) /\ Index(e)
  <2>1. e.id \notin DOMAIN events
    BY <1>3 DEF Known
  <2>2. /\ DOMAIN events' = DOMAIN events \cup {e.id}
        /\ events'[e.id] = e.content
        /\ \A i \in DOMAIN events : i # e.id /\ events'[i] = events[i]
        /\ DOMAIN idByContent' = DOMAIN idByContent \cup {e.content}
    BY <1>3, <2>1, Indexing
  <2>3. ASSUME NEW i \in DOMAIN events'
        PROVE  \E n \in DOMAIN fetched' : fetched'[n].id = i /\ fetched'[n].content = events'[i]
    <3>1. CASE i = e.id
      BY <3>1, <1>2, <2>2
    <3>2. CASE i # e.id
      <4>1. i \in DOMAIN events /\ events'[i] = events[i]
        BY <3>2, <2>2
      <4>2. PICK n \in DOMAIN fetched : fetched[n].id = i /\ fetched[n].content = events[i]
        BY <4>1 DEF Origins
      <4> QED BY <4>1, <4>2, <1>2
    <3> QED BY <3>1, <3>2
  <2>4. \A n \in DOMAIN fetched' :
          \/ fetched'[n].id \in DOMAIN events'
          \/ DedupeByContent /\ fetched'[n].content \in DOMAIN idByContent'
    BY <1>2, <2>2 DEF Origins, Known
  <2> QED BY <2>3, <2>4 DEF Origins, Known
<1>4. CASE Known(e) /\ UNCHANGED <<events, idByContent>>
  <2>1. ASSUME NEW i \in DOMAIN events
        PROVE  \E n \in DOMAIN fetched' : fetched'[n].id = i /\ fetched'[n].content = events[i]
    <3>1. PICK n \in DOMAIN fetched : fetched[n].id = i /\ fetched[n].content = events[i]
      BY DEF Origins
    <3> QED BY <3>1, <1>2
  <2>2. \A n \in DOMAIN fetched' : Known(fetched'[n])
    BY <1>2, <1>4 DEF Origins
  <2> QED BY <1>4, <2>1, <2>2 DEF Origins, Known
<1>5. (~Known(e) /\ Index(e)) \/ (Known(e) /\ UNCHANGED <<events, idByContent>>)
  BY Outcomes DEF RecordDuplicate, RecordConflict, Known
<1> QED BY <1>3, <1>4, <1>5

LEMMA CountedStep ==
  ASSUME IndexHolds, Counted, NEW e \in Fetched, Ingest(e)
  PROVE  Counted'
<1>1. Len(fetched) \in Nat /\ Len(fetched') = Len(fetched) + 1
  BY Outcomes, FetchedMore DEF IndexHolds
<1>2. Cardinality(DOMAIN events) \in Nat
  BY FS_CardinalityType DEF IndexHolds
<1>3. CASE ~Known(e) /\ Index(e)
  <2>1. e.id \notin DOMAIN events
    BY <1>3 DEF Known
  <2>2. DOMAIN events' = DOMAIN events \cup {e.id}
    BY <1>3, <2>1, Indexing
  <2>3. Cardinality(DOMAIN events') = Cardinality(DOMAIN events) + 1
    BY <2>1, <2>2, FS_AddElement DEF IndexHolds
  <2> QED BY <1>1, <1>2, <1>3, <2>3 DEF Index, Counted
<1>4. CASE RecordDuplicate(e)
  BY <1>1, <1>2, <1>4 DEF RecordDuplicate, Counted
<1>5. CASE RecordConflict
  BY <1>1, <1>2, <1>5 DEF RecordConflict, Counted
<1> QED BY <1>3, <1>4, <1>5, Outcomes

(* What is pushed is the last of the log, which keeps its bound.           *)
LEMMA PushedLast ==
  ASSUME NEW S, NEW log \in Seq(S), NEW r \in S, Len(log) <= MaxAuditRecords
  PROVE  LET t == PushBounded(log, r) IN
         /\ t \in Seq(S) /\ Len(t) <= MaxAuditRecords
         /\ MaxAuditRecords > 0 => Last(t) = r
<1> DEFINE all == Append(log, r)
           n == Len(all)
           m == IF n > MaxAuditRecords THEN n - MaxAuditRecords + 1 ELSE 1
           t == SubSeq(all, m, n)
<1>1. all \in Seq(S) /\ n \in Nat /\ n = Len(log) + 1 /\ all[n] = r /\ MaxAuditRecords \in Nat
  BY IndexerConstants
<1>2. m \in 1..(n + 1) /\ n - m + 1 <= MaxAuditRecords
  BY <1>1
<1> HIDE DEF all, m
<1>3. /\ t \in Seq(S) /\ Len(t) = n - m + 1
      /\ \A k \in 1..(n - m + 1) : t[k] = all[m + k - 1]
  BY <1>1, <1>2
<1>4. ASSUME MaxAuditRecords > 0 PROVE Last(t) = r
  <2>1. n - m + 1 \in 1..(n - m + 1) /\ m + (n - m + 1) - 1 = n
    BY <1>1, <1>2, <1>4 DEF m
  <2>2. t[n - m + 1] = r
    BY <1>1, <1>3, <2>1
  <2> QED BY <1>3, <2>2 DEF Last
<1>5. PushBounded(log, r) = t
  BY DEF PushBounded, all, m
<1> QED BY <1>1, <1>2, <1>3, <1>4, <1>5

LEMMA LoggedStep ==
  ASSUME IndexHolds, Origins, Logged, NEW e \in Fetched, Ingest(e)
  PROVE  Logged'
<1>1. fetched \in Seq(Fetched) /\ fetched' = Append(fetched, e)
  BY Outcomes DEF IndexHolds
<1>2. /\ Len(fetched) \in Nat /\ Len(fetched') = Len(fetched) + 1
      /\ DOMAIN fetched = 1..Len(fetched) /\ DOMAIN fetched' = 1..(Len(fetched) + 1)
      /\ fetched'[Len(fetched) + 1] = e
      /\ \A n \in DOMAIN fetched : fetched'[n] = fetched[n]
  BY <1>1, FetchedMore
<1>3. CASE ~Known(e) /\ Index(e)
  <2>1. \A k \in 1..Len(fetched) : fetched[k] # e
    BY <1>2, <1>3 DEF Origins
  <2>2. \A k \in 1..Len(fetched) : fetched'[k] # e
    BY <1>2, <2>1
  <2>3. LastIsLogged'
    BY <1>2, <2>2 DEF LastIsLogged
  <2> QED BY <1>3, <2>3 DEF Logged, Index
<1>4. CASE RecordDuplicate(e)
  <2>1. duplicateLog' = PushBounded(duplicateLog, e)
    BY <1>4 DEF RecordDuplicate
  <2>2. /\ duplicateLog' \in Seq(Fetched) /\ Len(duplicateLog') <= MaxAuditRecords
        /\ MaxAuditRecords > 0 => Last(duplicateLog') = e
    BY <2>1, PushedLast DEF Logged
  <2>3. LastIsLogged'
    BY <1>2, <2>2 DEF LastIsLogged
  <2> QED BY <2>2, <2>3 DEF Logged
<1>5. CASE events[e.id] # e.content /\ RecordConflict
  <2>1. LastIsLogged'
    BY <1>2, <1>5 DEF LastIsLogged, RecordConflict
  <2> QED BY <1>5, <2>1 DEF Logged, RecordConflict
<1> QED BY <1>3, <1>4, <1>5, Outcomes

LEMMA FiledStep ==
  ASSUME IndexHolds, Filed, NEW e \in Fetched, Ingest(e)
  PROVE  Filed'
<1> DEFINE c0 == e.content
<1>1. CASE ~Known(e) /\ Index(e)
  <2>1. e.id \notin DOMAIN events
    BY <1>1 DEF Known
  <2>2. /\ DOMAIN events' = DOMAIN events \cup {e.id}
        /\ events'[e.id] = c0
        /\ \A i \in DOMAIN events : i # e.id /\ events'[i] = events[i]
    BY <1>1, <2>1, Indexing
  <2>3. /\ e.id \in Ids /\ c0.contract \in AllContracts
        /\ ProofSubjectIds(c0) \in Seq(AllSubjects)
    BY FetchedKinds
  <2>4. /\ bySubject' = [s \in AllSubjects |->
                           bySubject[s] \o [n \in 1..Times(s, ProofSubjectIds(c0)) |-> e.id]]
        /\ byContract' = [byContract EXCEPT ![c0.contract] = Append(@, e.id)]
    BY <1>1 DEF Index
  <2>5. \A s \in AllSubjects : e.id \notin Range(bySubject[s])
    BY <2>1 DEF Filed, OfSubject
  <2>6. \A c \in AllContracts : e.id \notin Range(byContract[c])
    BY <2>1 DEF Filed, OfContract
  <2>7. ASSUME NEW s \in AllSubjects
        PROVE  /\ bySubject'[s] \in Seq(Ids)
               /\ Range(bySubject'[s]) = OfSubject(s)'
               /\ \A i \in OfSubject(s)' :
                    Times(i, bySubject'[s]) = Times(s, ProofSubjectIds(events'[i]))
    <3> DEFINE m == Times(s, ProofSubjectIds(c0))
    <3>1. /\ bySubject[s] \in Seq(Ids) /\ Range(bySubject[s]) = OfSubject(s)
          /\ \A i \in OfSubject(s) : Times(i, bySubject[s]) = Times(s, ProofSubjectIds(events[i]))
      BY DEF Filed
    <3>2. m \in Nat /\ (m > 0 <=> s \in Range(ProofSubjectIds(c0)))
      BY <2>3, TimesIs
    <3>3. OfSubject(s)' = OfSubject(s) \cup (IF s \in Range(ProofSubjectIds(c0)) THEN {e.id} ELSE {})
      BY <2>2 DEF OfSubject
    <3>4. bySubject'[s] = bySubject[s] \o [n \in 1..m |-> e.id]
      BY <2>4
    <3> HIDE DEF m
    <3>5. /\ bySubject'[s] \in Seq(Ids)
          /\ Times(e.id, bySubject'[s]) = m
          /\ \A i : i # e.id => Times(i, bySubject'[s]) = Times(i, bySubject[s])
          /\ Range(bySubject'[s]) = Range(bySubject[s]) \cup (IF m = 0 THEN {} ELSE {e.id})
      <4> DEFINE q == bySubject[s]
                 y == e.id
      <4>1. q \in Seq(Ids) /\ y \in Ids /\ y \notin Range(q) /\ m \in Nat
        BY <2>3, <2>5, <3>1, <3>2
      <4>2. bySubject'[s] = q \o [n \in 1..m |-> y]
        BY <3>4
      <4> HIDE DEF q, y
      <4>3. LET u == q \o [n \in 1..m |-> y] IN
            /\ u \in Seq(Ids)
            /\ Times(y, u) = m
            /\ \A x : x # y => Times(x, u) = Times(x, q)
            /\ Range(u) = Range(q) \cup (IF m = 0 THEN {} ELSE {y})
        BY <4>1, RepeatedBehind
      <4>4. /\ bySubject'[s] \in Seq(Ids)
            /\ Times(y, bySubject'[s]) = m
            /\ \A x : x # y => Times(x, bySubject'[s]) = Times(x, q)
            /\ Range(bySubject'[s]) = Range(q) \cup (IF m = 0 THEN {} ELSE {y})
        BY <4>2, <4>3
      <4> QED BY <4>4 DEF q, y
    <3>6. Range(bySubject'[s]) = OfSubject(s)'
      BY <3>1, <3>2, <3>3, <3>5
    <3>7. ASSUME NEW i \in OfSubject(s)'
          PROVE  Times(i, bySubject'[s]) = Times(s, ProofSubjectIds(events'[i]))
      <4>1. CASE i = e.id
        BY <2>2, <3>5, <4>1 DEF m
      <4>2. CASE i # e.id
        <5>1. i \in OfSubject(s)
          BY <3>3, <4>2
        <5>2. events'[i] = events[i]
          BY <2>2, <5>1 DEF OfSubject
        <5> QED BY <3>1, <3>5, <4>2, <5>1, <5>2
      <4> QED BY <4>1, <4>2
    <3> QED BY <3>5, <3>6, <3>7
  <2>8. ASSUME NEW c \in AllContracts
        PROVE  /\ byContract'[c] \in Seq(Ids) /\ IsInjective(byContract'[c])
               /\ Range(byContract'[c]) = OfContract(c)'
    <3>1. byContract[c] \in Seq(Ids) /\ IsInjective(byContract[c]) /\ Range(byContract[c]) = OfContract(c)
      BY DEF Filed
    <3>2. OfContract(c)' = OfContract(c) \cup (IF c0.contract = c THEN {e.id} ELSE {})
      BY <2>2 DEF OfContract
    <3>3. CASE c0.contract = c
      <4>1. byContract'[c] = Append(byContract[c], e.id)
        BY <2>4, <3>3 DEF Filed
      <4>2. /\ Append(byContract[c], e.id) \in Seq(Ids)
            /\ Range(Append(byContract[c], e.id)) = Range(byContract[c]) \cup {e.id}
            /\ IsInjective(Append(byContract[c], e.id))
        BY <2>3, <2>6, <3>1, AppendElement
      <4> QED BY <3>1, <3>2, <3>3, <4>1, <4>2
    <3>4. CASE c0.contract # c
      <4>1. byContract'[c] = byContract[c]
        BY <2>4, <3>4 DEF Filed
      <4> QED BY <3>1, <3>2, <3>4, <4>1
    <3> QED BY <3>3, <3>4
  <2>9. bySubject' \in [AllSubjects -> Seq(Ids)]
    BY <2>4, <2>7
  <2>10. byContract' \in [AllContracts -> Seq(Ids)]
    <3>1. DOMAIN byContract' = AllContracts /\ byContract' = [c \in AllContracts |-> byContract'[c]]
      BY <2>4 DEF Filed
    <3> QED BY <2>8, <3>1
  <2> QED BY <2>7, <2>8, <2>9, <2>10 DEF Filed
<1>2. CASE UNCHANGED <<events, bySubject, byContract>>
  BY <1>2 DEF Filed, OfSubject, OfContract
<1> QED BY <1>1, <1>2, Outcomes DEF RecordDuplicate, RecordConflict

LEMMA GapsToldStep ==
  ASSUME IndexHolds, GapsTold, NEW e \in Fetched, Ingest(e)
  PROVE  GapsTold'
<1> DEFINE l == e.content.ledger
           hw == highWaterLedger
<1>1. fetched \in Seq(Fetched) /\ fetched' = Append(fetched, e)
  BY Outcomes DEF IndexHolds
<1>2. /\ Len(fetched) \in Nat /\ Len(fetched') = Len(fetched) + 1
      /\ fetched'[Len(fetched) + 1] = e /\ fetched' # << >>
      /\ DOMAIN fetched = 1..Len(fetched)
      /\ \A n \in DOMAIN fetched : fetched'[n] = fetched[n]
  BY <1>1, FetchedMore
<1>3. fetched # << >> => fetched'[1] = fetched[1]
  <2>1. fetched # << >> => 1 \in DOMAIN fetched
    BY <1>1, <1>2
  <2> QED BY <1>2, <2>1
<1>4. fetched = << >> => fetched'[1] = e
  BY <1>2
<1>5. l \in Nat \ {0} /\ hw \in Nat
  BY IndexerConstants DEF GapsTold
<1>6. \A i \in DOMAIN events : events[i].ledger \in Nat \ {0}
  BY FetchedKinds DEF IndexHolds
<1>7. CASE ~Known(e) /\ Index(e)
  <2>1. e.id \notin DOMAIN events
    BY <1>7 DEF Known
  <2>2. /\ DOMAIN events' = DOMAIN events \cup {e.id}
        /\ events'[e.id] = e.content
        /\ \A i \in DOMAIN events : i # e.id /\ events'[i] = events[i]
    BY <1>7, <2>1, Indexing
  <2>3. highWaterLedger' = IF l > hw THEN l ELSE hw
    BY <1>7 DEF Index
  <2>4. gaps' = IF hw > 0 /\ l > hw + 1 THEN Append(gaps, <<hw + 1, l - 1>>) ELSE gaps
    BY <1>7 DEF Index, Leaps
  <2>5. \A i \in DOMAIN events' : events'[i].ledger <= highWaterLedger'
    BY <1>5, <1>6, <2>2, <2>3 DEF GapsTold
  <2>6. \E i \in DOMAIN events' : events'[i].ledger = highWaterLedger'
    <3>1. CASE l > hw
      BY <3>1, <2>2, <2>3
    <3>2. CASE ~(l > hw)
      <4>1. hw > 0
        BY <1>5, <3>2
      <4>2. PICK i \in DOMAIN events : events[i].ledger = hw
        BY <4>1 DEF GapsTold
      <4> QED BY <3>2, <4>2, <2>2, <2>3
    <3> QED BY <3>1, <3>2
  <2>7. \A n : Told(n) => Told(n)'
    <3> SUFFICES ASSUME NEW n, Told(n) PROVE Told(n)'
      OBVIOUS
    <3>1. CASE \E i \in DOMAIN events : events[i].ledger = n
      BY <3>1, <2>2 DEF Told
    <3>2. CASE \E g \in DOMAIN gaps : gaps[g][1] <= n /\ n <= gaps[g][2]
      <4>1. PICK g \in DOMAIN gaps : gaps[g][1] <= n /\ n <= gaps[g][2]
        BY <3>2
      <4>2. gaps' = gaps \/ gaps' = Append(gaps, <<hw + 1, l - 1>>)
        BY <2>4
      <4>3. g \in DOMAIN gaps' /\ gaps'[g] = gaps[g]
        <5>1. CASE gaps' = gaps
          BY <4>1, <5>1
        <5>2. CASE gaps' = Append(gaps, <<hw + 1, l - 1>>)
          <6>1. gaps \in Seq(Nat \X Nat)
            BY DEF GapsTold
          <6> DEFINE x == <<hw + 1, l - 1>>
          <6>2. gaps' = Append(gaps, x)
            BY <5>2
          <6> HIDE DEF x
          <6> QED BY <4>1, <6>1, <6>2
        <5> QED BY <4>2, <5>1, <5>2
      <4> QED BY <4>1, <4>3 DEF Told
    <3> QED BY <3>1, <3>2 DEF Told
  <2>8. CASE hw > 0 /\ l > hw + 1
    <3> DEFINE gap == <<hw + 1, l - 1>>
               k == Len(gaps) + 1
    <3>1. gap \in Nat \X Nat /\ gap[1] = hw + 1 /\ gap[2] = l - 1
      BY <1>5, <2>8
    <3>2. gaps' = Append(gaps, gap)
      BY <2>4, <2>8
    <3> HIDE DEF gap
    <3>3. /\ gaps' \in Seq(Nat \X Nat) /\ Len(gaps) \in Nat
          /\ DOMAIN gaps = 1..Len(gaps) /\ DOMAIN gaps' = 1..k
          /\ gaps'[k] = gap /\ \A g \in DOMAIN gaps : gaps'[g] = gaps[g]
      BY <3>1, <3>2 DEF GapsTold
    <3> HIDE DEF k
    <3>4. \A g \in DOMAIN gaps : gaps[g] \in Nat \X Nat /\ gaps[g][2] \in Nat
      BY DEF GapsTold
    <3>5. \A g \in DOMAIN gaps' : g \in DOMAIN gaps \/ g = k
      BY <3>3 DEF k
    <3>6. highWaterLedger' = l
      BY <1>5, <2>3, <2>8
    <3>7. ASSUME NEW g \in DOMAIN gaps' PROVE gaps'[g][2] < highWaterLedger'
      <4>1. CASE g \in DOMAIN gaps
        <5>1. gaps[g][2] < hw /\ gaps[g][2] \in Nat /\ gaps'[g] = gaps[g]
          BY <3>3, <3>4, <4>1 DEF GapsTold
        <5> QED BY <1>5, <2>8, <3>6, <5>1
      <4>2. CASE g = k
        BY <1>5, <3>1, <3>3, <3>6, <4>2
      <4> QED BY <3>5, <4>1, <4>2
    <3>8. ASSUME NEW g \in DOMAIN gaps', NEW h \in DOMAIN gaps', g < h
          PROVE  gaps'[g][2] < gaps'[h][1]
      <4>1. g \in DOMAIN gaps
        BY <3>3, <3>8 DEF k
      <4>2. gaps[g][2] < hw /\ gaps[g][2] \in Nat /\ gaps'[g] = gaps[g]
        BY <3>3, <3>4, <4>1 DEF GapsTold
      <4>3. CASE h \in DOMAIN gaps
        BY <3>3, <3>8, <4>1, <4>2, <4>3 DEF GapsTold
      <4>4. CASE h = k
        BY <1>5, <3>1, <3>3, <4>2, <4>4
      <4> QED BY <3>5, <4>3, <4>4
    <3>9. \A n \in (hw + 1)..(l - 1) : Told(n)'
      <4>1. k \in DOMAIN gaps' /\ gaps'[k][1] = hw + 1 /\ gaps'[k][2] = l - 1
        BY <3>1, <3>3 DEF k
      <4> QED BY <1>5, <4>1 DEF Told
    <3>10. /\ fetched'[1].content.ledger <= highWaterLedger'
           /\ \A n \in (fetched'[1].content.ledger + 1)..(highWaterLedger' - 1) : Told(n)'
      <4>1. fetched # << >>
        BY <2>8 DEF GapsTold
      <4> DEFINE f == fetched[1].content.ledger
      <4>2. 1 \in DOMAIN fetched /\ fetched[1] \in Fetched
        BY <1>1, <4>1
      <4>3. f \in Nat /\ f <= hw /\ fetched'[1].content.ledger = f
        BY <1>3, <4>1, <4>2, IndexerConstants DEF GapsTold
      <4>4. ASSUME NEW n \in (f + 1)..(l - 1) PROVE Told(n)'
        <5>1. CASE n < hw
          <6>1. n \in (f + 1)..(hw - 1)
            BY <1>5, <4>3, <5>1
          <6>2. Told(n)
            BY <4>1, <6>1 DEF GapsTold
          <6> QED BY <2>7, <6>2
        <5>2. CASE n = hw
          <6>1. Told(hw)
            BY <2>8 DEF GapsTold, Told
          <6> QED BY <2>7, <5>2, <6>1
        <5>3. CASE n > hw
          <6>1. n \in (hw + 1)..(l - 1)
            BY <1>5, <4>3, <5>3
          <6> QED BY <3>9, <6>1
        <5> QED BY <1>5, <4>3, <5>1, <5>2, <5>3
      <4> HIDE DEF f
      <4> QED BY <1>5, <2>8, <3>6, <4>3, <4>4
    <3> QED BY <1>2, <1>5, <2>5, <2>6, <3>3, <3>6, <3>7, <3>8, <3>10 DEF GapsTold
  <2>9. CASE ~(hw > 0 /\ l > hw + 1)
    <3>1. gaps' = gaps
      BY <2>4, <2>9
    <3>2. highWaterLedger' \in Nat /\ hw <= highWaterLedger' /\ l <= highWaterLedger'
      BY <1>5, <2>3
    <3>3. ASSUME NEW g \in DOMAIN gaps PROVE gaps[g][2] < highWaterLedger'
      <4>1. gaps[g][2] < hw /\ gaps[g] \in Nat \X Nat /\ gaps[g][2] \in Nat
        BY DEF GapsTold
      <4> QED BY <1>5, <3>2, <4>1
    <3>4. /\ fetched'[1].content.ledger <= highWaterLedger'
          /\ \A n \in (fetched'[1].content.ledger + 1)..(highWaterLedger' - 1) : Told(n)'
      <4>1. CASE fetched = << >>
        <5>1. hw = 0 /\ fetched'[1] = e
          BY <1>4, <4>1 DEF GapsTold
        <5>2. highWaterLedger' = l
          BY <1>5, <2>3, <5>1
        <5> QED BY <1>5, <5>1, <5>2
      <4>2. CASE fetched # << >>
        <5> DEFINE f == fetched[1].content.ledger
        <5>1. 1 \in DOMAIN fetched /\ fetched[1] \in Fetched
          BY <1>1, <4>2
        <5>2. f \in Nat \ {0} /\ f <= hw /\ fetched'[1].content.ledger = f
          BY <1>3, <4>2, <5>1, IndexerConstants DEF GapsTold
        <5>3. ASSUME NEW n \in (f + 1)..(highWaterLedger' - 1) PROVE Told(n)'
          <6>1. CASE n < hw
            <7>1. n \in (f + 1)..(hw - 1)
              BY <1>5, <5>2, <6>1
            <7>2. Told(n)
              BY <4>2, <7>1 DEF GapsTold
            <7> QED BY <2>7, <7>2
          <6>2. CASE n = hw
            <7>1. hw > 0
              BY <1>5, <5>2
            <7>2. Told(hw)
              BY <7>1 DEF GapsTold, Told
            <7> QED BY <2>7, <6>2, <7>2
          <6>3. CASE n > hw
            BY <1>5, <2>3, <2>9, <5>2, <6>3
          <6> QED BY <1>5, <5>2, <6>1, <6>2, <6>3
        <5>4. f <= highWaterLedger'
          BY <1>5, <3>2, <5>2
        <5> QED BY <5>2, <5>3, <5>4
      <4> QED BY <4>1, <4>2
    <3>5. /\ gaps' \in Seq(Nat \X Nat)
          /\ \A g, h \in DOMAIN gaps' : g < h => gaps'[g][2] < gaps'[h][1]
      BY <3>1 DEF GapsTold
    <3> QED BY <1>2, <2>5, <2>6, <3>1, <3>2, <3>3, <3>4, <3>5 DEF GapsTold
  <2> QED BY <2>8, <2>9
<1>8. CASE Known(e) /\ UNCHANGED <<events, gaps, highWaterLedger>>
  <2>1. fetched # << >>
    <3>1. DOMAIN events # {}
      BY <1>8 DEF Known, IndexHolds
    <3>2. events # << >>
      BY <3>1
    <3> QED BY <3>2 DEF GapsTold
  <2>2. \A n : Told(n) <=> Told(n)'
    BY <1>8 DEF Told
  <2> QED BY <1>2, <1>3, <1>8, <2>1, <2>2 DEF GapsTold
<1>9. (~Known(e) /\ Index(e)) \/ (Known(e) /\ UNCHANGED <<events, gaps, highWaterLedger>>)
  BY Outcomes DEF RecordDuplicate, RecordConflict, Known
<1> QED BY <1>7, <1>8, <1>9

LEMMA FirstsIndexedStep ==
  ASSUME IndexHolds, Origins, FirstsIndexed, NEW e \in Fetched, Ingest(e)
  PROVE  FirstsIndexed'
<1>0. PICK n0 : n0 = Len(fetched) + 1
  OBVIOUS
<1>1. fetched \in Seq(Fetched) /\ fetched' = Append(fetched, e)
  BY Outcomes DEF IndexHolds
<1>2. /\ Len(fetched) \in Nat /\ Len(fetched') = Len(fetched) + 1
      /\ DOMAIN fetched = 1..Len(fetched) /\ DOMAIN fetched' = 1..n0
      /\ fetched'[n0] = e /\ n0 \in 1..n0
      /\ \A n \in DOMAIN fetched : n \in DOMAIN fetched' /\ fetched'[n] = fetched[n]
  BY <1>0, <1>1, FetchedMore
<1> SUFFICES ASSUME OneIdEach'
             PROVE  /\ \A n \in DOMAIN fetched' :
                         First(n)' => /\ fetched'[n].id \in DOMAIN events'
                                      /\ events'[fetched'[n].id] = fetched'[n].content
                    /\ \A i \in DOMAIN events' : \E n \in DOMAIN fetched' : First(n)' /\ fetched'[n].id = i
  BY DEF FirstsIndexed
<1>3. OneIdEach
  BY <1>2 DEF OneIdEach
<1>4. /\ \A n \in DOMAIN fetched : First(n) => /\ fetched[n].id \in DOMAIN events
                                               /\ events[fetched[n].id] = fetched[n].content
      /\ \A i \in DOMAIN events : \E n \in DOMAIN fetched : First(n) /\ fetched[n].id = i
  BY <1>3 DEF FirstsIndexed
<1>5. \A n \in DOMAIN fetched : First(n)' <=> First(n)
  <2> SUFFICES ASSUME NEW n \in DOMAIN fetched PROVE First(n)' <=> First(n)
    OBVIOUS
  <2>1. \A k \in 1..(n - 1) : k \in DOMAIN fetched
    BY <1>2
  <2> QED BY <1>2, <2>1 DEF First
<1>6. \A n \in DOMAIN fetched' : n \in DOMAIN fetched \/ n = n0
  BY <1>2
<1>7. CASE ~Known(e) /\ Index(e)
  <2>1. e.id \notin DOMAIN events
    BY <1>7 DEF Known
  <2>2. /\ DOMAIN events' = DOMAIN events \cup {e.id}
        /\ events'[e.id] = e.content
        /\ \A i \in DOMAIN events : i # e.id /\ events'[i] = events[i]
    BY <1>7, <2>1, Indexing
  <2>3. First(n0)'
    <3>1. ASSUME NEW k \in 1..(n0 - 1) PROVE fetched'[k].id # fetched'[n0].id
      <4>1. k \in DOMAIN fetched /\ fetched'[k] = fetched[k]
        BY <1>2
      <4>2. CASE fetched[k].id \in DOMAIN events
        BY <1>2, <2>1, <4>1, <4>2
      <4>3. CASE DedupeByContent /\ fetched[k].content \in DOMAIN idByContent
        <5> DEFINE i == idByContent[fetched[k].content]
        <5>1. i \in DOMAIN events /\ events[i] = fetched[k].content
          BY <4>3 DEF IndexHolds
        <5>2. PICK m \in DOMAIN fetched : fetched[m].id = i /\ fetched[m].content = events[i]
          BY <5>1 DEF Origins
        <5>3. fetched[m].id = fetched[k].id
          BY <1>3, <4>1, <5>1, <5>2 DEF OneIdEach
        <5>4. fetched'[n0].id = e.id /\ fetched'[k].id = fetched[k].id /\ fetched[k].id = i
          BY <1>2, <4>1, <5>2, <5>3
        <5> HIDE DEF i
        <5> QED BY <2>1, <5>1, <5>4
      <4> QED BY <4>1, <4>2, <4>3 DEF Origins, Known
    <3> QED BY <3>1 DEF First
  <2>4. ASSUME NEW i \in DOMAIN events'
        PROVE  \E n \in DOMAIN fetched' : First(n)' /\ fetched'[n].id = i
    <3>1. CASE i = e.id
      BY <1>2, <2>3, <3>1
    <3>2. CASE i \in DOMAIN events
      <4>1. PICK n \in DOMAIN fetched : First(n) /\ fetched[n].id = i
        BY <1>4, <3>2
      <4> QED BY <1>2, <1>5, <4>1
    <3> QED BY <2>2, <3>1, <3>2
  <2>5. \A n \in DOMAIN fetched' : First(n)' => /\ fetched'[n].id \in DOMAIN events'
                                                /\ events'[fetched'[n].id] = fetched'[n].content
    BY <1>2, <1>4, <1>5, <1>6, <2>2
  <2> QED BY <2>4, <2>5
<1>8. CASE Known(e) /\ UNCHANGED <<events, idByContent>>
  <2>1. ~First(n0)'
    <3>1. PICK k \in DOMAIN fetched : fetched[k].id = e.id
      <4>1. CASE e.id \in DOMAIN events
        BY <4>1 DEF Origins
      <4>2. CASE DedupeByContent /\ e.content \in DOMAIN idByContent
        <5> DEFINE i == idByContent[e.content]
        <5>1. i \in DOMAIN events /\ events[i] = e.content
          BY <4>2 DEF IndexHolds
        <5>2. PICK m \in DOMAIN fetched : fetched[m].id = i /\ fetched[m].content = events[i]
          BY <5>1 DEF Origins
        <5>3. fetched'[m].content = fetched'[n0].content /\ m \in DOMAIN fetched' /\ n0 \in DOMAIN fetched'
          BY <1>2, <5>1, <5>2
        <5>4. fetched'[m].id = fetched'[n0].id
          BY <5>3 DEF OneIdEach
        <5> QED BY <1>2, <5>2, <5>4
      <4> QED BY <1>8, <4>1, <4>2 DEF Known
    <3>2. k \in 1..(n0 - 1) /\ fetched'[k].id = fetched'[n0].id
      BY <1>2, <3>1
    <3> QED BY <3>2 DEF First
  <2>2. \A i \in DOMAIN events' : \E n \in DOMAIN fetched' : First(n)' /\ fetched'[n].id = i
    <3> SUFFICES ASSUME NEW i \in DOMAIN events'
                 PROVE  \E n \in DOMAIN fetched' : First(n)' /\ fetched'[n].id = i
      OBVIOUS
    <3>1. PICK n \in DOMAIN fetched : First(n) /\ fetched[n].id = i
      BY <1>4, <1>8
    <3> QED BY <1>2, <1>5, <3>1
  <2> QED BY <1>2, <1>4, <1>5, <1>6, <1>8, <2>1, <2>2
<1>9. (~Known(e) /\ Index(e)) \/ (Known(e) /\ UNCHANGED <<events, idByContent>>)
  BY Outcomes DEF RecordDuplicate, RecordConflict, Known
<1> QED BY <1>7, <1>8, <1>9

-----------------------------------------------------------------------------
(* What queries and the replay find.                                       *)

(* SetToSeq lists every element of a finite set, each of them once.        *)
LEMMA ListedSet ==
  ASSUME NEW S, IsFiniteSet(S)
  PROVE  SetToSeq(S) \in Seq(S) /\ IsInjective(SetToSeq(S)) /\ Range(SetToSeq(S)) = S
<1> DEFINE n == Cardinality(S)
           t == SetToSeq(S)
<1>1. n \in Nat /\ \E f \in [1..n -> S] : IsInjective(f)
  <2>1. n \in Nat /\ ExistsBijection(1..n, S)
    BY FS_CardinalityType
  <2>2. PICK f : f \in Bijection(1..n, S)
    BY <2>1 DEF ExistsBijection
  <2>3. f \in [1..n -> S] /\ IsInjective(f)
    BY <2>2 DEF Bijection, Injection, IsInjective
  <2> QED BY <2>1, <2>3
<1>2. t = CHOOSE f \in [1..n -> S] : IsInjective(f)
  BY DEF SetToSeq
<1> HIDE DEF t
<1>3. t \in [1..n -> S] /\ IsInjective(t)
  BY <1>1, <1>2
<1>4. t \in Seq(S) /\ Len(t) = n
  BY <1>1, <1>3
<1>5. Cardinality(Range(t)) = n
  BY <1>3, <1>4, InjectiveLength
<1>6. Range(t) \subseteq S
  BY <1>3 DEF Range
<1>7. Range(t) = S
  BY <1>5, <1>6, FS_Subset
<1> QED BY <1>3, <1>4, <1>7 DEF t

(* How often a query returns an event.                                     *)
Returned(i, s) == IF s = "any" THEN 1 ELSE Times(s, events[i].subjects)

LEMMA RoutesFind ==
  ASSUME IndexHolds, Filed,
         NEW s \in AllSubjects \cup {"any"}, NEW c \in AllContracts \cup {"any"}
  PROVE  /\ Route(s, c) \in Seq(Ids)
         /\ Range(Route(s, c)) \subseteq DOMAIN events
         /\ \A i \in DOMAIN events : Filtered(i, s, c) => i \in Range(Route(s, c))
         /\ \A i \in Range(Route(s, c)) :
              Filtered(i, s, c) => Times(i, Route(s, c)) = Returned(i, s)
<1>1. CASE s # "any"
  <2>1. Route(s, c) = bySubject[s] /\ s \in AllSubjects
    BY <1>1 DEF Route
  <2>2. ASSUME NEW i \in DOMAIN events, Filtered(i, s, c)
        PROVE  i \in OfSubject(s) /\ ProofSubjectIds(events[i]) = events[i].subjects
    <3>1. IsProof(events[i]) /\ s \in ToSet(events[i].subjects)
      BY <1>1, <2>2 DEF Filtered
    <3>2. ProofSubjectIds(events[i]) = events[i].subjects
      BY <3>1, FetchedKinds DEF IndexHolds
    <3> QED BY <3>1, <3>2 DEF OfSubject, ToSet, Range
  <2>3. OfSubject(s) \subseteq DOMAIN events
    BY DEF OfSubject
  <2>4. /\ bySubject[s] \in Seq(Ids) /\ Range(bySubject[s]) = OfSubject(s)
        /\ \A i \in OfSubject(s) : Times(i, bySubject[s]) = Times(s, ProofSubjectIds(events[i]))
    BY <2>1 DEF Filed
  <2> QED BY <1>1, <2>1, <2>2, <2>3, <2>4 DEF Returned
<1>2. CASE s = "any" /\ c # "any"
  <2>1. Route(s, c) = byContract[c] /\ c \in AllContracts
    BY <1>2 DEF Route
  <2>2. \A i \in DOMAIN events : Filtered(i, s, c) => i \in OfContract(c)
    BY <1>2 DEF Filtered, OfContract
  <2>3. byContract[c] \in Seq(Ids) /\ IsInjective(byContract[c]) /\ Range(byContract[c]) = OfContract(c)
    BY <2>1 DEF Filed
  <2>4. \A i \in OfContract(c) : Times(i, byContract[c]) = 1
    BY <2>3, TimesIs
  <2> QED BY <1>2, <2>1, <2>2, <2>3, <2>4 DEF OfContract, Returned
<1>3. CASE s = "any" /\ c = "any"
  <2>1. Route(s, c) = SetToSeq(DOMAIN events)
    BY <1>3 DEF Route
  <2>2. /\ SetToSeq(DOMAIN events) \in Seq(DOMAIN events) /\ IsInjective(SetToSeq(DOMAIN events))
        /\ Range(SetToSeq(DOMAIN events)) = DOMAIN events
    BY ListedSet DEF IndexHolds
  <2>3. SetToSeq(DOMAIN events) \in Seq(Ids)
    BY <2>2 DEF IndexHolds
  <2>4. \A i \in DOMAIN events : Times(i, SetToSeq(DOMAIN events)) = 1
    BY <2>2, TimesIs
  <2> QED BY <1>3, <2>1, <2>2, <2>3, <2>4 DEF Returned
<1> QED BY <1>1, <1>2, <1>3

LEMMA RoutesDoAgree ==
  ASSUME IndexHolds, Filed
  PROVE  RoutesAgree
<1> SUFFICES ASSUME NEW s \in AllSubjects \cup {"any"}, NEW c \in AllContracts \cup {"any"}
             PROVE  LET found == Query(s, c) IN
                    /\ ToSet(found) =
                         {i \in DOMAIN events :
                            /\ c # "any" => events[i].contract = c
                            /\ s # "any" => IsProof(events[i]) /\ Contains(events[i].subjects, s)}
                    /\ \A i \in ToSet(found) :
                         Times(i, found) = IF s = "any" THEN 1 ELSE Times(s, events[i].subjects)
  BY DEF RoutesAgree
<1> DEFINE r == Route(s, c)
           D == {i \in DOMAIN events : ~Filtered(i, s, c)}
           found == Dropping(r, D)
<1>1. /\ r \in Seq(Ids) /\ Range(r) \subseteq DOMAIN events
      /\ \A i \in DOMAIN events : Filtered(i, s, c) => i \in Range(r)
      /\ \A i \in Range(r) : Filtered(i, s, c) => Times(i, r) = Returned(i, s)
  BY RoutesFind
<1> HIDE DEF r
<1>2. found \in Seq(Ids) /\ Range(found) = Range(r) \ D
  BY <1>1, DroppingElements
<1>3. Range(found) = {i \in DOMAIN events : Filtered(i, s, c)}
  BY <1>1, <1>2
<1>4. ASSUME NEW i \in Range(found) PROVE Times(i, found) = Returned(i, s)
  <2>1. i \in Range(r) /\ i \notin D /\ Filtered(i, s, c)
    BY <1>2, <1>3
  <2>2. Times(i, found) = Times(i, r)
    BY <1>1, <2>1, DroppingTimes
  <2> QED BY <1>1, <2>1, <2>2
<1> HIDE DEF found
<1>5. ToSet(found) = Range(found)
  BY DEF ToSet, Range
<1>6. \A i \in DOMAIN events : s \in ToSet(events[i].subjects) <=> Contains(events[i].subjects, s)
  <2> SUFFICES ASSUME NEW i \in DOMAIN events
               PROVE  s \in ToSet(events[i].subjects) <=> Contains(events[i].subjects, s)
    OBVIOUS
  <2>1. events[i].subjects \in Seq(ToSet(events[i].subjects))
    BY FetchedKinds DEF IndexHolds
  <2>2. DOMAIN events[i].subjects = 1..Len(events[i].subjects)
    BY <2>1
  <2> QED BY <2>2 DEF ToSet, Contains
<1>7. Query(s, c) = found
  BY DEF Query, found, r
<1> QED BY <1>3, <1>4, <1>5, <1>6, <1>7 DEF Filtered, Returned

LEMMA ReplayDoesAgree ==
  ASSUME IndexHolds, GapsTold, FirstsIndexed
  PROVE  ReplayAgrees
<1>1. fetched \in Seq(Fetched) /\ DOMAIN fetched = 1..Len(fetched) /\ Len(fetched) \in Nat
  BY DEF IndexHolds
<1> SUFFICES ASSUME \A a, b \in ToSet(fetched) : a.content = b.content => a.id = b.id
             PROVE  /\ \A c \in AllContracts \cup {"any"} :
                         {e.id : e \in ReplayContractEvents(fetched, c)}
                           = {i \in DOMAIN events :
                                IsState(events[i]) /\ (c = "any" \/ events[i].contract = c)}
                    /\ (\A i \in DOMAIN events :
                          IsState(events[i]) /\ events[i].ledger >= fetched[1].content.ledger) =>
                         \A n \in ReplayGaps(ReplayContractEvents(fetched, "any")) :
                           \E g \in DOMAIN gaps : gaps[g][1] <= n /\ n <= gaps[g][2]
  BY DEF ReplayAgrees
<1>2. OneIdEach
  BY DEF OneIdEach, ToSet
<1>3. /\ \A n \in DOMAIN fetched : First(n) => /\ fetched[n].id \in DOMAIN events
                                               /\ events[fetched[n].id] = fetched[n].content
      /\ \A i \in DOMAIN events : \E n \in DOMAIN fetched : First(n) /\ fetched[n].id = i
  BY <1>2 DEF FirstsIndexed
<1>4. FirstCopies(fetched) = {fetched[n] : n \in {m \in DOMAIN fetched : First(m)}}
  BY DEF FirstCopies, First
<1>5. ASSUME NEW e \in FirstCopies(fetched)
      PROVE  e.id \in DOMAIN events /\ events[e.id] = e.content
  <2>1. PICK n \in DOMAIN fetched : First(n) /\ e = fetched[n]
    BY <1>4
  <2> QED BY <1>3, <2>1
<1>6. ASSUME NEW i \in DOMAIN events
      PROVE  \E e \in FirstCopies(fetched) : e.id = i /\ e.content = events[i]
  <2>1. PICK n \in DOMAIN fetched : First(n) /\ fetched[n].id = i
    BY <1>3
  <2>2. fetched[n].content = events[i]
    BY <1>3, <2>1
  <2>3. fetched[n] \in FirstCopies(fetched)
    BY <1>4, <2>1
  <2> QED BY <2>1, <2>2, <2>3
<1>7. ASSUME NEW c \in AllContracts \cup {"any"}
      PROVE  {e.id : e \in ReplayContractEvents(fetched, c)}
               = {i \in DOMAIN events : IsState(events[i]) /\ (c = "any" \/ events[i].contract = c)}
  <2>1. ASSUME NEW e \in ReplayContractEvents(fetched, c)
        PROVE  e.id \in {i \in DOMAIN events :
                           IsState(events[i]) /\ (c = "any" \/ events[i].contract = c)}
    BY <1>5 DEF ReplayContractEvents
  <2>2. ASSUME NEW i \in DOMAIN events, IsState(events[i]), c = "any" \/ events[i].contract = c
        PROVE  \E e \in ReplayContractEvents(fetched, c) : e.id = i
    <3>1. PICK e \in FirstCopies(fetched) : e.id = i /\ e.content = events[i]
      BY <1>6
    <3> QED BY <2>2, <3>1 DEF ReplayContractEvents
  <2> QED BY <2>1, <2>2
<1>8. ASSUME \A i \in DOMAIN events :
               IsState(events[i]) /\ events[i].ledger >= fetched[1].content.ledger,
             NEW n \in ReplayGaps(ReplayContractEvents(fetched, "any"))
      PROVE  \E g \in DOMAIN gaps : gaps[g][1] <= n /\ n <= gaps[g][2]
  <2> DEFINE ledgers == {e.content.ledger : e \in ReplayContractEvents(fetched, "any")}
  <2>1. /\ n \in 1..highWaterLedger /\ n \notin ledgers
        /\ \E l \in ledgers : l < n
        /\ \E l \in ledgers : l > n
    BY DEF ReplayGaps
  <2>2. ASSUME NEW i \in DOMAIN events PROVE events[i].ledger \in ledgers
    <3>1. PICK e \in FirstCopies(fetched) : e.id = i /\ e.content = events[i]
      BY <1>6
    <3>2. e \in ReplayContractEvents(fetched, "any")
      BY <1>8, <3>1 DEF ReplayContractEvents
    <3> QED BY <3>1, <3>2
  <2>3. ASSUME NEW l \in ledgers PROVE \E i \in DOMAIN events : events[i].ledger = l
    <3>1. PICK e \in FirstCopies(fetched) : e.content.ledger = l
      BY DEF ReplayContractEvents
    <3> QED BY <1>5, <3>1
  <2>4. \A i \in DOMAIN events : events[i].ledger \in Nat /\ events[i].ledger <= highWaterLedger
    BY FetchedKinds DEF IndexHolds, GapsTold
  <2>5. PICK i \in DOMAIN events, j \in DOMAIN events : events[i].ledger < n /\ n < events[j].ledger
    BY <2>1, <2>3, <2>4
  <2>6. fetched # << >>
    <3>1. events # << >>
      BY <2>5
    <3> QED BY <3>1 DEF GapsTold
  <2>7. fetched[1].content.ledger \in Nat
    <3>1. fetched[1] \in Fetched
      BY <1>1, <2>6
    <3> QED BY <3>1, IndexerConstants
  <2>8. n \in (fetched[1].content.ledger + 1)..(highWaterLedger - 1)
    <3>1. fetched[1].content.ledger <= events[i].ledger
      BY <1>8, <2>4, <2>7
    <3>2. n \in Nat /\ highWaterLedger \in Nat
      BY <2>1 DEF GapsTold
    <3> QED BY <2>4, <2>5, <2>7, <3>1, <3>2
  <2>9. Told(n)
    BY <2>6, <2>8 DEF GapsTold
  <2> QED BY <2>1, <2>2, <2>9 DEF Told
<1> QED BY <1>7, <1>8

(* The index is faithful: IndexIsFaithful.                                 *)
LEMMA FaithfulIndex == IndexInv => IndexIsFaithful
<1> SUFFICES ASSUME IndexInv PROVE IndexIsFaithful
  OBVIOUS
<1> USE DEF IndexInv
<1>1. IndexTypeOK
  <2>1. \A i \in DOMAIN events : events[i] \in Contents
    BY DEF IndexHolds
  <2> QED BY <2>1 DEF IndexTypeOK, IndexHolds, Filed, GapsTold, Logged, Counted
<1>2. RoutesAgree
  BY RoutesDoAgree
<1>3. EverythingAccountedFor
  BY DEF EverythingAccountedFor, IndexHolds, Counted, Logged, LastIsLogged
<1>4. GapsCoverHoles
  BY DEF GapsCoverHoles, GapsTold, Told
<1>5. ReplayAgrees
  BY ReplayDoesAgree
<1> QED BY <1>1, <1>2, <1>3, <1>4, <1>5 DEF IndexIsFaithful

LEMMA IndexInvBegins == IndexInit => IndexInv
<1> SUFFICES ASSUME IndexInit PROVE IndexInv
  OBVIOUS
<1>1. /\ fetched = << >> /\ events = << >> /\ idByContent = << >> /\ gaps = << >> /\ duplicateLog = << >>
      /\ highWaterLedger = 0 /\ duplicatesIgnored = 0 /\ conflictsDetected = 0
      /\ bySubject = [s \in AllSubjects |-> << >>] /\ byContract = [c \in AllContracts |-> << >>]
  BY DEF IndexInit
<1>2. DOMAIN fetched = {} /\ DOMAIN events = {} /\ DOMAIN idByContent = {} /\ DOMAIN gaps = {}
      /\ Len(fetched) = 0
  BY <1>1
<1>3. IndexHolds
  BY <1>1, <1>2, FS_EmptySet DEF IndexHolds
<1>4. Origins
  BY <1>2 DEF Origins
<1>5. Counted
  BY <1>1, <1>2, FS_EmptySet DEF Counted
<1>6. Logged
  BY <1>1, <1>2, IndexerConstants DEF Logged, LastIsLogged
<1>7. Filed
  <2>1. \A S : << >> \in Seq(S)
    OBVIOUS
  <2>2. IsInjective(<< >>) /\ Range(<< >>) = {}
    BY DEF IsInjective, Range
  <2> QED BY <1>1, <1>2, <2>1, <2>2 DEF Filed, OfSubject, OfContract
<1>8. GapsTold
  BY <1>1, <1>2 DEF GapsTold
<1>9. FirstsIndexed
  BY <1>2 DEF FirstsIndexed
<1> QED BY <1>3, <1>4, <1>5, <1>6, <1>7, <1>8, <1>9 DEF IndexInv

LEMMA IndexInvKept == IndexInv /\ [IndexerNext]_indexVars => IndexInv'
<1> SUFFICES ASSUME IndexInv, [IndexerNext]_indexVars PROVE IndexInv'
  OBVIOUS
<1>1. CASE IndexerNext
  <2>1. PICK e \in Fetched : Ingest(e)
    BY <1>1 DEF IndexerNext
  <2> QED BY <2>1, IndexHoldsStep, OriginsStep, CountedStep, LoggedStep, FiledStep, GapsToldStep,
             FirstsIndexedStep DEF IndexInv
<1>2. CASE UNCHANGED indexVars
  <2> USE <1>2 DEF indexVars
  <2>1. IndexHolds'
    BY DEF IndexInv, IndexHolds
  <2>2. Origins'
    BY DEF IndexInv, Origins, Known
  <2>3. Counted'
    BY DEF IndexInv, Counted
  <2>4. Logged'
    BY DEF IndexInv, Logged, LastIsLogged
  <2>5. Filed'
    BY DEF IndexInv, Filed, OfSubject, OfContract
  <2>6. GapsTold'
    BY DEF IndexInv, GapsTold, Told
  <2>7. FirstsIndexed'
    BY DEF IndexInv, FirstsIndexed, OneIdEach, First
  <2> QED BY <2>1, <2>2, <2>3, <2>4, <2>5, <2>6, <2>7 DEF IndexInv
<1> QED BY <1>1, <1>2

(* Whatever is fetched, in whatever order and however often, the routes of *)
(* a query find the same events, by subject each as often as it names the  *)
(* subject, every event is accounted for, no hole between                  *)
(* the first ledger and the latest is left out of the gaps, and the replay *)
(* of the whole agrees with the index.                                     *)
THEOREM IndexTellsTheEvents == IndexerSpec => []IndexIsFaithful
<1>1. IndexerSpec => []IndexInv
  BY IndexInvBegins, IndexInvKept, PTL DEF IndexerSpec
<1> QED BY <1>1, FaithfulIndex, PTL

-----------------------------------------------------------------------------
(* Events in their order. Copies that are merged have distinct ids, so     *)
(* that of two of them one is before the other.                            *)

Distinct(A) ==
  /\ A \subseteq RawEvents /\ IsFiniteSet(A)
  /\ \A a, b \in A : a.id = b.id => a = b

LatestOf(A, e) == e \in A /\ \A x \in A \ {e} : Before(x, e)

LEMMA OrderIsStrict ==
  ASSUME NEW a \in RawEvents, NEW b \in RawEvents, NEW c \in RawEvents
  PROVE  /\ ~Before(a, a)
         /\ Before(a, b) => ~Before(b, a)
         /\ Before(a, b) /\ Before(b, c) => Before(a, c)
         /\ a.id # b.id => Before(a, b) \/ Before(b, a)
<1>1. /\ a.id \in Nat /\ a.tx \in Nat /\ a.time \in Nat
      /\ b.id \in Nat /\ b.tx \in Nat /\ b.time \in Nat
      /\ c.id \in Nat /\ c.tx \in Nat /\ c.time \in Nat
  BY ReplayConstants
<1> QED BY <1>1 DEF Before

LEMMA DistinctParts ==
  ASSUME NEW A, Distinct(A), NEW B \in SUBSET A
  PROVE  Distinct(B) /\ Cardinality(B) \in Nat /\ Cardinality(B) <= Cardinality(A)
BY FS_Subset, FS_CardinalityType DEF Distinct

LEMMA OneLess ==
  ASSUME NEW A, Distinct(A), NEW e \in A
  PROVE  /\ Distinct(A \ {e}) /\ Cardinality(A) \in Nat \ {0}
         /\ Cardinality(A \ {e}) = Cardinality(A) - 1
<1>1. Cardinality(A) \in Nat /\ Cardinality(A \ {e}) = Cardinality(A) - 1
  BY FS_RemoveElement, FS_CardinalityType DEF Distinct
<1>2. Distinct(A \ {e}) /\ Cardinality(A \ {e}) \in Nat
  BY DistinctParts
<1> QED BY <1>1, <1>2

LEMMA SomeLatest ==
  ASSUME NEW A, Distinct(A), A # {}
  PROVE  \E e : LatestOf(A, e)
<1> DEFINE T == {n \in Nat : \A B : Distinct(B) /\ B # {} /\ Cardinality(B) = n => \E e : LatestOf(B, e)}
<1>1. 0 \in T
  BY FS_EmptySet DEF Distinct
<1>2. ASSUME NEW n \in Nat, n \in T PROVE n + 1 \in T
  <2> SUFFICES ASSUME NEW B, Distinct(B), B # {}, Cardinality(B) = n + 1
               PROVE  \E e : LatestOf(B, e)
    OBVIOUS
  <2>1. PICK b : b \in B
    OBVIOUS
  <2>2. CASE B = {b}
    BY <2>2 DEF LatestOf
  <2>3. CASE B # {b}
    <3>1. Distinct(B \ {b}) /\ Cardinality(B \ {b}) = n /\ B \ {b} # {}
      BY <2>1, <2>3, OneLess
    <3>2. PICK e : LatestOf(B \ {b}, e)
      BY <1>2, <3>1
    <3>3. /\ b \in RawEvents /\ e \in RawEvents /\ e \in B /\ e # b /\ e.id # b.id
          /\ \A x \in B : x \in RawEvents
      BY <2>1, <3>2 DEF LatestOf, Distinct
    <3>4. CASE Before(b, e)
      BY <3>2, <3>3, <3>4 DEF LatestOf
    <3>5. CASE Before(e, b)
      <4>1. ASSUME NEW x \in B \ {b} PROVE Before(x, b)
        BY <3>2, <3>3, <3>5, OrderIsStrict DEF LatestOf
      <4> QED BY <2>1, <4>1 DEF LatestOf
    <3> QED BY <3>3, <3>4, <3>5, OrderIsStrict
  <2> QED BY <2>2, <2>3
<1> HIDE DEF T
<1>3. Cardinality(A) \in T
  BY <1>1, <1>2, NumberInduction, FS_CardinalityType DEF Distinct
<1> QED BY <1>3 DEF T

-----------------------------------------------------------------------------
(* The loop of a replay.                                                   *)

Turn(A, from, lax, f, n) ==
  IF n = 0 THEN from ELSE ReplayOne(f[n - 1], Nth(A, n), lax)

LEMMA ReplayedIsLoop ==
  ASSUME NEW A, Distinct(A), NEW from, NEW lax
  PROVE  Replayed(A, from, lax)
           = [n \in 0..Cardinality(A) |-> Turn(A, from, lax, Replayed(A, from, lax), n)]
<1> DEFINE Fits(f, n) == f = [i \in 0..n |-> Turn(A, from, lax, f, i)]
           T == {n \in Nat : \E f : Fits(f, n)}
<1>1. 0 \in T
  <2> DEFINE f == [i \in 0..0 |-> from]
  <2>1. \A i \in 0..0 : Turn(A, from, lax, f, i) = from
    BY DEF Turn
  <2>2. Fits(f, 0)
    BY <2>1
  <2> QED BY <2>2
<1>2. ASSUME NEW n \in Nat, n \in T PROVE n + 1 \in T
  <2>1. PICK f : Fits(f, n)
    BY <1>2
  <2> DEFINE last == Turn(A, from, lax, f, n + 1)
             g == [i \in 0..(n + 1) |-> IF i = n + 1 THEN last ELSE f[i]]
  <2>2. ASSUME NEW i \in 0..(n + 1) PROVE g[i] = Turn(A, from, lax, g, i)
    <3>1. i # 0 => i - 1 \in 0..n /\ g[i - 1] = f[i - 1]
      OBVIOUS
    <3>2. Turn(A, from, lax, g, i) = Turn(A, from, lax, f, i)
      BY <3>1 DEF Turn
    <3>3. i # n + 1 => i \in 0..n /\ f[i] = Turn(A, from, lax, f, i)
      BY <2>1
    <3> QED BY <3>2, <3>3
  <2>3. Fits(g, n + 1)
    BY <2>2
  <2> HIDE DEF Fits, g
  <2> QED BY <2>3
<1>3. Cardinality(A) \in T
  <2> HIDE DEF T
  <2>1. Nat \subseteq T
    BY <1>1, <1>2, NumberInduction
  <2> QED BY <2>1, FS_CardinalityType DEF Distinct
<1>4. \E f : f = [i \in 0..Cardinality(A) |-> Turn(A, from, lax, f, i)]
  BY <1>3
<1> QED BY <1>4 DEF Replayed, Turn

LEMMA Turns ==
  ASSUME NEW A, Distinct(A), NEW from, NEW lax, NEW i \in 0..Cardinality(A)
  PROVE  Replayed(A, from, lax)[i] = Turn(A, from, lax, Replayed(A, from, lax), i)
<1> DEFINE f == Replayed(A, from, lax)
           n == Cardinality(A)
<1>1. f = [k \in 0..n |-> Turn(A, from, lax, f, k)]
  BY ReplayedIsLoop
<1> HIDE DEF f
<1> QED BY <1>1 DEF f

(* How many events come before one.                                        *)
Earlier(A, e) == {b \in A : Before(b, e)}

Ranked(A, n) == {d \in A : Cardinality(Earlier(A, d)) = n - 1}

LEMMA LatestRank ==
  ASSUME NEW A, Distinct(A), NEW e, LatestOf(A, e)
  PROVE  /\ Ranked(A, Cardinality(A)) = {e}
         /\ \A n \in 1..(Cardinality(A) - 1) : Ranked(A, n) = Ranked(A \ {e}, n)
<1>1. /\ e \in A /\ A \subseteq RawEvents
      /\ Cardinality(A) \in Nat \ {0} /\ Cardinality(A \ {e}) = Cardinality(A) - 1
      /\ Distinct(A \ {e})
  BY OneLess DEF LatestOf, Distinct
<1>2. Earlier(A, e) = A \ {e}
  BY <1>1, OrderIsStrict DEF LatestOf, Earlier
<1>3. ASSUME NEW d \in A \ {e}
      PROVE  /\ Earlier(A, d) = Earlier(A \ {e}, d)
             /\ Cardinality(Earlier(A, d)) < Cardinality(A) - 1
  <2>1. Before(d, e) /\ ~Before(e, d) /\ ~Before(d, d)
    BY <1>1, OrderIsStrict DEF LatestOf
  <2>2. Earlier(A, d) = Earlier(A \ {e}, d)
    BY <2>1 DEF Earlier
  <2>3. Earlier(A, d) \subseteq (A \ {e}) \ {d}
    BY <2>1 DEF Earlier
  <2>4. /\ Distinct((A \ {e}) \ {d})
        /\ Cardinality((A \ {e}) \ {d}) = Cardinality(A) - 2
    BY <1>1, OneLess
  <2>5. /\ Cardinality(Earlier(A, d)) \in Nat
        /\ Cardinality(Earlier(A, d)) <= Cardinality((A \ {e}) \ {d})
    BY <2>3, <2>4, DistinctParts
  <2> QED BY <1>1, <2>2, <2>4, <2>5
<1>4. Ranked(A, Cardinality(A)) = {e}
  <2>1. Cardinality(Earlier(A, e)) = Cardinality(A) - 1
    BY <1>1, <1>2
  <2>2. \A d \in A \ {e} : Cardinality(Earlier(A, d)) # Cardinality(A) - 1
    <3> SUFFICES ASSUME NEW d \in A \ {e}, Cardinality(Earlier(A, d)) = Cardinality(A) - 1 PROVE FALSE
      OBVIOUS
    <3>1. Cardinality(Earlier(A, d)) < Cardinality(A) - 1
      BY <1>3
    <3> QED BY <1>1, <3>1
  <2> QED BY <1>1, <2>1, <2>2 DEF Ranked
<1>5. ASSUME NEW n \in 1..(Cardinality(A) - 1) PROVE Ranked(A, n) = Ranked(A \ {e}, n)
  <2>1. Cardinality(Earlier(A, e)) # n - 1
    BY <1>1, <1>2
  <2>2. \A d \in A \ {e} : Cardinality(Earlier(A, d)) = Cardinality(Earlier(A \ {e}, d))
    BY <1>3
  <2> QED BY <2>1, <2>2 DEF Ranked
<1> QED BY <1>4, <1>5

LEMMA NthRanked ==
  ASSUME NEW A, NEW n
  PROVE  Nth(A, n) = CHOOSE e \in Ranked(A, n) : TRUE
BY DEF Nth, Ranked, Earlier

(* A replay is the step of the latest event after the replay of the others.*)
LEMMA ReplayOfNothing ==
  ASSUME NEW from, NEW lax
  PROVE  ReplayAll({}, from, lax) = from
<1>1. Distinct({}) /\ Cardinality({}) = 0
  BY FS_EmptySet DEF Distinct
<1>2. Replayed({}, from, lax)[0] = Turn({}, from, lax, Replayed({}, from, lax), 0)
  BY <1>1, ReplayedIsLoop
<1> QED BY <1>1, <1>2 DEF ReplayAll, Turn

LEMMA ReplayOfLatest ==
  ASSUME NEW A, Distinct(A), NEW e, LatestOf(A, e), NEW from, NEW lax
  PROVE  ReplayAll(A, from, lax) = ReplayOne(ReplayAll(A \ {e}, from, lax), e, lax)
<1> DEFINE B == A \ {e}
           n == Cardinality(A)
           f == Replayed(A, from, lax)
           g == Replayed(B, from, lax)
<1>1. n \in Nat \ {0} /\ Cardinality(B) = n - 1 /\ Distinct(B)
  BY OneLess DEF LatestOf
<1>2. \A i \in 0..n : f[i] = Turn(A, from, lax, f, i)
  BY Turns
<1>3. \A i \in 0..(n - 1) : g[i] = Turn(B, from, lax, g, i)
  BY <1>1, Turns
<1>4. \A i \in 1..(n - 1) : Nth(A, i) = Nth(B, i)
  <2> SUFFICES ASSUME NEW i \in 1..(n - 1) PROVE Nth(A, i) = Nth(B, i)
    OBVIOUS
  <2>1. Ranked(A, i) = Ranked(B, i)
    BY LatestRank
  <2> QED BY <2>1, NthRanked
<1>5. Nth(A, n) = e
  <2>1. Ranked(A, n) = {e}
    BY LatestRank
  <2>2. Nth(A, n) = CHOOSE x \in {e} : TRUE
    BY <2>1, NthRanked
  <2> QED BY <2>2
<1> HIDE DEF B, n, f, g
<1> DEFINE T == {i \in Nat : i <= n - 1 => f[i] = g[i]}
<1>6. 0 \in T
  <2>1. 0 \in 0..n /\ 0 \in 0..(n - 1)
    BY <1>1
  <2>2. f[0] = from /\ g[0] = from
    BY <1>2, <1>3, <2>1 DEF Turn
  <2> QED BY <2>2
<1>7. ASSUME NEW i \in Nat, i \in T PROVE i + 1 \in T
  <2> SUFFICES ASSUME i + 1 <= n - 1 PROVE f[i + 1] = g[i + 1]
    OBVIOUS
  <2>1. i + 1 \in 0..n /\ i + 1 \in 0..(n - 1) /\ i + 1 \in 1..(n - 1) /\ (i + 1) - 1 = i /\ i + 1 # 0
    BY <1>1
  <2>2. f[i] = g[i]
    BY <1>1, <1>7
  <2>3. f[i + 1] = ReplayOne(f[i], Nth(A, i + 1), lax)
    BY <1>2, <2>1 DEF Turn
  <2>4. g[i + 1] = ReplayOne(g[i], Nth(B, i + 1), lax)
    BY <1>3, <2>1 DEF Turn
  <2> QED BY <1>4, <2>1, <2>2, <2>3, <2>4
<1>8. f[n - 1] = g[n - 1]
  <2> HIDE DEF T
  <2>1. n - 1 \in T
    BY <1>1, <1>6, <1>7, NumberInduction
  <2> QED BY <1>1, <2>1 DEF T
<1>9. f[n] = ReplayOne(f[n - 1], Nth(A, n), lax)
  <2>1. n \in 0..n /\ n # 0
    BY <1>1
  <2> QED BY <1>2, <2>1 DEF Turn
<1> QED BY <1>1, <1>5, <1>8, <1>9 DEF ReplayAll, f, g, n, B

(* Events that all come after others can be replayed after them.           *)
LEMMA ReplayInParts ==
  ASSUME NEW A, NEW B, Distinct(A \cup B), \A a \in A, b \in B : Before(a, b), NEW from, NEW lax
  PROVE  ReplayAll(A \cup B, from, lax) = ReplayAll(B, ReplayAll(A, from, lax), lax)
<1> DEFINE mid == ReplayAll(A, from, lax)
           Goal(D) == ReplayAll(A \cup D, from, lax) = ReplayAll(D, mid, lax)
           T == {n \in Nat : \A D \in SUBSET B : Cardinality(D) = n => Goal(D)}
<1>1. ASSUME NEW D \in SUBSET B
      PROVE  Distinct(D) /\ Distinct(A \cup D) /\ Cardinality(D) \in Nat
  BY DistinctParts
<1>2. 0 \in T
  <2> SUFFICES ASSUME NEW D \in SUBSET B, Cardinality(D) = 0 PROVE Goal(D)
    OBVIOUS
  <2>1. D = {}
    BY <1>1, FS_EmptySet DEF Distinct
  <2>2. A \cup D = A
    BY <2>1
  <2> QED BY <2>1, <2>2, ReplayOfNothing
<1>3. ASSUME NEW n \in Nat, n \in T PROVE n + 1 \in T
  <2> SUFFICES ASSUME NEW D \in SUBSET B, Cardinality(D) = n + 1 PROVE Goal(D)
    OBVIOUS
  <2>0. Distinct(D) /\ Distinct(A \cup D)
    BY <1>1
  <2>1. D # {}
    BY FS_EmptySet
  <2>2. PICK e : LatestOf(D, e)
    BY <2>0, <2>1, SomeLatest
  <2>3. e \in D /\ Cardinality(D \ {e}) = n
    BY <2>0, <2>2, OneLess DEF LatestOf
  <2>4. Goal(D \ {e})
    BY <1>3, <2>3
  <2>5. e \notin A
    <3>1. ~Before(e, e)
      BY <2>0, <2>3, OrderIsStrict DEF Distinct
    <3> QED BY <2>3, <3>1
  <2>6. LatestOf(A \cup D, e)
    BY <2>2, <2>3 DEF LatestOf
  <2>7. (A \cup D) \ {e} = A \cup (D \ {e})
    BY <2>5
  <2>8. ReplayAll(A \cup D, from, lax) = ReplayOne(ReplayAll(A \cup (D \ {e}), from, lax), e, lax)
    BY <2>0, <2>6, <2>7, ReplayOfLatest
  <2>9. ReplayAll(D, mid, lax) = ReplayOne(ReplayAll(D \ {e}, mid, lax), e, lax)
    BY <2>0, <2>2, ReplayOfLatest
  <2> QED BY <2>4, <2>8, <2>9
<1> HIDE DEF T
<1>4. Cardinality(B) \in T
  BY <1>1, <1>2, <1>3, NumberInduction
<1> QED BY <1>4 DEF T

(* Events whose turn changes nothing can be left out.                      *)
Idles(A, D, from, lax) ==
  \A d \in A \cap D :
    ReplayOne(ReplayAll(Earlier(A, d), from, lax), d, lax) = ReplayAll(Earlier(A, d), from, lax)

LEMMA ReplayWithout ==
  ASSUME NEW A, Distinct(A), NEW D, NEW from, NEW lax, Idles(A, D, from, lax)
  PROVE  ReplayAll(A \ D, from, lax) = ReplayAll(A, from, lax)
<1> DEFINE Goal(B) == ReplayAll(B \ D, from, lax) = ReplayAll(B, from, lax)
           T == {n \in Nat : \A B : Distinct(B) /\ Idles(B, D, from, lax) /\ Cardinality(B) = n => Goal(B)}
<1>1. 0 \in T
  <2> SUFFICES ASSUME NEW B, Distinct(B), Cardinality(B) = 0 PROVE Goal(B)
    OBVIOUS
  <2>1. B = {}
    BY FS_EmptySet DEF Distinct
  <2>2. B \ D = B
    BY <2>1
  <2> QED BY <2>2
<1>2. ASSUME NEW n \in Nat, n \in T PROVE n + 1 \in T
  <2> SUFFICES ASSUME NEW B, Distinct(B), Idles(B, D, from, lax), Cardinality(B) = n + 1 PROVE Goal(B)
    OBVIOUS
  <2>1. B # {}
    BY FS_EmptySet
  <2>2. PICK e : LatestOf(B, e)
    BY <2>1, SomeLatest
  <2> DEFINE C == B \ {e}
  <2>3. e \in B /\ e \in RawEvents /\ C \subseteq RawEvents /\ Distinct(C) /\ Cardinality(C) = n
    BY <2>2, OneLess DEF LatestOf, Distinct
  <2>4. Earlier(B, e) = C
    BY <2>2, <2>3, OrderIsStrict DEF LatestOf, Earlier
  <2>5. ASSUME NEW d \in C PROVE Earlier(B, d) = Earlier(C, d)
    <3>1. ~Before(e, d)
      BY <2>2, <2>3, OrderIsStrict DEF LatestOf
    <3> QED BY <3>1 DEF Earlier
  <2>6. Idles(C, D, from, lax)
    <3> SUFFICES ASSUME NEW d \in C \cap D
                 PROVE  ReplayOne(ReplayAll(Earlier(C, d), from, lax), d, lax)
                          = ReplayAll(Earlier(C, d), from, lax)
      BY DEF Idles
    <3>1. Earlier(B, d) = Earlier(C, d)
      BY <2>5
    <3>2. ReplayOne(ReplayAll(Earlier(B, d), from, lax), d, lax) = ReplayAll(Earlier(B, d), from, lax)
      BY DEF Idles
    <3> QED BY <3>1, <3>2
  <2>7. ReplayAll(C \ D, from, lax) = ReplayAll(C, from, lax)
    BY <1>2, <2>3, <2>6
  <2>8. ReplayAll(B, from, lax) = ReplayOne(ReplayAll(C, from, lax), e, lax)
    BY <2>2, ReplayOfLatest
  <2>9. CASE e \in D
    <3>1. B \ D = C \ D
      BY <2>9
    <3>2. ReplayOne(ReplayAll(Earlier(B, e), from, lax), e, lax) = ReplayAll(Earlier(B, e), from, lax)
      BY <2>3, <2>9 DEF Idles
    <3>3. ReplayOne(ReplayAll(C, from, lax), e, lax) = ReplayAll(C, from, lax)
      BY <2>4, <3>2
    <3> QED BY <2>7, <2>8, <3>1, <3>3
  <2>10. CASE e \notin D
    <3>1. LatestOf(B \ D, e) /\ (B \ D) \ {e} = C \ D
      BY <2>2, <2>10 DEF LatestOf
    <3>2. Distinct(B \ D)
      BY DistinctParts
    <3>3. ReplayAll(B \ D, from, lax) = ReplayOne(ReplayAll((B \ D) \ {e}, from, lax), e, lax)
      BY <3>1, <3>2, ReplayOfLatest
    <3> QED BY <2>7, <2>8, <3>1, <3>3
  <2> QED BY <2>9, <2>10
<1> HIDE DEF T
<1>3. Cardinality(A) \in T
  BY <1>1, <1>2, NumberInduction, FS_CardinalityType DEF Distinct
<1> QED BY <1>3 DEF T

-----------------------------------------------------------------------------
(* What one event does to a run: the cursor only moves on, and a           *)
(* certificate's chain holds events of its own, none after the cursor.     *)

SoundRun(prior, S) ==
  /\ prior.cursor \in (Nat \X Nat) \cup {NoCursor}
  /\ \A c \in DOMAIN prior.certificates :
       LET state == prior.certificates[c] IN
       /\ state.status \in Statuses /\ state.chain \in Seq(RawEvents) /\ Len(state.chain) > 0
       /\ \A i \in DOMAIN state.chain : /\ state.chain[i] \in S /\ state.chain[i].cert = c
                                        /\ ~IsAfterCursor(state.chain[i], prior.cursor)

Cursors == (Nat \X Nat) \cup {NoCursor}

LEMMA StepMovesOn ==
  ASSUME NEW prior, prior.cursor \in Cursors, NEW e \in RawEvents, NEW lax
  PROVE  LET next == ReplayOne(prior, e, lax) IN
         /\ next.cursor \in Cursors
         /\ \A d \in RawEvents : IsAfterCursor(d, next.cursor) => IsAfterCursor(d, prior.cursor)
         /\ next # prior => ~IsAfterCursor(e, next.cursor)
<1> DEFINE next == ReplayOne(prior, e, lax)
<1>1. CASE next = prior
  BY <1>1
<1>2. CASE next # prior
  <2>1. IsAfterCursor(e, prior.cursor) /\ next.cursor = <<e.time, e.id>>
    BY <1>2 DEF ReplayOne
  <2> HIDE DEF next
  <2>2. e.time \in Nat /\ e.id \in Nat
    BY ReplayConstants
  <2>3. next.cursor \in Nat \X Nat /\ next.cursor # NoCursor
        /\ next.cursor[1] = e.time /\ next.cursor[2] = e.id
    BY <2>1, <2>2, ReplayConstants
  <2>4. ~IsAfterCursor(e, next.cursor)
    BY <2>2, <2>3 DEF IsAfterCursor
  <2>5. ASSUME NEW d \in RawEvents, IsAfterCursor(d, next.cursor)
        PROVE  IsAfterCursor(d, prior.cursor)
    <3>1. d.time \in Nat /\ d.id \in Nat
      BY ReplayConstants
    <3>2. d.time > e.time \/ (d.time = e.time /\ d.id > e.id)
      BY <2>3, <2>5 DEF IsAfterCursor
    <3>3. CASE prior.cursor = NoCursor
      BY <3>3 DEF IsAfterCursor
    <3>4. CASE prior.cursor # NoCursor
      <4>1. prior.cursor[1] \in Nat /\ prior.cursor[2] \in Nat
        BY <3>4 DEF Cursors
      <4>2. e.time > prior.cursor[1] \/ (e.time = prior.cursor[1] /\ e.id > prior.cursor[2])
        BY <2>1, <3>4 DEF IsAfterCursor
      <4>3. d.time > prior.cursor[1] \/ (d.time = prior.cursor[1] /\ d.id > prior.cursor[2])
        BY <2>2, <3>1, <3>2, <4>1, <4>2
      <4> QED BY <3>4, <4>3 DEF IsAfterCursor
    <3> QED BY <3>3, <3>4
  <2> QED BY <2>3, <2>4, <2>5 DEF Cursors, next
<1> QED BY <1>1, <1>2

LEMMA ReplayMovesOn ==
  ASSUME NEW A, Distinct(A), NEW from, from.cursor \in Cursors, NEW lax
  PROVE  LET end == ReplayAll(A, from, lax) IN
         /\ end.cursor \in Cursors
         /\ \A d \in RawEvents : IsAfterCursor(d, end.cursor) => IsAfterCursor(d, from.cursor)
<1> DEFINE End(B) == ReplayAll(B, from, lax)
           Goal(B) == /\ End(B).cursor \in Cursors
                      /\ \A d \in RawEvents : IsAfterCursor(d, End(B).cursor) => IsAfterCursor(d, from.cursor)
           T == {n \in Nat : \A B : Distinct(B) /\ Cardinality(B) = n => Goal(B)}
<1>1. 0 \in T
  <2> SUFFICES ASSUME NEW B, Distinct(B), Cardinality(B) = 0 PROVE Goal(B)
    OBVIOUS
  <2>1. B = {}
    BY FS_EmptySet DEF Distinct
  <2>2. End(B) = from
    BY <2>1, ReplayOfNothing
  <2> QED BY <2>2
<1>2. ASSUME NEW n \in Nat, n \in T PROVE n + 1 \in T
  <2> SUFFICES ASSUME NEW B, Distinct(B), Cardinality(B) = n + 1 PROVE Goal(B)
    OBVIOUS
  <2>1. B # {}
    BY FS_EmptySet
  <2>2. PICK e : LatestOf(B, e)
    BY <2>1, SomeLatest
  <2> HIDE DEF Goal
  <2>3. e \in B /\ e \in RawEvents
    BY <2>2 DEF LatestOf, Distinct
  <2>4. Distinct(B \ {e}) /\ Cardinality(B \ {e}) = n
    BY <2>3, OneLess
  <2>5. Goal(B \ {e})
    BY <1>2, <2>4
  <2>6. End(B) = ReplayOne(End(B \ {e}), e, lax)
    BY <2>2, ReplayOfLatest
  <2> HIDE DEF End
  <2>7. /\ End(B).cursor \in Cursors
        /\ \A d \in RawEvents : IsAfterCursor(d, End(B).cursor) => IsAfterCursor(d, End(B \ {e}).cursor)
    BY <2>3, <2>5, <2>6, StepMovesOn DEF Goal
  <2> QED BY <2>5, <2>7 DEF Goal
<1> HIDE DEF T
<1>3. Cardinality(A) \in T
  BY <1>1, <1>2, NumberInduction, FS_CardinalityType DEF Distinct
<1> QED BY <1>3 DEF T

-----------------------------------------------------------------------------
(* The life of a certificate in a strict replay.                           *)

Minted(state) == \E i \in DOMAIN state.chain : state.chain[i].type = "certificate_minted"

PlausibleState(state) ==
  /\ state.status \in {"active", "revoked"} <=> Minted(state)
  /\ \A i, j \in DOMAIN state.chain :
       /\ i < j => state.chain[i].type # "certificate_revoked"
       /\ state.chain[i].type = "certificate_minted" /\ state.chain[j].type = "certificate_minted"
            => i = j
  /\ \A i \in DOMAIN state.chain : state.chain[i].type = "certificate_revoked" => state.status = "revoked"
  /\ (state.owner # NoActor <=> Minted(state))

PlausibleRun(prior) ==
  \A c \in DOMAIN prior.certificates :
    PlausibleState(prior.certificates[c]) /\ prior.certificates[c].creator # NoActor

LEMMA Applied ==
  ASSUME NEW state, state.chain \in Seq(RawEvents), NEW e \in RawEvents
  PROVE  LET next == ApplyEvent(state, e)
             n == Len(state.chain) + 1
         IN /\ next.status = NextStatus(state.status, e.type)
            /\ next.chain \in Seq(RawEvents) /\ Len(next.chain) = n /\ n \in Nat \ {0}
            /\ DOMAIN state.chain = 1..(n - 1) /\ DOMAIN next.chain = 1..n /\ next.chain[n] = e
            /\ \A i \in 1..(n - 1) : next.chain[i] = state.chain[i]
BY DEF ApplyEvent

(* A step that a strict replay takes.                                      *)
LEMMA StrictStep ==
  ASSUME NEW state, state.chain \in Seq(RawEvents), state.status \in Statuses, NEW e \in RawEvents,
         PlausibleState(state),
         \/ state.creator # NoActor /\ e.type \in Allowed[state.status]
         \/ state.status = "pending" /\ e.type \in Allowed["none"]
  PROVE  PlausibleState(ApplyEvent(state, e)) /\ ApplyEvent(state, e).creator # NoActor
<1> DEFINE next == ApplyEvent(state, e)
           n == Len(state.chain) + 1
           t == e.type
<1>1. /\ next.status = NextStatus(state.status, t)
      /\ next.chain \in Seq(RawEvents) /\ Len(next.chain) = n /\ n \in Nat \ {0}
      /\ DOMAIN state.chain = 1..(n - 1) /\ DOMAIN next.chain = 1..n /\ next.chain[n] = e
      /\ \A i \in 1..(n - 1) : next.chain[i] = state.chain[i]
  BY Applied
<1>2. /\ next.creator = IF t \in {"verification_submitted", "certificate_minted"}
                        THEN Unless(state.creator, e.actor) ELSE state.creator
      /\ next.owner = CASE t = "certificate_minted" -> Unless(state.owner, Unless(e.to, e.actor))
                        [] t = "ownership_transferred" -> Unless(e.to, state.owner)
                        [] OTHER -> state.owner
  BY DEF ApplyEvent
<1>3. e.actor # NoActor
  BY ReplayConstants
<1>4. /\ Allowed["none"] = {"verification_submitted", "certificate_minted"}
      /\ Allowed["pending"] = {"verification_submitted", "verification_completed",
                               "verification_failed", "certificate_minted"}
      /\ Allowed["failed"] = {"verification_submitted"}
      /\ Allowed["active"] = EventTypes \ {"verification_failed", "certificate_minted"}
      /\ Allowed["revoked"] = {}
  BY DEF Allowed
<1> HIDE DEF next, n
<1>5. next.creator # NoActor
  <2>1. CASE t \in {"verification_submitted", "certificate_minted"}
    BY <1>2, <1>3, <2>1 DEF Unless
  <2>2. CASE t \notin {"verification_submitted", "certificate_minted"}
    <3>1. state.creator # NoActor
      BY <1>4, <2>2
    <3> QED BY <1>2, <2>2, <3>1
  <2> QED BY <2>1, <2>2
<1>6. Minted(next) <=> Minted(state) \/ t = "certificate_minted"
  <2>1. n \in 1..n /\ \A i \in 1..n : i \in 1..(n - 1) \/ i = n
    BY <1>1
  <2>2. \A i \in 1..(n - 1) : i \in 1..n
    BY <1>1
  <2> QED BY <1>1, <2>1, <2>2 DEF Minted
<1>7. state.status # "revoked"
  BY <1>4
<1>8. CASE t = "certificate_minted"
  <2>1. state.status = "pending"
    BY <1>4, <1>8 DEF Statuses, EventTypes
  <2>2. next.status = "active" /\ ~Minted(state) /\ Minted(next)
    BY <1>1, <1>6, <1>8, <2>1 DEF NextStatus, PlausibleState
  <2>3. next.owner # NoActor
    BY <1>2, <1>3, <1>8 DEF Unless
  <2>4. \A i \in 1..(n - 1) : /\ next.chain[i].type # "certificate_minted"
                              /\ next.chain[i].type # "certificate_revoked"
    BY <1>1, <2>1, <2>2 DEF Minted, PlausibleState
  <2>5. next.chain[n].type = "certificate_minted" /\ \A i \in 1..n : i \in 1..(n - 1) \/ i = n
    BY <1>1, <1>8
  <2>6. \A i, j \in 1..n :
          /\ i < j => next.chain[i].type # "certificate_revoked"
          /\ next.chain[i].type = "certificate_minted" /\ next.chain[j].type = "certificate_minted" => i = j
    BY <2>4, <2>5
  <2>7. \A i \in 1..n : next.chain[i].type # "certificate_revoked"
    BY <2>4, <2>5
  <2> QED BY <1>1, <1>5, <2>2, <2>3, <2>6, <2>7 DEF PlausibleState, next
<1>9. CASE t # "certificate_minted"
  <2>1. Minted(next) <=> Minted(state)
    BY <1>6, <1>9
  <2>2. next.status \in {"active", "revoked"} <=> state.status \in {"active", "revoked"}
    <3>1. CASE state.status = "active"
      <4>1. t # "verification_failed"
        <5>1. "verification_failed" \notin Allowed["active"]
          BY <1>4
        <5> QED BY <3>1, <5>1
      <4>2. next.status \in {"active", "revoked"}
        BY <1>1, <1>9, <3>1, <4>1 DEF NextStatus
      <4> QED BY <3>1, <4>2
    <3>2. CASE state.status \in {"pending", "failed"}
      <4>1. t \in {"verification_submitted", "verification_completed", "verification_failed"}
        BY <1>4, <1>9, <3>2
      <4>2. next.status \in {"pending", "failed"}
        BY <1>1, <3>2, <4>1 DEF NextStatus
      <4> QED BY <3>2, <4>2
    <3> QED BY <1>7, <3>1, <3>2 DEF Statuses
  <2>3. next.owner # NoActor <=> state.owner # NoActor
    <3>1. CASE t = "ownership_transferred"
      <4>1. state.status = "active"
        BY <1>4, <3>1 DEF Statuses
      <4>2. state.owner # NoActor
        BY <4>1 DEF PlausibleState
      <4> QED BY <1>2, <3>1, <4>2 DEF Unless
    <3>2. CASE t # "ownership_transferred"
      BY <1>2, <1>9, <3>2
    <3> QED BY <3>1, <3>2
  <2>4. \A i \in 1..(n - 1) : next.chain[i].type # "certificate_revoked"
    BY <1>1, <1>7 DEF PlausibleState
  <2>5. /\ next.chain[n] = e /\ e.type # "certificate_minted"
        /\ \A i \in 1..n : i \in 1..(n - 1) \/ i = n
    BY <1>1, <1>9
  <2>6. \A i, j \in 1..n : i < j => next.chain[i].type # "certificate_revoked"
    <3> SUFFICES ASSUME NEW i \in 1..n, NEW j \in 1..n, i < j
                 PROVE  next.chain[i].type # "certificate_revoked"
      OBVIOUS
    <3>1. i \in 1..(n - 1)
      BY <1>1
    <3> QED BY <2>4, <3>1
  <2>7. \A i, j \in 1..n :
          next.chain[i].type = "certificate_minted" /\ next.chain[j].type = "certificate_minted" => i = j
    <3> SUFFICES ASSUME NEW i \in 1..n, NEW j \in 1..n, next.chain[i].type = "certificate_minted",
                        next.chain[j].type = "certificate_minted"
                 PROVE  i = j
      OBVIOUS
    <3>1. i \in 1..(n - 1) /\ j \in 1..(n - 1)
      BY <2>5
    <3>2. /\ state.chain[i].type = "certificate_minted" /\ state.chain[j].type = "certificate_minted"
          /\ i \in DOMAIN state.chain /\ j \in DOMAIN state.chain
      BY <1>1, <3>1
    <3> QED BY <3>2 DEF PlausibleState
  <2>8. \A i \in 1..n : next.chain[i].type = "certificate_revoked" => next.status = "revoked"
    <3> SUFFICES ASSUME NEW i \in 1..n, next.chain[i].type = "certificate_revoked"
                 PROVE  next.status = "revoked"
      OBVIOUS
    <3>1. i = n /\ t = "certificate_revoked"
      BY <2>4, <2>5
    <3> QED BY <1>1, <3>1 DEF NextStatus
  <2> QED BY <1>1, <1>5, <2>1, <2>2, <2>3, <2>6, <2>7, <2>8 DEF PlausibleState, next
<1> QED BY <1>8, <1>9

LEMMA FreshIsPlausible ==
  /\ PlausibleState(NewCertificate) /\ NewCertificate.status = "pending"
  /\ NewCertificate.chain = << >> /\ NewCertificate.chain \in Seq(RawEvents)
BY DEF NewCertificate, PlausibleState, Minted

GoodRun(prior, S, lax) == SoundRun(prior, S) /\ (~lax => PlausibleRun(prior))

LEMMA StepKeepsRun ==
  ASSUME NEW S \in SUBSET RawEvents, NEW prior, NEW lax, GoodRun(prior, S, lax), NEW e \in RawEvents
  PROVE  GoodRun(ReplayOne(prior, e, lax), S \cup {e}, lax)
<1> DEFINE next == ReplayOne(prior, e, lax)
<1>1. CASE ~IsAfterCursor(e, prior.cursor) \/ ~Taken(prior, e, lax)
  <2>1. next = prior
    BY <1>1 DEF ReplayOne
  <2> QED BY <2>1 DEF GoodRun, SoundRun
<1>2. CASE IsAfterCursor(e, prior.cursor) /\ Taken(prior, e, lax)
  <2> DEFINE certs == prior.certificates
             state == IF e.cert \in DOMAIN certs THEN certs[e.cert] ELSE NewCertificate
             last == ApplyEvent(state, e)
             n == Len(state.chain) + 1
  <2>1. /\ next.cursor = <<e.time, e.id>>
        /\ next.certificates = [c \in DOMAIN certs \cup {e.cert} |-> IF c = e.cert THEN last ELSE certs[c]]
    BY <1>2 DEF ReplayOne
  <2>2. /\ state.chain \in Seq(RawEvents) /\ state.status \in Statuses
        /\ \A i \in DOMAIN state.chain : /\ state.chain[i] \in S /\ state.chain[i].cert = e.cert
                                         /\ ~IsAfterCursor(state.chain[i], prior.cursor)
    <3>1. CASE e.cert \in DOMAIN certs
      BY <3>1 DEF GoodRun, SoundRun
    <3>2. CASE e.cert \notin DOMAIN certs
      <4>1. state = NewCertificate
        BY <3>2
      <4>2. state.chain = << >> /\ state.status = "pending" /\ << >> \in Seq(RawEvents)
        BY <4>1, FreshIsPlausible
      <4>3. DOMAIN state.chain = {}
        BY <4>2
      <4> HIDE DEF state
      <4> QED BY <4>2, <4>3 DEF Statuses
    <3> QED BY <3>1, <3>2
  <2>3. ~lax => PlausibleState(last) /\ last.creator # NoActor
    <3> SUFFICES ASSUME ~lax PROVE PlausibleState(last) /\ last.creator # NoActor
      OBVIOUS
    <3>1. e.type \in Allowed[StatusIn(certs, e.cert)]
      BY <1>2 DEF Taken
    <3>2. CASE e.cert \in DOMAIN certs
      <4>1. state = certs[e.cert] /\ PlausibleState(state) /\ state.creator # NoActor
            /\ e.type \in Allowed[state.status]
        BY <3>1, <3>2 DEF GoodRun, PlausibleRun, StatusIn
      <4> HIDE DEF state
      <4> QED BY <2>2, <4>1, StrictStep
    <3>3. CASE e.cert \notin DOMAIN certs
      <4>1. state = NewCertificate /\ e.type \in Allowed["none"]
        BY <3>1, <3>3 DEF StatusIn
      <4>2. PlausibleState(state) /\ state.status = "pending"
        BY <4>1, FreshIsPlausible
      <4> HIDE DEF state
      <4> QED BY <2>2, <4>1, <4>2, StrictStep
    <3> QED BY <3>2, <3>3
  <2> HIDE DEF state
  <2>4. /\ last.status = NextStatus(state.status, e.type)
        /\ last.chain \in Seq(RawEvents) /\ Len(last.chain) = n /\ n \in Nat \ {0}
        /\ DOMAIN state.chain = 1..(n - 1) /\ DOMAIN last.chain = 1..n /\ last.chain[n] = e
        /\ \A i \in 1..(n - 1) : last.chain[i] = state.chain[i]
    BY <2>2, Applied
  <2>5. last.status \in Statuses
    BY <2>2, <2>4 DEF NextStatus, Statuses
  <2> HIDE DEF last, n, next, certs
  <2>6. /\ prior.cursor \in Cursors /\ next.cursor \in Cursors
        /\ \A d \in RawEvents : IsAfterCursor(d, next.cursor) => IsAfterCursor(d, prior.cursor)
    BY StepMovesOn DEF GoodRun, SoundRun, Cursors, next
  <2>7. ~IsAfterCursor(e, next.cursor)
    <3>1. e.time \in Nat /\ e.id \in Nat
      BY ReplayConstants
    <3>2. next.cursor \in Nat \X Nat /\ next.cursor # NoCursor
          /\ next.cursor[1] = e.time /\ next.cursor[2] = e.id
      BY <2>1, <3>1, ReplayConstants
    <3> QED BY <3>1, <3>2 DEF IsAfterCursor
  <2>8. ASSUME NEW c \in DOMAIN next.certificates
        PROVE  LET entry == next.certificates[c] IN
               /\ entry.status \in Statuses /\ entry.chain \in Seq(RawEvents) /\ Len(entry.chain) > 0
               /\ \A i \in DOMAIN entry.chain : /\ entry.chain[i] \in S \cup {e} /\ entry.chain[i].cert = c
                                              /\ ~IsAfterCursor(entry.chain[i], next.cursor)
    <3>1. CASE c = e.cert
      <4>1. next.certificates[c] = last
        BY <2>1, <3>1
      <4>2. ASSUME NEW i \in 1..n
            PROVE  /\ last.chain[i] \in S \cup {e} /\ last.chain[i].cert = c
                   /\ ~IsAfterCursor(last.chain[i], next.cursor)
        <5>1. CASE i = n
          BY <2>4, <2>7, <3>1, <5>1
        <5>2. CASE i # n
          <6>1. i \in 1..(n - 1)
            BY <2>4, <5>2
          <6>2. /\ last.chain[i] = state.chain[i] /\ state.chain[i] \in S /\ state.chain[i].cert = e.cert
                /\ ~IsAfterCursor(state.chain[i], prior.cursor) /\ state.chain[i] \in RawEvents
            BY <2>2, <2>4, <6>1
          <6> QED BY <2>6, <3>1, <6>2
        <5> QED BY <5>1, <5>2
      <4>3. last.chain \in Seq(RawEvents) /\ Len(last.chain) > 0 /\ DOMAIN last.chain = 1..n
        BY <2>4
      <4> QED BY <2>5, <4>1, <4>2, <4>3
    <3>2. CASE c # e.cert
      <4>1. c \in DOMAIN certs /\ next.certificates[c] = certs[c]
        BY <2>1, <3>2
      <4>2. /\ certs[c].status \in Statuses /\ certs[c].chain \in Seq(RawEvents) /\ Len(certs[c].chain) > 0
            /\ \A i \in DOMAIN certs[c].chain : /\ certs[c].chain[i] \in S /\ certs[c].chain[i].cert = c
                                                /\ ~IsAfterCursor(certs[c].chain[i], prior.cursor)
        BY <4>1 DEF GoodRun, SoundRun, certs
      <4>3. \A i \in DOMAIN certs[c].chain : certs[c].chain[i] \in RawEvents
        BY <4>2
      <4> QED BY <2>6, <4>1, <4>2, <4>3
    <3> QED BY <3>1, <3>2
  <2>9. SoundRun(next, S \cup {e})
    BY <2>6, <2>8 DEF SoundRun, Cursors
  <2>10. ~lax => PlausibleRun(next)
    <3> SUFFICES ASSUME ~lax, NEW c \in DOMAIN next.certificates
                 PROVE  PlausibleState(next.certificates[c]) /\ next.certificates[c].creator # NoActor
      BY DEF PlausibleRun
    <3>1. CASE c = e.cert
      BY <2>1, <2>3, <3>1
    <3>2. CASE c # e.cert
      <4>1. c \in DOMAIN certs /\ next.certificates[c] = certs[c]
        BY <2>1, <3>2
      <4>2. PlausibleState(certs[c]) /\ certs[c].creator # NoActor
        BY <4>1 DEF GoodRun, PlausibleRun, certs
      <4> QED BY <4>1, <4>2
    <3> QED BY <3>1, <3>2
  <2> QED BY <2>9, <2>10 DEF GoodRun, next
<1> QED BY <1>1, <1>2

LEMMA ReplayKeepsRun ==
  ASSUME NEW A, Distinct(A), NEW S \in SUBSET RawEvents, NEW from, NEW lax, GoodRun(from, S, lax)
  PROVE  GoodRun(ReplayAll(A, from, lax), S \cup A, lax)
<1> DEFINE End(B) == ReplayAll(B, from, lax)
           Goal(B) == GoodRun(End(B), S \cup B, lax)
           T == {n \in Nat : \A B : Distinct(B) /\ Cardinality(B) = n => Goal(B)}
<1>1. 0 \in T
  <2> SUFFICES ASSUME NEW B, Distinct(B), Cardinality(B) = 0 PROVE Goal(B)
    OBVIOUS
  <2>1. B = {}
    BY FS_EmptySet DEF Distinct
  <2>2. End(B) = from /\ S \cup B = S
    BY <2>1, ReplayOfNothing
  <2> QED BY <2>2
<1>2. ASSUME NEW n \in Nat, n \in T PROVE n + 1 \in T
  <2> SUFFICES ASSUME NEW B, Distinct(B), Cardinality(B) = n + 1 PROVE Goal(B)
    OBVIOUS
  <2>1. B # {}
    BY FS_EmptySet
  <2>2. PICK e : LatestOf(B, e)
    BY <2>1, SomeLatest
  <2> HIDE DEF Goal
  <2>3. e \in B /\ e \in RawEvents /\ B \subseteq RawEvents
    BY <2>2 DEF LatestOf, Distinct
  <2>4. Distinct(B \ {e}) /\ Cardinality(B \ {e}) = n
    BY <2>3, OneLess
  <2>5. Goal(B \ {e})
    BY <1>2, <2>4
  <2>6. End(B) = ReplayOne(End(B \ {e}), e, lax)
    BY <2>2, ReplayOfLatest
  <2>7. S \cup (B \ {e}) \in SUBSET RawEvents /\ (S \cup (B \ {e})) \cup {e} = S \cup B
    BY <2>3
  <2> HIDE DEF End
  <2>8. GoodRun(ReplayOne(End(B \ {e}), e, lax), (S \cup (B \ {e})) \cup {e}, lax)
    BY <2>3, <2>5, <2>7, StepKeepsRun DEF Goal
  <2> QED BY <2>6, <2>7, <2>8 DEF Goal
<1> HIDE DEF T
<1>3. Cardinality(A) \in T
  BY <1>1, <1>2, NumberInduction, FS_CardinalityType DEF Distinct
<1> QED BY <1>3 DEF T

-----------------------------------------------------------------------------
(* Events that make no difference, and the cutting of a replay in two.     *)

LEMMA NeverTaken ==
  ASSUME NEW A, Distinct(A), NEW from, from.cursor \in Cursors, NEW lax, NEW d \in A,
         IsAfterCursor(d, ReplayAll(A, from, lax).cursor)
  PROVE  ReplayOne(ReplayAll(Earlier(A, d), from, lax), d, lax) = ReplayAll(Earlier(A, d), from, lax)
<1> DEFINE P == Earlier(A, d)
           L == {b \in A : Before(d, b)}
           U == P \cup {d}
           prior == ReplayAll(P, from, lax)
           next == ReplayOne(prior, d, lax)
<1>1. d \in RawEvents /\ A \subseteq RawEvents
  BY DEF Distinct
<1>2. U \cup L = A
  <2> SUFFICES ASSUME NEW b \in A, b # d PROVE Before(b, d) \/ Before(d, b)
    BY DEF Earlier
  <2>1. b \in RawEvents /\ b.id # d.id
    BY DEF Distinct
  <2> QED BY <1>1, <2>1, OrderIsStrict
<1>3. P \subseteq A /\ U \subseteq A /\ L \subseteq A
  BY DEF Earlier
<1>4. Distinct(P) /\ Distinct(U) /\ Distinct(L)
  BY <1>3, DistinctParts
<1>5. d \notin P /\ U \ {d} = P /\ LatestOf(U, d)
  BY <1>1, OrderIsStrict DEF Earlier, LatestOf
<1>6. \A a \in U, b \in L : Before(a, b)
  <2> SUFFICES ASSUME NEW a \in P, NEW b \in L PROVE Before(a, b)
    OBVIOUS
  <2>1. a \in RawEvents /\ b \in RawEvents /\ Before(a, d) /\ Before(d, b)
    BY <1>1, <1>3 DEF Earlier
  <2> QED BY <1>1, <2>1, OrderIsStrict
<1>7. ReplayAll(U, from, lax) = next
  BY <1>4, <1>5, ReplayOfLatest
<1> HIDE DEF P, U, L, prior, next
<1>8. ReplayAll(A, from, lax) = ReplayAll(L, next, lax)
  BY <1>2, <1>6, <1>7, ReplayInParts
<1>9. prior.cursor \in Cursors
  BY <1>4, ReplayMovesOn DEF prior
<1>10. next.cursor \in Cursors /\ (next # prior => ~IsAfterCursor(d, next.cursor))
  BY <1>1, <1>9, StepMovesOn DEF next
<1>11. IsAfterCursor(d, next.cursor)
  BY <1>1, <1>4, <1>8, <1>10, ReplayMovesOn
<1> QED BY <1>10, <1>11 DEF next, prior, P

(* What is after the cursor in the end changed nothing.                    *)
LEMMA ReplayUpToCursor ==
  ASSUME NEW A, Distinct(A), NEW from, from.cursor \in Cursors, NEW lax
  PROVE  LET end == ReplayAll(A, from, lax) IN
         ReplayAll({e \in A : ~IsAfterCursor(e, end.cursor)}, from, lax) = end
<1> DEFINE end == ReplayAll(A, from, lax)
           D == {e \in A : IsAfterCursor(e, end.cursor)}
<1>1. Idles(A, D, from, lax)
  BY NeverTaken DEF Idles
<1>2. A \ D = {e \in A : ~IsAfterCursor(e, end.cursor)}
  OBVIOUS
<1> HIDE DEF D
<1>3. ReplayAll(A \ D, from, lax) = end
  BY <1>1, ReplayWithout
<1> QED BY <1>2, <1>3

(* What is not after the cursor in the beginning changes nothing.          *)
LEMMA ReplayFromCursor ==
  ASSUME NEW A, Distinct(A), NEW from, from.cursor \in Cursors, NEW lax
  PROVE  ReplayAll({e \in A : IsAfterCursor(e, from.cursor)}, from, lax) = ReplayAll(A, from, lax)
<1> DEFINE D == {e \in A : ~IsAfterCursor(e, from.cursor)}
<1>1. ASSUME NEW d \in A \cap D
      PROVE  ReplayOne(ReplayAll(Earlier(A, d), from, lax), d, lax) = ReplayAll(Earlier(A, d), from, lax)
  <2>1. d \in RawEvents /\ ~IsAfterCursor(d, from.cursor) /\ Earlier(A, d) \in SUBSET A
    BY DEF Distinct, Earlier
  <2>2. Distinct(Earlier(A, d))
    BY <2>1, DistinctParts
  <2>3. ~IsAfterCursor(d, ReplayAll(Earlier(A, d), from, lax).cursor)
    BY <2>1, <2>2, ReplayMovesOn
  <2> QED BY <2>3 DEF ReplayOne
<1>2. A \ D = {e \in A : IsAfterCursor(e, from.cursor)}
  OBVIOUS
<1> HIDE DEF D
<1>3. Idles(A, D, from, lax)
  BY <1>1 DEF Idles
<1>4. ReplayAll(A \ D, from, lax) = ReplayAll(A, from, lax)
  BY <1>3, ReplayWithout
<1> QED BY <1>2, <1>4

SingleTimes(A) == \A a, b \in A : a.time = b.time => a = b

UpTo(A, cursor) == {e \in A : ~IsAfterCursor(e, cursor)}

(* A replay of events of different times may be cut at its cursor.         *)
LEMMA CutAtCursor ==
  ASSUME NEW A, NEW B, Distinct(A \cup B), SingleTimes(A \cup B), NEW lax, NEW prior,
         prior.cursor \in Cursors, prior = ReplayAll(A, Genesis, lax),
         \A a \in A : ~IsAfterCursor(a, prior.cursor), \A b \in B : IsAfterCursor(b, prior.cursor)
  PROVE  ReplayAll(A \cup B, Genesis, lax) = ReplayAll(B, prior, lax)
<1>1. ASSUME NEW a \in A, NEW b \in B PROVE Before(a, b)
  <2>1. ~IsAfterCursor(a, prior.cursor) /\ IsAfterCursor(b, prior.cursor)
    OBVIOUS
  <2>2. a.time # b.time
    BY <2>1 DEF SingleTimes
  <2>3. a.time \in Nat /\ b.time \in Nat /\ a.id \in Nat /\ b.id \in Nat
    BY ReplayConstants DEF Distinct
  <2>4. prior.cursor # NoCursor /\ prior.cursor[1] \in Nat /\ prior.cursor[2] \in Nat
    BY <2>1 DEF Cursors, IsAfterCursor
  <2>5. ~(a.time > prior.cursor[1])
    BY <2>1, <2>4 DEF IsAfterCursor
  <2>6. b.time > prior.cursor[1] \/ b.time = prior.cursor[1]
    BY <2>1, <2>4 DEF IsAfterCursor
  <2> QED BY <2>2, <2>3, <2>4, <2>5, <2>6 DEF Before
<1> QED BY <1>1, ReplayInParts

-----------------------------------------------------------------------------
(* mergeEventSources: one copy of each event, and the first one collected. *)

LEMMA MergedCopies ==
  ASSUME NEW copies \in Seq(RawEvents)
  PROVE  /\ Distinct(MergeEventSources(copies))
         /\ \A e \in RawEvents : MergeEventSources(copies) \subseteq MergeEventSources(Append(copies, e))
<1> DEFINE merged == MergeEventSources(copies)
<1>1. merged \subseteq Range(copies) /\ merged \subseteq RawEvents
  BY DEF MergeEventSources, Range
<1>2. IsFiniteSet(merged)
  BY <1>1, InjectiveLength, FS_Subset
<1>3. ASSUME NEW a \in merged, NEW b \in merged, a.id = b.id PROVE a = b
  <2>1. PICK i \in DOMAIN copies :
          /\ a = copies[i] /\ copies[i].type \in EventTypes
          /\ \A k \in 1..(i - 1) : copies[k].type \in EventTypes => copies[k].id # copies[i].id
    BY DEF MergeEventSources
  <2>2. PICK j \in DOMAIN copies :
          /\ b = copies[j] /\ copies[j].type \in EventTypes
          /\ \A k \in 1..(j - 1) : copies[k].type \in EventTypes => copies[k].id # copies[j].id
    BY DEF MergeEventSources
  <2>3. i \in Nat \ {0} /\ j \in Nat \ {0}
    OBVIOUS
  <2>4. ~(i < j) /\ ~(j < i)
    BY <1>3, <2>1, <2>2, <2>3
  <2>5. i = j
    BY <2>3, <2>4
  <2> QED BY <2>1, <2>2, <2>5
<1>4. ASSUME NEW e \in RawEvents, NEW a \in merged PROVE a \in MergeEventSources(Append(copies, e))
  <2> DEFINE more == Append(copies, e)
  <2>1. PICK i \in DOMAIN copies :
          /\ a = copies[i] /\ copies[i].type \in EventTypes
          /\ \A k \in 1..(i - 1) : copies[k].type \in EventTypes => copies[k].id # copies[i].id
    BY DEF MergeEventSources
  <2>2. i \in DOMAIN more /\ more[i] = copies[i] /\ \A k \in 1..(i - 1) : more[k] = copies[k]
    OBVIOUS
  <2> HIDE DEF more
  <2>3. /\ a = more[i] /\ more[i].type \in EventTypes
        /\ \A k \in 1..(i - 1) : more[k].type \in EventTypes => more[k].id # more[i].id
    BY <2>1, <2>2
  <2>4. a \in MergeEventSources(more)
    BY <2>2, <2>3 DEF MergeEventSources
  <2> QED BY <2>4 DEF more
<1> QED BY <1>1, <1>2, <1>3, <1>4 DEF Distinct

-----------------------------------------------------------------------------
(* The checkpoint.                                                         *)

Past == UpTo(fed, checkpoint.cursor)

(* The checkpoint of events of different times is their replay, and that   *)
(* of those up to its cursor, which are the ones a resumption keeps.       *)
ReplayInv ==
  /\ collected \in Seq(RawEvents) /\ lenient \in BOOLEAN
  /\ fed \subseteq MergeEventSources(collected)
  /\ GoodRun(checkpoint, Past, lenient)
  /\ SingleTimes(Past) => checkpoint = ReplayAll(Past, Genesis, lenient)
  /\ SingleTimes(fed) => checkpoint = ReplayAll(fed, Genesis, lenient)

LEMMA GenesisIsGood == \A lax : GoodRun(Genesis, {}, lax)
BY DEF Genesis, GoodRun, SoundRun, PlausibleRun

LEMMA GoodUpToCursor ==
  ASSUME NEW S \in SUBSET RawEvents, NEW prior, NEW lax, GoodRun(prior, S, lax)
  PROVE  GoodRun(prior, UpTo(S, prior.cursor), lax)
BY DEF GoodRun, SoundRun, UpTo

LEMMA ReplayInvInit == ReplayInit => ReplayInv
<1> SUFFICES ASSUME ReplayInit PROVE ReplayInv
  OBVIOUS
<1>1. Past = {} /\ fed = {}
  BY DEF ReplayInit, Past, UpTo
<1>2. checkpoint = ReplayAll({}, Genesis, lenient)
  BY ReplayOfNothing DEF ReplayInit
<1> QED BY <1>1, <1>2, GenesisIsGood DEF ReplayInit, ReplayInv

LEMMA CollectKeeps ==
  ASSUME ReplayInv, NEW e \in RawEvents, Collect(e) PROVE ReplayInv'
<1>1. UNCHANGED <<checkpoint, fed, lenient>> /\ collected' = Append(collected, e)
  BY DEF Collect
<1>2. collected' \in Seq(RawEvents) /\ MergeEventSources(collected) \subseteq MergeEventSources(collected')
  BY <1>1, MergedCopies DEF ReplayInv
<1>3. Past' = Past
  BY <1>1 DEF Past
<1> QED BY <1>1, <1>2, <1>3 DEF ReplayInv

LEMMA RebuildKeeps ==
  ASSUME ReplayInv, NEW until, Rebuild(until) PROVE ReplayInv'
<1> DEFINE merged == MergeEventSources(collected)
           due == {e \in merged : e.time <= until}
<1>1. /\ collected' = collected /\ lenient' = lenient /\ fed' = due
      /\ checkpoint' = ReplayAll(due, Genesis, lenient)
  BY DEF Rebuild, Replay
<1>2. Distinct(merged) /\ due \subseteq merged
  BY MergedCopies DEF ReplayInv
<1> HIDE DEF merged, due
<1>3. Distinct(due) /\ due \subseteq RawEvents
  BY <1>2, DistinctParts DEF Distinct
<1>4. GoodRun(checkpoint', {} \cup due, lenient)
  BY <1>1, <1>3, GenesisIsGood, ReplayKeepsRun
<1>5. Past' = UpTo(due, checkpoint'.cursor)
  BY <1>1 DEF Past
<1>6. GoodRun(checkpoint', Past', lenient)
  BY <1>3, <1>4, <1>5, GoodUpToCursor
<1>7. Genesis.cursor \in Cursors
  BY DEF Genesis, Cursors
<1>8. ReplayAll(UpTo(due, checkpoint'.cursor), Genesis, lenient) = checkpoint'
  BY <1>1, <1>3, <1>7, ReplayUpToCursor DEF UpTo
<1> QED BY <1>1, <1>2, <1>5, <1>6, <1>8 DEF ReplayInv, merged

LEMMA ResumeKeeps ==
  ASSUME ReplayInv, NEW until, Resume(until) PROVE ReplayInv'
<1> DEFINE merged == MergeEventSources(collected)
           due == {e \in merged : e.time <= until}
           new == {e \in due : IsAfterCursor(e, checkpoint.cursor)}
           taken == UpTo(new, checkpoint'.cursor)
<1>1. /\ collected' = collected /\ lenient' = lenient
      /\ fed' = Past \cup new
      /\ checkpoint' = ReplayAll(due, checkpoint, lenient)
  BY DEF Resume, Replay, Past, UpTo
<1>2. Distinct(merged) /\ due \subseteq merged /\ new \subseteq merged /\ Past \subseteq merged
      /\ \A e \in new : IsAfterCursor(e, checkpoint.cursor)
  BY MergedCopies DEF ReplayInv, Past, UpTo
<1>3. checkpoint.cursor \in Cursors /\ GoodRun(checkpoint, Past, lenient)
  BY DEF ReplayInv, GoodRun, SoundRun, Cursors
<1>4. Distinct(due) /\ Distinct(new) /\ Distinct(Past \cup new) /\ Past \cup new \subseteq RawEvents
      /\ Distinct(Past \cup taken) /\ taken \subseteq new
  <2>1. taken \subseteq new
    BY DEF UpTo
  <2> HIDE DEF taken, new, due, merged
  <2> QED BY <1>2, <2>1, DistinctParts DEF Distinct
<1>5. checkpoint' = ReplayAll(new, checkpoint, lenient)
  BY <1>1, <1>3, <1>4, ReplayFromCursor
<1>6. ReplayAll(taken, checkpoint, lenient) = checkpoint'
  BY <1>3, <1>4, <1>5, ReplayUpToCursor DEF UpTo
<1> HIDE DEF new, due, merged
<1>7. GoodRun(checkpoint', Past \cup new, lenient)
  BY <1>3, <1>4, <1>5, ReplayKeepsRun
<1>8. Past' = Past \cup taken
  <2>1. ASSUME NEW e \in Past PROVE ~IsAfterCursor(e, checkpoint'.cursor)
    <3>1. e \in RawEvents /\ ~IsAfterCursor(e, checkpoint.cursor)
      BY <1>4 DEF Past, UpTo
    <3> QED BY <1>3, <1>4, <1>5, <3>1, ReplayMovesOn
  <2>2. Past' = UpTo(Past \cup new, checkpoint'.cursor)
    BY <1>1 DEF Past
  <2> QED BY <2>1, <2>2 DEF UpTo
<1>9. GoodRun(checkpoint', Past', lenient)
  <2>1. Past' = UpTo(Past \cup new, checkpoint'.cursor)
    BY <1>1 DEF Past
  <2> QED BY <1>4, <1>7, <2>1, GoodUpToCursor
<1>10. \A a \in Past : ~IsAfterCursor(a, checkpoint.cursor)
  BY DEF Past, UpTo
<1>11. ASSUME NEW B \in SUBSET new, Distinct(Past \cup B), SingleTimes(Past \cup B)
       PROVE  ReplayAll(Past \cup B, Genesis, lenient) = ReplayAll(B, checkpoint, lenient)
  <2>1. checkpoint = ReplayAll(Past, Genesis, lenient)
    <3>1. SingleTimes(Past)
      BY <1>11 DEF SingleTimes
    <3> QED BY <3>1 DEF ReplayInv
  <2>2. \A b \in B : IsAfterCursor(b, checkpoint.cursor)
    BY <1>2
  <2> QED BY <1>3, <1>10, <1>11, <2>1, <2>2, CutAtCursor
<1> HIDE DEF taken
<1>12. SingleTimes(Past') => checkpoint' = ReplayAll(Past', Genesis, lenient)
  BY <1>4, <1>6, <1>8, <1>11
<1>13. SingleTimes(fed') => checkpoint' = ReplayAll(fed', Genesis, lenient)
  BY <1>1, <1>4, <1>5, <1>11
<1>14. fed' \subseteq MergeEventSources(collected')
  BY <1>1, <1>2 DEF merged
<1> QED BY <1>1, <1>9, <1>12, <1>13, <1>14 DEF ReplayInv

LEMMA ReplayInvNext == ReplayInv /\ [ReplayNext]_replayVars => ReplayInv'
<1> SUFFICES ASSUME ReplayInv, [ReplayNext]_replayVars PROVE ReplayInv'
  OBVIOUS
<1>1. CASE UNCHANGED replayVars
  BY <1>1 DEF ReplayInv, replayVars, Past
<1>2. CASE ReplayNext
  BY <1>2, CollectKeeps, RebuildKeeps, ResumeKeeps DEF ReplayNext
<1> QED BY <1>1, <1>2

LEMMA ReplayInvIsFaithful == ReplayInv => ReplayIsFaithful
<1> SUFFICES ASSUME ReplayInv PROVE ReplayIsFaithful
  OBVIOUS
<1>1. Distinct(fed) /\ fed \subseteq RawEvents /\ Past \subseteq fed
  BY MergedCopies, DistinctParts DEF ReplayInv, Distinct, Past, UpTo
<1>2. SoundRun(checkpoint, Past) /\ (~lenient => PlausibleRun(checkpoint))
  BY DEF ReplayInv, GoodRun
<1>3. ReplayTypeOK
  <2>1. ASSUME NEW c \in DOMAIN checkpoint.certificates
        PROVE  LET state == checkpoint.certificates[c] IN
               /\ state.status \in Statuses /\ state.chain \in Seq(RawEvents) /\ Len(state.chain) > 0
               /\ \E e \in fed : e.cert = c
    <3> DEFINE state == checkpoint.certificates[c]
    <3>1. /\ state.status \in Statuses /\ state.chain \in Seq(RawEvents) /\ Len(state.chain) > 0
          /\ \A i \in DOMAIN state.chain : state.chain[i] \in Past /\ state.chain[i].cert = c
      BY <1>2 DEF SoundRun
    <3>2. 1 \in DOMAIN state.chain
      BY <3>1
    <3> QED BY <1>1, <3>1, <3>2
  <2> QED BY <1>1, <1>2, <2>1 DEF ReplayTypeOK, ReplayInv, SoundRun
<1>4. ResumeIsReplay
  <2>1. {e \in fed : e.time <= LastEvent} = fed
    BY <1>1, ReplayConstants
  <2>2. Replay(fed, Genesis, LastEvent, lenient) = ReplayAll(fed, Genesis, lenient)
    BY <2>1 DEF Replay
  <2> QED BY <2>2 DEF ResumeIsReplay, ReplayInv, SingleTimes
<1>5. HistoryIsPlausible
  <2> SUFFICES ASSUME ~lenient, NEW c \in DOMAIN checkpoint.certificates
               PROVE  LET state == checkpoint.certificates[c]
                          minted == {e \in EventsOf(c) : e.type = "certificate_minted"}
                      IN /\ state.status \in {"active", "revoked"} <=> minted # {}
                         /\ \A i, j \in DOMAIN state.chain :
                              /\ i < j => state.chain[i].type # "certificate_revoked"
                              /\ state.chain[i].type = "certificate_minted" /\ state.chain[j] \in minted => i = j
                         /\ (state.owner # NoActor <=> minted # {}) /\ state.creator # NoActor
    BY DEF HistoryIsPlausible
  <2> DEFINE state == checkpoint.certificates[c]
             minted == {e \in EventsOf(c) : e.type = "certificate_minted"}
  <2>1. PlausibleState(state) /\ state.creator # NoActor
    BY <1>2 DEF PlausibleRun
  <2>2. minted # {} <=> Minted(state)
    BY DEF EventsOf, Minted
  <2>3. \A j \in DOMAIN state.chain : state.chain[j] \in minted => state.chain[j].type = "certificate_minted"
    OBVIOUS
  <2> HIDE DEF state, minted
  <2>4. /\ state.status \in {"active", "revoked"} <=> minted # {}
        /\ \A i, j \in DOMAIN state.chain :
             /\ i < j => state.chain[i].type # "certificate_revoked"
             /\ state.chain[i].type = "certificate_minted" /\ state.chain[j] \in minted => i = j
        /\ (state.owner # NoActor <=> minted # {}) /\ state.creator # NoActor
    BY <2>1, <2>2, <2>3 DEF PlausibleState
  <2> QED BY <2>4 DEF state, minted
<1> QED BY <1>3, <1>4, <1>5 DEF ReplayIsFaithful

(* A checkpoint tells what one replay of its events would, however it was  *)
(* cut and resumed, and a strict one a history that is plausible.          *)
THEOREM ResumedIsReplayed == ReplaySpec => []ReplayIsFaithful
<1>1. ReplaySpec => []ReplayInv
  BY ReplayInvInit, ReplayInvNext, PTL DEF ReplaySpec
<1> QED BY <1>1, ReplayInvIsFaithful, PTL

(* As less trusted copies come in, what was merged stays as it was.        *)
THEOREM MergedCopiesStay == ReplaySpec => [][TrustedCopiesStay]_replayVars
<1>1. ReplaySpec => []ReplayInv
  BY ReplayInvInit, ReplayInvNext, PTL DEF ReplaySpec
<1>2. ReplayInv /\ ReplayInv' /\ [ReplayNext]_replayVars => [TrustedCopiesStay]_replayVars
  <2> SUFFICES ASSUME ReplayInv, ReplayInv', ReplayNext PROVE TrustedCopiesStay
    OBVIOUS
  <2>1. MergeEventSources(collected) \subseteq MergeEventSources(collected')
    BY MergedCopies DEF ReplayInv, ReplayNext, Collect, Rebuild, Resume
  <2>2. Distinct(MergeEventSources(collected'))
    BY MergedCopies DEF ReplayInv
  <2> QED BY <2>1, <2>2 DEF TrustedCopiesStay, Distinct
<1> QED BY <1>1, <1>2, PTL DEF ReplaySpec

-----------------------------------------------------------------------------
(* All of the records, one of them at a time.                              *)

(* Following one subject, the records behave as each would alone.          *)
THEOREM RecordsAreApart == Spec => ReplaySpec /\ IndexerSpec /\ WebhookSpec /\ RetentionSpec
<1>1. Init => ReplayInit /\ IndexInit /\ WebhookInit /\ RetentionInit /\ now = 0
  BY DEF Init
<1>2. [Next]_vars => [ReplayNext]_replayVars
  BY DEF Next, vars
<1>3. [Next]_vars => [IndexerNext]_indexVars
  BY DEF Next, vars
<1>4. [Next]_vars => [WebhookNext]_webhookVars
  BY DEF Next, vars
<1>5. [Next]_vars => [RetentionNext]_<<now, retentionVars>>
  BY DEF Next, vars
<1> QED BY <1>1, <1>2, <1>3, <1>4, <1>5, PTL
        DEF Spec, ReplaySpec, IndexerSpec, WebhookSpec, RetentionSpec

(* What was merged stays, a session in use stays, and a delivery that was  *)
(* made stays delivered, whichever of the records is followed.             *)
THEOREM NothingGetsUndone == Spec => NothingIsUndone
<1>1. replayVars' = replayVars /\ ReplayInv => TrustedCopiesStay
  <2> SUFFICES ASSUME replayVars' = replayVars, ReplayInv PROVE TrustedCopiesStay
    OBVIOUS
  <2>1. collected' = collected
    BY DEF replayVars
  <2> QED BY <2>1, MergedCopies DEF TrustedCopiesStay, ReplayInv, Distinct
<1>2. RetentionInv /\ <<now, retentionVars>>' = <<now, retentionVars>> => InFlightStays
  BY DEF InFlightStays, retentionVars, IsLive
<1>3. webhookVars' = webhookVars => AttemptsNeverDowngrade
  BY DEF AttemptsNeverDowngrade, webhookVars
<1>4. ReplaySpec => []ReplayInv
  BY ReplayInvInit, ReplayInvNext, PTL DEF ReplaySpec
<1>5. /\ ReplayInv /\ RetentionInv /\ [TrustedCopiesStay]_replayVars
      /\ [InFlightStays]_<<now, retentionVars>> /\ [AttemptsNeverDowngrade]_webhookVars
      => [TrustedCopiesStay /\ InFlightStays /\ AttemptsNeverDowngrade]_vars
  BY <1>1, <1>2, <1>3
<1> QED BY <1>4, <1>5, RecordsAreApart, RetentionInvHolds, MergedCopiesStay, SessionsInUseStay,
           DeliveredNotDowngraded, PTL DEF NothingIsUndone

=============================================================================
