---------------------- MODULE ProductionPromotion_proofs ----------------------
(***************************************************************************)
(* Proofs about ProductionPromotion, for any number of commits and runs,   *)
(* and whatever the provider drops, delays or carries out after a run has  *)
(* given it up.                                                            *)
(***************************************************************************)
EXTENDS ProductionPromotion, TLAPS

Typed ==
  /\ main \in Sha /\ sha \in Sha /\ runs \in 0..MaxRuns
  /\ serving \in [Target -> Deployment] /\ previous \in [Target -> Deployment]
  /\ queue \in [Target -> Seq(Deployment)]
  /\ pc \in {"idle"} \cup Reading \cup Promoting \cup Restoring
  /\ at \in Target
  /\ eligible \subseteq Target /\ unrestored \subseteq Target
  /\ accepted \subseteq [Target -> Deployment]

(* What a target serves, and what the provider may still make it serve.    *)
Coming(t) == {serving[t]} \cup {queue[t][i] : i \in 1..Len(queue[t])}

(* Once the target serves the deployment, it does so for good.             *)
Heading(t, deployment) ==
  /\ serving[t] = deployment => \A i \in 1..Len(queue[t]) : queue[t][i] = deployment
  /\ \A i, j \in 1..Len(queue[t]) : i < j /\ queue[t][i] = deployment => queue[t][j] = deployment

(* The order of the targets, and its reverse for the rollback.             *)
Earlier(t) ==
  IF t = "proxy" THEN {} ELSE IF t = "agent" THEN {"proxy"} ELSE {"proxy", "agent"}

Later(t) ==
  IF t = "callback" THEN {} ELSE IF t = "agent" THEN {"callback"} ELSE {"agent", "callback"}

LEMMA TailOfSequence ==
  ASSUME NEW S, NEW q \in Seq(S), q # <<>>
  PROVE  /\ Len(q) \in Nat \ {0}
         /\ Len(Tail(q)) = Len(q) - 1
         /\ \A i \in 1..(Len(q) - 1) : Tail(q)[i] = q[i + 1]
         /\ Tail(q) \in Seq(S)
         /\ Head(q) = q[1] /\ q[1] \in S
         /\ Tail(q) = <<>> <=> Len(q) = 1
<1>1. Len(q) \in Nat \ {0}
  OBVIOUS
<1>2. Tail(q) \in Seq(S) /\ Len(Tail(q)) = Len(q) - 1
  BY <1>1
<1>3. \A i \in 1..(Len(q) - 1) : Tail(q)[i] = q[i + 1]
  BY <1>1
<1>4. Head(q) = q[1] /\ q[1] \in S
  BY <1>1
<1>5. Tail(q) = <<>> <=> Len(q) = 1
  <2>1. \A s \in Seq(S) : s = <<>> <=> Len(s) = 0
    OBVIOUS
  <2>2. Tail(q) = <<>> <=> Len(Tail(q)) = 0
    BY <2>1, <1>2, Zenon
  <2>3. Len(Tail(q)) = 0 <=> Len(q) = 1
    BY <1>1, <1>2
  <2> QED
    BY <2>2, <2>3, Zenon
<1> QED
  BY <1>1, <1>2, <1>3, <1>4, <1>5

LEMMA EffectOfAsk ==
  ASSUME Typed, NEW t \in Target, NEW d \in Deployment, Ask(t, d), UNCHANGED serving
  PROVE  /\ queue' \in [Target -> Seq(Deployment)]
         /\ \A u \in Target : u # t => queue'[u] = queue[u]
         /\ Final(t)' = d
         /\ \A u \in Target : Coming(u)' = IF u = t THEN Coming(t) \cup {d} ELSE Coming(u)
<1> DEFINE q == queue[t]
<1>1. q \in Seq(Deployment) /\ queue'[t] = Append(q, d)
  BY DEF Typed, Ask
<1>2. queue' \in [Target -> Seq(Deployment)]
  <2>1. Append(q, d) \in Seq(Deployment)
    BY <1>1
  <2> QED
    BY <2>1 DEF Typed, Ask
<1>3. /\ Len(queue'[t]) = Len(q) + 1
      /\ queue'[t][Len(q) + 1] = d
      /\ \A i \in 1..Len(q) : queue'[t][i] = q[i]
      /\ Len(q) \in Nat
  BY <1>1
<1>4. queue'[t] # <<>>
  BY <1>3
<1>5. Coming(t)' = Coming(t) \cup {d}
  <2>1. 1..Len(queue'[t]) = 1..Len(q) \cup {Len(q) + 1}
    BY <1>3
  <2> QED
    BY <2>1, <1>3 DEF Coming
<1>6. \A u \in Target : u # t => queue'[u] = queue[u]
  BY DEF Ask, Typed
<1>7. \A u \in Target : Coming(u)' = IF u = t THEN Coming(t) \cup {d} ELSE Coming(u)
  BY <1>5, <1>6 DEF Coming
<1>8. Final(t)' = d
  BY <1>3, <1>4 DEF Final
<1> QED
  BY <1>2, <1>6, <1>7, <1>8

(* A request for what no pending request asks for, or for what they all    *)
(* ask for, heads for it.                                                  *)
LEMMA AskHeads ==
  ASSUME Typed, NEW t \in Target, NEW d \in Deployment, Ask(t, d), UNCHANGED serving,
         d \notin Coming(t) \/ Heading(t, serving[t])
  PROVE  Heading(t, d)'
<1> DEFINE q == queue[t]
<1>1. q \in Seq(Deployment) /\ queue'[t] = Append(q, d)
  BY DEF Typed, Ask
<1>3. /\ Len(queue'[t]) = Len(q) + 1
      /\ queue'[t][Len(q) + 1] = d
      /\ \A i \in 1..Len(q) : queue'[t][i] = q[i]
      /\ Len(q) \in Nat
  BY <1>1
<1>4. CASE d \notin Coming(t)
  BY <1>3, <1>4 DEF Coming, Heading
<1>5. CASE Heading(t, serving[t])
  <2>1. \A i \in 1..Len(q) : q[i] = serving[t]
    BY <1>5 DEF Heading
  <2>2. \A i \in 1..Len(queue'[t]) :
          queue'[t][i] = IF i = Len(q) + 1 THEN d ELSE serving[t]
    BY <2>1, <1>3
  <2>3. serving' = serving
    OBVIOUS
  <2> QED
    BY <2>2, <2>3, <1>3 DEF Heading
<1> QED
  BY <1>4, <1>5

LEMMA EffectOfCarryOut ==
  ASSUME Typed, NEW t \in Target, CarryOut(t)
  PROVE  /\ queue' \in [Target -> Seq(Deployment)]
         /\ serving' \in [Target -> Deployment]
         /\ \A u \in Target : u # t => queue'[u] = queue[u] /\ serving'[u] = serving[u]
         /\ t \notin dropped' => Final(t)' = Final(t)
         /\ Coming(t)' \subseteq Coming(t)
         /\ \A d \in Deployment : Heading(t, d) => Heading(t, d)'
         /\ \A d \in Deployment : Heading(t, d) /\ serving[t] = d => serving'[t] = d
<1> DEFINE q == queue[t]
<1>1. q \in Seq(Deployment) /\ q # <<>> /\ queue'[t] = Tail(q)
  BY DEF Typed, CarryOut
<1>2. /\ Len(q) \in Nat \ {0}
      /\ Len(queue'[t]) = Len(q) - 1
      /\ \A i \in 1..(Len(q) - 1) : queue'[t][i] = q[i + 1]
      /\ queue'[t] \in Seq(Deployment)
      /\ Head(q) = q[1] /\ q[1] \in Deployment
      /\ queue'[t] = <<>> <=> Len(q) = 1
  BY <1>1, TailOfSequence
<1>3. queue' \in [Target -> Seq(Deployment)]
  BY <1>1, <1>2 DEF Typed, CarryOut
<1>4. serving'[t] \in {serving[t], q[1]} /\ serving' \in [Target -> Deployment]
  BY <1>2 DEF Typed, CarryOut
<1>5. \A u \in Target : u # t => queue'[u] = queue[u] /\ serving'[u] = serving[u]
  BY DEF Typed, CarryOut
<1>6. ASSUME t \notin dropped'
      PROVE  Final(t)' = Final(t)
  <2>1. serving'[t] = q[1]
    BY <1>6, <1>2 DEF Typed, CarryOut
  <2> QED
    BY <2>1, <1>1, <1>2 DEF Final
<1>7. Coming(t)' \subseteq Coming(t)
  <2>1. \A i \in 1..(Len(q) - 1) : i + 1 \in 1..Len(q)
    BY <1>2
  <2>2. 1 \in 1..Len(q)
    BY <1>2
  <2> QED
    BY <2>1, <2>2, <1>2, <1>4 DEF Coming
<1>8. ASSUME NEW d \in Deployment, Heading(t, d)
      PROVE  Heading(t, d)' /\ (serving[t] = d => serving'[t] = d)
  <2>1. serving[t] = d => \A i \in 1..Len(q) : q[i] = d
    BY <1>8 DEF Heading
  <2>2. \A i, j \in 1..Len(q) : i < j /\ q[i] = d => q[j] = d
    BY <1>8 DEF Heading
  <2>3. 1 \in 1..Len(q) /\ \A i \in 1..(Len(q) - 1) : i + 1 \in 1..Len(q) /\ 1 < i + 1
    BY <1>2
  <2>4. serving[t] = d => serving'[t] = d
    BY <2>1, <2>3, <1>4
  <2>5. serving'[t] = d => \A i \in 1..Len(queue'[t]) : queue'[t][i] = d
    BY <2>1, <2>2, <2>3, <1>2, <1>4
  <2>6. \A i, j \in 1..Len(queue'[t]) : i < j /\ queue'[t][i] = d => queue'[t][j] = d
    <3>1. ASSUME NEW i \in 1..(Len(q) - 1), NEW j \in 1..(Len(q) - 1), i < j, q[i + 1] = d
          PROVE  q[j + 1] = d
      BY <3>1, <2>2, <2>3, <1>2
    <3> QED
      BY <3>1, <1>2
  <2> QED
    BY <2>4, <2>5, <2>6 DEF Heading
<1> QED
  BY <1>3, <1>4, <1>5, <1>6, <1>7, <1>8

-----------------------------------------------------------------------------

LEMMA CandidateIsDeployment ==
  ASSUME Typed, NEW t \in Target
  PROVE  Candidate(t) \in Deployment
<1>1. [sha |-> sha, run |-> runs] \in Deployment
  BY PromotionAssumption DEF Typed, Deployment, Sha
<1> QED
  BY <1>1 DEF Typed, Candidate, Target

(* What a step can do to the provider's side.                              *)
LEMMA StepsOfProvider ==
  ASSUME Typed, [Next]_vars
  PROVE  \/ UNCHANGED <<serving, queue, dropped>>
         \/ /\ Post \/ Restore
            /\ \E d \in Deployment : Ask(at, d) /\ UNCHANGED <<serving, dropped>>
         \/ \E t \in Target : CarryOut(t)
<1>1. CASE Post
  BY <1>1, CandidateIsDeployment DEF Post, Typed
<1>2. CASE Restore
  <2>1. previous[at] \in Deployment
    BY DEF Typed
  <2> QED
    BY <1>2, <2>1 DEF Restore
<1> QED
  BY <1>1, <1>2 DEF Next, Step, vars, provider, Push, Start, Current, Stage, ReadMain, CommandFails, Observe,
     Probe, PromotionFails, Skip, Settle, RestoreFails, Die

LEMMA TypedInit == Init => Typed
<1> SUFFICES ASSUME Init PROVE Typed
  OBVIOUS
<1>1. serving \in [Target -> Deployment]
  <2>1. \A s \in {0, 1} : [sha |-> s, run |-> 0] \in Deployment
    BY PromotionAssumption DEF Deployment
  <2> QED
    BY <2>1 DEF Init
<1>2. queue \in [Target -> Seq(Deployment)]
  BY DEF Init
<1>3. previous \in [Target -> Deployment]
  BY PromotionAssumption DEF Init, Unread, Deployment
<1> QED
  BY <1>1, <1>2, <1>3, PromotionAssumption DEF Init, Typed, Target, Sha

LEMMA TypedStep == Typed /\ [Next]_vars => Typed'
<1> SUFFICES ASSUME Typed, [Next]_vars PROVE Typed'
  OBVIOUS
<1>1. queue' \in [Target -> Seq(Deployment)] /\ serving' \in [Target -> Deployment]
  <2>1. CASE UNCHANGED <<serving, queue, dropped>>
    BY <2>1 DEF Typed
  <2>2. CASE \E d \in Deployment : Ask(at, d) /\ UNCHANGED <<serving, dropped>>
    BY <2>2, EffectOfAsk DEF Typed
  <2>3. CASE \E t \in Target : CarryOut(t)
    BY <2>3, EffectOfCarryOut
  <2> QED
    BY <2>1, <2>2, <2>3, StepsOfProvider
<1>2. previous' \in [Target -> Deployment]
  <2>1. CASE Start
    BY <2>1, PromotionAssumption DEF Start, Unread, Deployment
  <2>2. CASE Current
    BY <2>2 DEF Current, Typed
  <2> QED
    BY <2>1, <2>2 DEF Next, Step, vars, Typed, Push, Stage, ReadMain, CommandFails, Post, Observe,
       Probe, PromotionFails, Skip, Restore, Settle, RestoreFails, Die, CarryOut
<1>3. accepted' \subseteq [Target -> Deployment]
  <2>1. CASE Probe
    BY <2>1, CandidateIsDeployment DEF Probe, Typed
  <2> QED
    BY <2>1 DEF Next, Step, vars, Typed, Push, Start, Current, Stage, ReadMain, CommandFails, Post, Observe,
       PromotionFails, Skip, Restore, Settle, RestoreFails, Die, CarryOut, history
<1>4. main' \in Sha /\ sha' \in Sha /\ runs' \in 0..MaxRuns
  BY PromotionAssumption DEF Sha, Next, Step, vars, Typed, Push, Start, Current, Stage, ReadMain, CommandFails, Post, Observe,
     Probe, PromotionFails, Skip, Restore, Settle, RestoreFails, Die, CarryOut
<1>5. eligible' \subseteq Target
  BY DEF Next, Step, vars, Typed, Push, Start, Current, Stage, ReadMain, CommandFails, Post, Observe,
     Probe, PromotionFails, Skip, Restore, Settle, RestoreFails, Die, CarryOut
<1>6. unrestored' \subseteq Target
  BY DEF Next, Step, vars, Typed, Push, Start, Current, Stage, ReadMain, CommandFails, Post, Observe,
     Probe, PromotionFails, Skip, Restore, Settle, RestoreFails, Die, CarryOut, LeaveUnrestored
<1>7. at' \in Target
  BY DEF Next, Step, vars, Typed, Push, Start, Current, Stage, ReadMain, CommandFails, Post, Observe,
     Probe, PromotionFails, Skip, Restore, Settle, RestoreFails, Die, CarryOut, LeaveUnrestored,
     NextRestore, Compensate, Target
<1>8. pc' \in {"idle"} \cup Reading \cup Promoting \cup Restoring
  BY DEF Next, Step, vars, Typed, Push, Start, Current, Stage, ReadMain, CommandFails, Post, Observe,
     Probe, PromotionFails, Skip, Restore, Settle, RestoreFails, Die, CarryOut, LeaveUnrestored,
     NextRestore, Compensate, End, Reading, Promoting, Restoring
<1> QED
  BY <1>1, <1>2, <1>3, <1>4, <1>5, <1>6, <1>7, <1>8 DEF Typed

-----------------------------------------------------------------------------
(* The rollback and the order of releases.                                 *)

(* Nothing of this run is or will be on a target that it has not touched.  *)
Untouched ==
  /\ \A t \in Target : \A d \in Coming(t) : d.run <= runs
  /\ pc # "idle" \/ outcome = "restored" =>
       /\ \A t \in Target : previous[t].run < runs
       /\ \A t \in Target \ eligible : \A d \in Coming(t) : d.run < runs

(* What the rollback has passed.                                           *)
Behind(t) ==
  \/ pc = "idle" /\ outcome = "restored"
  \/ pc \in Restoring /\ (t \in Later(at) \/ (t = at /\ pc # "restore"))

Returned ==
  /\ pc \in Reading => eligible = {}
  /\ pc # "idle" => outcome = "none"
  /\ outcome = "restored" => unrestored = {}
  /\ \A t \in Target :
       t \in eligible /\ t \notin unrestored /\ t \notin dropped /\ Behind(t) => Final(t) = previous[t]

(* Main is never behind a release, nor is a commit that is promoted.       *)
Ahead ==
  /\ sha <= main
  /\ \A release \in accepted : release["agent"].sha <= main
  /\ pc \in Promoting => \A release \in accepted : release["agent"].sha <= sha

Inv == Typed /\ Untouched /\ Returned /\ Ahead

LEMMA InvInit == Init => Inv
<1> SUFFICES ASSUME Init PROVE Inv
  OBVIOUS
<1>1. Typed
  BY TypedInit
<1>2. Untouched
  <2>1. \A t \in Target : serving[t].run = 0 /\ queue[t] = <<>>
    BY DEF Init, Target
  <2>2. \A t \in Target : Coming(t) = {serving[t]}
    BY <2>1 DEF Coming
  <2> QED
    BY <2>1, <2>2 DEF Init, Untouched
<1>3. Returned
  BY DEF Init, Returned, Reading
<1>4. Ahead
  <2>1. serving["agent"].sha \in {0, 1}
    BY DEF Init, Target
  <2> QED
    BY <2>1 DEF Init, Ahead, Promoting
<1> QED
  BY <1>1, <1>2, <1>3, <1>4 DEF Inv

LEMMA UntouchedStep == Inv /\ [Next]_vars => Untouched'
<1> SUFFICES ASSUME Inv, [Next]_vars PROVE Untouched'
  OBVIOUS
<1> Typed /\ Untouched /\ Returned
  BY DEF Inv
<1>0. \A t \in Target : \A d \in Coming(t) : d \in Deployment
  BY DEF Coming, Typed
<1>1. CASE Start
  <2>1. \A t \in Target : Coming(t)' = Coming(t)
    BY <1>1 DEF Start, provider, Coming
  <2> QED
    BY <1>0, <1>1, <2>1 DEF Start, Untouched, Unread, Typed, Deployment
<1>2. CASE Current
  <2>1. \A t \in Target : Coming(t)' = Coming(t) /\ serving[t] \in Coming(t)
    BY <1>2 DEF Current, provider, Coming
  <2>2. eligible = {} /\ eligible' = {}
    BY <1>2 DEF Current, Returned, Reading
  <2>3. \A t \in Target : previous'[t] \in {previous[t], serving[t]}
    BY <1>2 DEF Current, Typed
  <2> QED
    BY <1>0, <1>2, <2>1, <2>2, <2>3 DEF Current, Untouched
<1>3. ASSUME ~Start, pc' # "idle" \/ outcome' = "restored"
      PROVE  pc # "idle" \/ outcome = "restored"
  BY <1>3 DEF Next, Step, vars, Push, Current, Stage, ReadMain, CommandFails, Post, Observe, Reading, Promoting,
     Probe, PromotionFails, Skip, Restore, Settle, RestoreFails, Die, CarryOut, End
<1>4. ASSUME ~Start, ~Current
      PROVE  UNCHANGED <<runs, previous>> /\ eligible \subseteq eligible'
  BY <1>4 DEF Next, Step, vars, Push, Stage, ReadMain, CommandFails, Post, Observe,
     Probe, PromotionFails, Skip, Restore, Settle, RestoreFails, Die, CarryOut
<1>5. CASE UNCHANGED <<serving, queue, dropped>> /\ ~Start /\ ~Current
  <2>1. \A t \in Target : Coming(t)' = Coming(t)
    BY <1>5 DEF Coming
  <2> QED
    BY <1>3, <1>4, <1>5, <2>1 DEF Untouched
<1>6. CASE Post
  <2>1. Candidate(at).run <= runs
    <3>1. \A t \in Target : previous[t].run <= runs
      BY <1>6 DEF Post, Untouched, Typed, Deployment
    <3>2. runs <= runs /\ at \in Target /\ "agent" \in Target
      BY DEF Typed, Target
    <3> QED
      BY <3>1, <3>2 DEF Candidate
  <2>2. at \in Target /\ Candidate(at) \in Deployment
    BY CandidateIsDeployment DEF Typed
  <2>3. CASE UNCHANGED queue
    BY <2>3, <1>5, <1>6 DEF Post, Start, Current
  <2>4. CASE Ask(at, Candidate(at))
    <3>1. \A t \in Target : Coming(t)' = IF t = at THEN Coming(t) \cup {Candidate(at)} ELSE Coming(t)
      <4>1. UNCHANGED serving
        BY <1>6 DEF Post
      <4> QED
        BY <4>1, <2>2, <2>4, EffectOfAsk, Zenon
    <3>2. pc # "idle" /\ UNCHANGED <<runs, previous>> /\ eligible' = eligible \cup {at}
      BY <1>6 DEF Post
    <3>3. \A t \in Target : \A d \in Coming(t)' : d.run <= runs
      BY <3>1, <2>1 DEF Untouched
    <3>4. \A t \in Target \ eligible' : Coming(t)' = Coming(t)
      BY <3>1, <3>2
    <3> QED
      BY <3>2, <3>3, <3>4 DEF Untouched
  <2> QED
    BY <2>3, <2>4, <1>6 DEF Post
<1>7. CASE Restore
  <2>1. at \in Target /\ previous[at] \in Deployment /\ at \in eligible /\ pc # "idle"
    BY <1>7 DEF Restore, Typed
  <2>2. previous[at].run <= runs
    BY <2>1 DEF Untouched, Typed, Deployment
  <2>3. CASE UNCHANGED queue
    BY <2>3, <1>5, <1>7 DEF Restore, Start, Current
  <2>4. CASE Ask(at, previous[at])
    <3>1. \A t \in Target : Coming(t)' = IF t = at THEN Coming(t) \cup {previous[at]} ELSE Coming(t)
      <4>1. UNCHANGED serving
        BY <1>7 DEF Restore
      <4> QED
        BY <4>1, <2>1, <2>4, EffectOfAsk, Zenon
    <3>2. UNCHANGED <<runs, previous, eligible>>
      BY <1>7 DEF Restore
    <3> QED
      BY <3>1, <3>2, <2>1, <2>2 DEF Untouched
  <2> QED
    BY <2>3, <2>4, <1>7 DEF Restore
<1>8. ASSUME NEW t \in Target, CarryOut(t)
      PROVE  Untouched'
  <2>1. \A u \in Target : Coming(u)' \subseteq Coming(u)
    BY <1>8, EffectOfCarryOut DEF Coming
  <2>2. UNCHANGED <<runs, previous, eligible, pc, outcome>>
    BY <1>8 DEF CarryOut
  <2> QED
    BY <2>1, <2>2 DEF Untouched
<1> QED
  BY <1>1, <1>2, <1>5, <1>6, <1>7, <1>8, StepsOfProvider

LEMMA RestoringGoesOn ==
  ASSUME Typed, Returned, NextRestore, pc \in Restoring
  PROVE  /\ \A t \in Target : Behind(t)' => t = at \/ Behind(t)
         /\ pc' \notin Reading
         /\ pc' # "idle" => outcome' = "none"
         /\ outcome' = "restored" => unrestored' = {}
BY DEF Typed, Returned, NextRestore, Behind, Later, End, Target, Restoring, Reading

LEMMA ReturnedStep == Inv /\ [Next]_vars => Returned'
<1> SUFFICES ASSUME Inv, [Next]_vars PROVE Returned'
  OBVIOUS
<1> Typed /\ Returned
  BY DEF Inv
<1> DEFINE Nobody == \A t \in Target : ~Behind(t)'
           Orderly == /\ pc' \in Reading => eligible' = {}
                      /\ pc' # "idle" => outcome' = "none"
                      /\ outcome' = "restored" => unrestored' = {}
<1>1. ASSUME Orderly, Nobody
      PROVE  Returned'
  BY <1>1, TypedStep DEF Returned, Typed
<1>2. CASE Start \/ Current \/ Stage \/ ReadMain \/ CommandFails
  <2>1. eligible' = {}
    BY <1>2 DEF Start, Current, Stage, ReadMain, CommandFails, Returned, Reading
  <2>2. Orderly
    BY <1>2, <2>1 DEF Start, Current, Stage, ReadMain, CommandFails, End, Returned, Reading
  <2> QED
    BY <2>1, <2>2 DEF Returned
<1>3. CASE Post \/ Observe \/ Probe \/ PromotionFails \/ Die
  <2>1. Orderly
    BY <1>3 DEF Post, Observe, Probe, PromotionFails, Die, Compensate, End, Returned, Reading, Promoting
  <2>2. Nobody
    BY <1>3 DEF Post, Observe, Probe, PromotionFails, Die, Compensate, End, Returned, Reading, Promoting,
       Restoring, Behind, Later
  <2> QED
    BY <1>1, <2>1, <2>2
<1>4. CASE Skip
  <2>1. /\ UNCHANGED <<serving, queue, dropped, eligible, previous, unrestored>>
        /\ NextRestore /\ pc \in Restoring /\ at \notin eligible
    BY <1>4 DEF Skip, provider, Restoring
  <2>2. \A t \in Target : Final(t)' = Final(t)
    BY <2>1 DEF Final
  <2> QED
    BY <2>1, <2>2, RestoringGoesOn DEF Returned
<1>5. CASE RestoreFails
  <2>1. /\ UNCHANGED <<serving, queue, dropped, eligible, previous>>
        /\ NextRestore /\ pc \in Restoring /\ unrestored' = unrestored \cup {at}
    BY <1>5 DEF RestoreFails, LeaveUnrestored, provider, Restoring
  <2>2. \A t \in Target : Final(t)' = Final(t)
    BY <2>1 DEF Final
  <2> QED
    BY <2>1, <2>2, RestoringGoesOn DEF Returned
<1>6. CASE Settle
  <2>1. /\ UNCHANGED <<serving, queue, dropped, eligible, previous, unrestored>>
        /\ pc \in Restoring /\ pc # "restore"
    BY <1>6 DEF Settle, provider, Restoring
  <2>2. \A t \in Target : Final(t)' = Final(t)
    BY <2>1 DEF Final
  <2>3. CASE NextRestore
    <3>1. Behind(at)
      BY <2>1 DEF Behind
    <3> QED
      BY <2>1, <2>2, <2>3, <3>1, RestoringGoesOn DEF Returned
  <2>4. CASE pc = "settle" /\ pc' = "confirm" /\ UNCHANGED <<at, outcome>>
    <3>1. \A t \in Target : Behind(t)' => Behind(t)
      BY <2>4 DEF Behind, Restoring
    <3>2. Orderly
      BY <2>1, <2>4 DEF Returned, Reading
    <3> QED
      BY <2>1, <2>2, <3>1, <3>2 DEF Returned
  <2> QED
    BY <1>6, <2>3, <2>4 DEF Settle
<1>7. CASE Restore
  <2>1. /\ UNCHANGED <<serving, dropped, eligible, previous>>
        /\ pc = "restore" /\ at \in Target /\ previous[at] \in Deployment
    BY <1>7 DEF Restore, Typed
  <2>2. \A t \in Target : t # at => Final(t)' = Final(t)
    <3>1. queue' = queue \/ Ask(at, previous[at])
      BY <1>7 DEF Restore
    <3>2. \A t \in Target : t # at => queue'[t] = queue[t]
      BY <3>1, <2>1, EffectOfAsk
    <3> QED
      BY <3>2, <2>1 DEF Final
  <2>3. CASE Ask(at, previous[at]) /\ pc' = "settle" /\ UNCHANGED <<at, unrestored, outcome>>
    <3>1. Final(at)' = previous[at]
      BY <2>1, <2>3, EffectOfAsk
    <3>2. \A t \in Target : Behind(t)' => t = at \/ Behind(t)
      BY <2>1, <2>3 DEF Behind, Restoring
    <3>3. Orderly
      BY <2>1, <2>3 DEF Returned, Reading
    <3> QED
      BY <2>1, <2>2, <2>3, <3>1, <3>2, <3>3 DEF Returned
  <2>4. CASE LeaveUnrestored
    <3>1. NextRestore /\ pc \in Restoring /\ unrestored' = unrestored \cup {at}
      BY <2>1, <2>4 DEF LeaveUnrestored, Restoring
    <3> QED
      BY <2>1, <2>2, <3>1, RestoringGoesOn DEF Returned
  <2> QED
    BY <1>7, <2>3, <2>4 DEF Restore
<1>8. ASSUME NEW t \in Target, CarryOut(t)
      PROVE  Returned'
  <2>1. UNCHANGED <<eligible, previous, unrestored, pc, at, outcome>> /\ dropped \subseteq dropped'
    BY <1>8 DEF CarryOut
  <2>2. \A u \in Target : u \notin dropped' => Final(u)' = Final(u)
    BY <1>8, EffectOfCarryOut DEF Final
  <2>3. \A u \in Target : Behind(u)' = Behind(u)
    BY <2>1 DEF Behind
  <2> QED
    BY <2>1, <2>2, <2>3 DEF Returned
<1>9. CASE Push \/ UNCHANGED vars
  BY <1>9 DEF Push, provider, vars, Returned, Behind, Final
<1> QED
  BY <1>2, <1>3, <1>4, <1>5, <1>6, <1>7, <1>8, <1>9 DEF Next, Step

LEMMA AheadStep == Inv /\ [Next]_vars => Ahead'
<1> SUFFICES ASSUME Inv, [Next]_vars PROVE Ahead'
  OBVIOUS
<1> Typed /\ Ahead
  BY DEF Inv
<1>0. ASSUME NEW release \in accepted
      PROVE  release["agent"].sha \in Nat
  <2>1. release \in [Target -> Deployment] /\ "agent" \in Target
    BY DEF Typed, Target
  <2>2. release["agent"] \in Deployment
    BY <2>1
  <2>3. release["agent"].sha \in 0..MaxSha
    BY <2>2 DEF Deployment
  <2> QED
    BY <2>3
<1>1. CASE Push
  BY <1>0, <1>1 DEF Push, history, Ahead, Typed, Sha
<1>2. CASE Start
  BY <1>0, <1>2 DEF Start, history, Ahead, Typed, Promoting, Sha
<1>3. CASE ReadMain
  BY <1>3 DEF ReadMain, history, Ahead, Typed, Promoting, End
<1>4. CASE Probe
  <2>1. Candidate("agent").sha = sha
    BY DEF Candidate, PublicTargetsAreCurrent
  <2>2. accepted' = accepted \cup {[t \in Target |-> Candidate(t)]} /\ UNCHANGED <<main, sha>>
    BY <1>4 DEF Probe
  <2>3. \A release \in accepted' : release \in accepted \/ release["agent"].sha = sha
    BY <2>1, <2>2 DEF Target
  <2>4. pc' \notin Promoting
    BY <1>4 DEF Probe, End, Promoting
  <2> QED
    BY <2>2, <2>3, <2>4 DEF Ahead, Typed
<1>5. ASSUME ~Push, ~Start, ~ReadMain, ~Probe
      PROVE  UNCHANGED <<main, sha, accepted>> /\ (pc' \in Promoting => pc \in Promoting)
  BY <1>5 DEF Next, Step, vars, history, Current, Stage, CommandFails, Post, Observe, PromotionFails,
     Skip, Restore, Settle, RestoreFails, Die, CarryOut, LeaveUnrestored, NextRestore, Compensate, End,
     Promoting, Restoring
<1> QED
  BY <1>1, <1>2, <1>3, <1>4, <1>5 DEF Ahead

LEMMA Invariance == Spec => []Inv
<1>1. Inv /\ [Next]_vars => Inv'
  BY TypedStep, UntouchedStep, ReturnedStep, AheadStep DEF Inv
<1> QED
  BY <1>1, InvInit, PTL DEF Spec

(* A failed run that does not report its rollback as failed has undone     *)
(* what it did, whatever an earlier run left under way (rollbackEligibility *)
(* and the reverse order of production.live.layer.ts).                     *)
THEOREM RollbacksComplete == Spec => []RollbackIsComplete
<1>1. Inv => RollbackIsComplete
  <2> SUFFICES ASSUME Inv, outcome = "restored", NEW t \in Target \ dropped
               PROVE  Final(t) = previous[t] \/ (t \notin eligible /\ Final(t).run # runs)
    BY DEF RollbackIsComplete
  <2>1. CASE t \in eligible
    BY <2>1 DEF Inv, Returned, Behind
  <2>2. CASE t \notin eligible
    <3>1. Final(t) \in Coming(t)
      <4>1. queue[t] \in Seq(Deployment)
        BY DEF Inv, Typed
      <4>2. queue[t] # <<>> => Len(queue[t]) \in 1..Len(queue[t])
        BY <4>1
      <4> QED
        BY <4>2 DEF Final, Coming
    <3>2. Final(t).run < runs
      BY <2>2, <3>1 DEF Inv, Untouched
    <3>3. Final(t).run \in Nat /\ runs \in Nat
      <4>1. Final(t) \in Deployment
        BY <3>1 DEF Inv, Typed, Coming
      <4> QED
        BY <4>1 DEF Inv, Typed, Deployment
    <3> QED
      BY <2>2, <3>2, <3>3
  <2> QED
    BY <2>1, <2>2
<1> QED
  BY <1>1, Invariance, PTL

(* Whatever the order of runs and repeats, a release that is reported is   *)
(* of a commit no older than any before (the check of main before the      *)
(* promotion).                                                             *)
THEOREM NeverRegresses == Spec => ReleasesNeverRegress
<1>1. Inv /\ [Next]_vars =>
        [accepted' # accepted => \A release \in accepted : release["agent"].sha <= sha]_vars
  <2> SUFFICES ASSUME Inv, Next, accepted' # accepted
               PROVE  \A release \in accepted : release["agent"].sha <= sha
    BY DEF vars
  <2>1. Probe
    BY DEF Next, Step, Push, Start, Current, Stage, ReadMain, CommandFails, Post, Observe, PromotionFails,
       Skip, Restore, Settle, RestoreFails, Die, CarryOut, history
  <2>2. pc \in Promoting
    BY <2>1 DEF Probe, Promoting
  <2> QED
    BY <2>2 DEF Inv, Ahead
<1> QED
  BY <1>1, Invariance, PTL DEF Spec, ReleasesNeverRegress

-----------------------------------------------------------------------------
(* All or nothing, and the truth of the receipts.                          *)

(* What the requests under way lead to, as long as the runs know of them.  *)
Goal(t) ==
  IF pc = "wait" /\ t = at THEN Candidate(t)
  ELSE IF pc = "settle" /\ t = at THEN previous[t] ELSE serving[t]

Quiet ==
  uncertain = {} => \A t \in Target : Heading(t, Goal(t))

(* What the promotion has seen on its candidate.                           *)
Moved(t) ==
  \/ pc \in {"post", "wait"} /\ t \in Earlier(at)
  \/ pc = "validate" /\ (t \in Earlier(at) \/ t = at)
  \/ pc = "probe"

Control ==
  /\ pc = "probe" => at = "callback"
  /\ pc \in Promoting => \A t \in eligible : t \in Earlier(at) \/ (t = at /\ pc # "post")
  /\ pc \in {"wait", "validate", "settle", "confirm"} => at \in eligible
  /\ outcome = "promoted" => ~PublicTargetsAreCurrent(previous)

(* A deployment that the run has staged is nobody else's; of one that it   *)
(* found it is sure only if nothing is under way.                          *)
Sure == uncertain = {} \/ ~PublicTargetsAreCurrent(previous)

Reached ==
  pc \in Promoting /\ Sure =>
    /\ \A t \in Target : Moved(t) => serving[t] = Candidate(t) /\ Heading(t, Candidate(t))
    /\ pc = "wait" => Heading(at, Candidate(at))

Reported ==
  outcome \in Success /\ Sure =>
    \A t \in Target : serving[t].sha = sha /\ Heading(t, serving[t])

(* What was read still stands.                                             *)
Known ==
  uncertain = {} /\ pc \in Reading =>
    \A t \in Target : pc # "current" \/ t \in Earlier(at) => previous[t] = serving[t]

Whole ==
  uncertain = {} /\ ~died =>
    /\ pc \in {"idle"} \cup Reading => serving \in accepted
    /\ pc \in Promoting \cup Restoring =>
         previous \in accepted /\ \A t \in Target \ eligible : serving[t] = previous[t]
    /\ pc \in Restoring =>
         \A t \in Target : t \in Later(at) \/ (t = at /\ pc = "confirm") => serving[t] = previous[t]

SafeInv == Inv /\ Quiet /\ Control /\ Reached /\ Reported /\ Known /\ Whole

LEMMA CandidateIsOfTheCommit ==
  ASSUME NEW t \in Target
  PROVE  Candidate(t).sha = sha
BY DEF Candidate, PublicTargetsAreCurrent, Target

LEMMA EmptyHeads ==
  ASSUME NEW t \in Target, queue[t] = <<>>
  PROVE  \A d : Heading(t, d)
BY DEF Heading

(* Who gives requests up is certain only where none is left.               *)
LEMMA GivenUp ==
  ASSUME uncertain' = uncertain \cup Outstanding', uncertain' = {}, NEW t \in Target
  PROVE  \A d : Heading(t, d)'
<1>1. queue'[t] = <<>>
  BY DEF Outstanding
<1> QED
  BY <1>1 DEF Heading

(* Where nothing is uncertain, the provider only moves the target that the *)
(* run is waiting for.                                                     *)
LEMMA CarryOutKeeps ==
  ASSUME Typed, Quiet, uncertain = {}, NEW t \in Target, CarryOut(t),
         NEW u \in Target, ~(u = at /\ pc \in {"wait", "settle"})
  PROVE  serving'[u] = serving[u]
<1>1. CASE u # t
  BY <1>1, EffectOfCarryOut
<1>2. CASE u = t
  <2>1. Heading(t, serving[t]) /\ serving[t] \in Deployment
    BY <1>2 DEF Quiet, Goal, Typed
  <2> QED
    BY <1>2, <2>1, EffectOfCarryOut
<1> QED
  BY <1>1, <1>2

LEMMA QuietStep == Inv /\ Quiet /\ [Next]_vars => Quiet'
<1> SUFFICES ASSUME Inv, Quiet, [Next]_vars, uncertain' = {}, NEW t \in Target
             PROVE  Heading(t, Goal(t))'
  BY DEF Quiet
<1> Typed
  BY DEF Inv
<1>1. uncertain = {}
  BY DEF Next, Step, vars, history, Push, Start, Current, Stage, ReadMain, CommandFails, Post, Observe, Probe,
     PromotionFails, Skip, Restore, Settle, RestoreFails, Die, CarryOut, Compensate, LeaveUnrestored
<1>2. Heading(t, Goal(t)) /\ Goal(t) \in Deployment
  BY <1>1, CandidateIsDeployment DEF Quiet, Goal, Typed
<1>3. ASSUME UNCHANGED <<serving, queue>>, pc' \notin {"wait", "settle"},
             Goal(t) = serving[t]
      PROVE  Heading(t, Goal(t))'
  BY <1>2, <1>3 DEF Goal, Heading
<1>4. CASE Push \/ UNCHANGED vars
  BY <1>2, <1>4 DEF Push, provider, vars, Goal, Heading, Candidate, PublicTargetsAreCurrent
<1>5. CASE Start \/ Current \/ Stage \/ ReadMain \/ CommandFails
  <2>1. UNCHANGED <<serving, queue>> /\ pc \notin {"wait", "settle"} /\ pc' \notin {"wait", "settle"}
    BY <1>5 DEF Start, Current, Stage, ReadMain, CommandFails, provider, End, Reading
  <2> QED
    BY <1>3, <2>1 DEF Goal
<1>6. CASE Post
  <2>1. CASE Compensate
    BY <2>1, GivenUp DEF Compensate
  <2>2. CASE Ask(at, Candidate(at)) /\ pc' = "wait" /\ UNCHANGED <<at, uncertain>>
    <3>1. /\ pc = "post" /\ UNCHANGED <<serving, sha, runs, previous>>
          /\ at \in Target /\ Candidate(at) \in Deployment
      BY <1>6, CandidateIsDeployment DEF Post, Typed
    <3>2. CASE t = at
      <4>1. Heading(at, serving[at])
        BY <1>2, <3>1, <3>2 DEF Goal
      <4>2. PICK d \in Deployment : d = Candidate(at)
        BY <3>1
      <4>3. Heading(t, d)'
        BY <2>2, <3>1, <3>2, <4>1, <4>2, AskHeads
      <4>4. Goal(t)' = d
        BY <2>2, <3>1, <3>2, <4>2 DEF Goal, Candidate, PublicTargetsAreCurrent
      <4> QED
        BY <4>3, <4>4 DEF Heading
    <3>3. CASE t # at
      <4>1. queue'[t] = queue[t]
        BY <2>2, <3>1, <3>3 DEF Ask, Typed
      <4> QED
        BY <1>2, <2>2, <3>1, <3>3, <4>1 DEF Goal, Heading
    <3> QED
      BY <3>2, <3>3
  <2> QED
    BY <1>6, <2>1, <2>2 DEF Post
<1>7. CASE Observe
  <2>1. UNCHANGED <<serving, queue>> /\ pc' \notin {"wait", "settle"} /\ serving[at] = Candidate(at) /\ pc # "settle"
    BY <1>7 DEF Observe, provider
  <2> QED
    BY <1>3, <2>1 DEF Goal
<1>8. CASE Probe
  BY <1>3, <1>8 DEF Probe, provider, End, Goal
<1>9. CASE PromotionFails \/ Die
  <2>1. uncertain' = uncertain \cup Outstanding'
    BY <1>9 DEF PromotionFails, Compensate, Die, Outstanding, provider
  <2> QED
    BY <2>1, GivenUp
<1>10. CASE Skip
  BY <1>3, <1>10 DEF Skip, NextRestore, End, provider, Goal
<1>11. CASE Restore
  <2>1. CASE LeaveUnrestored
    BY <2>1 DEF LeaveUnrestored
  <2>2. CASE Ask(at, previous[at]) /\ pc' = "settle" /\ UNCHANGED <<at, unrestored, outcome, uncertain>>
    <3>1. pc = "restore" /\ UNCHANGED <<serving, previous>> /\ at \in Target /\ previous[at] \in Deployment
      BY <1>11 DEF Restore, Typed
    <3>2. CASE t = at
      <4>1. Heading(at, serving[at])
        BY <1>2, <3>1, <3>2 DEF Goal
      <4>2. PICK d \in Deployment : d = previous[at]
        BY <3>1
      <4>3. Heading(t, d)'
        BY <2>2, <3>1, <3>2, <4>1, <4>2, AskHeads
      <4>4. Goal(t)' = d
        BY <2>2, <3>1, <3>2, <4>2 DEF Goal
      <4> QED
        BY <4>3, <4>4 DEF Heading
    <3>3. CASE t # at
      <4>1. queue'[t] = queue[t]
        BY <2>2, <3>1, <3>3 DEF Ask, Typed
      <4> QED
        BY <1>2, <2>2, <3>1, <3>3, <4>1 DEF Goal, Heading
    <3> QED
      BY <3>2, <3>3
  <2> QED
    BY <1>11, <2>1, <2>2 DEF Restore
<1>12. CASE Settle
  <2>1. UNCHANGED <<serving, queue>> /\ pc' \notin {"wait", "settle"} /\ serving[at] = previous[at] /\ pc # "wait"
    BY <1>12 DEF Settle, NextRestore, End, provider
  <2> QED
    BY <1>3, <2>1 DEF Goal
<1>13. CASE RestoreFails
  BY <1>13 DEF RestoreFails, LeaveUnrestored
<1>14. ASSUME NEW u \in Target, CarryOut(u)
       PROVE  Heading(t, Goal(t))'
  <2>1. UNCHANGED <<pc, at, sha, runs, previous>>
    BY <1>14 DEF CarryOut
  <2>2. Heading(t, Goal(t)) /\ Goal(t) \in Deployment
    BY <1>2
  <2>3. CASE t # u
    <3>1. queue'[t] = queue[t] /\ serving'[t] = serving[t]
      BY <1>14, <2>3, EffectOfCarryOut
    <3> QED
      BY <1>2, <2>1, <3>1 DEF Goal, Heading, Candidate, PublicTargetsAreCurrent
  <2>4. CASE t = u
    <3>1. Goal(t)' = Goal(t)
      <4>1. serving[t] = Goal(t) => serving'[t] = Goal(t)
        BY <1>14, <2>2, <2>4, EffectOfCarryOut
      <4> QED
        BY <2>1, <4>1 DEF Goal, Candidate, PublicTargetsAreCurrent
    <3>2. PICK d \in Deployment : d = Goal(t)
      BY <1>2
    <3>3. Heading(t, d)'
      BY <1>14, <1>2, <2>4, <3>2, EffectOfCarryOut
    <3> QED
      BY <3>1, <3>2, <3>3 DEF Heading
  <2> QED
    BY <2>3, <2>4
<1> QED
  BY <1>4, <1>5, <1>6, <1>7, <1>8, <1>9, <1>10, <1>11, <1>12, <1>13, <1>14 DEF Next, Step

LEMMA ControlStep == Inv /\ Control /\ [Next]_vars => Control'
<1> SUFFICES ASSUME Inv, Control, [Next]_vars PROVE Control'
  OBVIOUS
<1> Typed /\ Returned
  BY DEF Inv
<1>1. CASE Push \/ UNCHANGED vars \/ \E t \in Target : CarryOut(t)
  BY <1>1 DEF Push, vars, CarryOut, Control, PublicTargetsAreCurrent
<1>2. CASE Start \/ Current \/ Stage \/ CommandFails \/ ReadMain
  <2>1. eligible' = {}
    BY <1>2 DEF Start, Current, Stage, ReadMain, CommandFails, Returned, Reading
  <2> QED
    BY <1>2, <2>1 DEF Start, Current, Stage, ReadMain, CommandFails, Control, Reading, Promoting, End, Returned
<1>3. CASE Post \/ PromotionFails \/ Die
  BY <1>3 DEF Post, PromotionFails, Die, Compensate, Control, Promoting, End, Typed, Returned
<1>4. CASE Observe
  BY <1>4 DEF Observe, Control, Promoting, Earlier, Returned, Typed, Target
<1>5. CASE Probe
  BY <1>5 DEF Probe, Control, Promoting, End, PublicTargetsAreCurrent
<1>6. CASE Skip \/ Restore \/ Settle \/ RestoreFails
  BY <1>6 DEF Skip, Restore, Settle, RestoreFails, LeaveUnrestored, NextRestore, End, Control, Promoting, Returned
<1> QED
  BY <1>1, <1>2, <1>3, <1>4, <1>5, <1>6 DEF Next, Step

(* Uncertainty stays.                                                      *)
LEMMA StillCertain == [Next]_vars /\ uncertain' = {} => uncertain = {}
BY DEF Next, Step, vars, history, Push, Start, Current, Stage, ReadMain, CommandFails, Post, Observe, Probe,
   PromotionFails, Skip, Restore, Settle, RestoreFails, Die, CarryOut, Compensate, LeaveUnrestored

LEMMA ReachedStep == SafeInv /\ [Next]_vars => Reached'
<1> SUFFICES ASSUME SafeInv, [Next]_vars, pc' \in Promoting, Sure' PROVE Reached'
  BY DEF Reached
<1> Typed /\ Untouched /\ Returned /\ Quiet /\ Control /\ Reached /\ Known
  BY DEF SafeInv, Inv
<1>1. CASE ReadMain
  <2>1. /\ pc = "main" /\ pc' = "post" /\ UNCHANGED <<provider, sha, runs, previous, history>>
        /\ at' = IF PublicTargetsAreCurrent(previous) THEN "callback" ELSE "proxy"
    BY <1>1 DEF ReadMain, End, Promoting
  <2>2. CASE PublicTargetsAreCurrent(previous)
    <3>1. uncertain = {}
      BY <2>1, <2>2 DEF Sure, PublicTargetsAreCurrent, history
    <3>2. ASSUME NEW t \in {"proxy", "agent"}
          PROVE  (serving[t] = Candidate(t) /\ Heading(t, Candidate(t)))'
      <4>1. previous[t] = serving[t] /\ Heading(t, serving[t])
        BY <2>1, <3>1 DEF Known, Quiet, Goal, Reading, Target
      <4>2. Candidate(t)' = previous[t]
        BY <2>1, <2>2 DEF Candidate, PublicTargetsAreCurrent
      <4> QED
        BY <2>1, <4>1, <4>2 DEF Heading, provider
    <3>3. \A t \in Target : Moved(t)' => t \in {"proxy", "agent"}
      BY <2>1, <2>2 DEF Moved, Earlier
    <3> QED
      BY <2>1, <3>2, <3>3 DEF Reached
  <2>3. CASE ~PublicTargetsAreCurrent(previous)
    <3>1. \A t \in Target : ~Moved(t)'
      BY <2>1, <2>3 DEF Moved, Earlier
    <3> QED
      BY <2>1, <3>1 DEF Reached
  <2> QED
    BY <2>2, <2>3
<1>2. CASE Post
  <2>1. /\ pc = "post" /\ pc' = "wait" /\ Ask(at, Candidate(at))
        /\ UNCHANGED <<serving, sha, runs, previous, at, uncertain>>
        /\ at \in Target
    BY <1>2 DEF Post, Compensate, Promoting, Typed
  <2>2. Sure /\ \A t : Candidate(t)' = Candidate(t)
    BY <2>1 DEF Sure, PublicTargetsAreCurrent, Candidate
  <2>3. ASSUME NEW t \in Target, Moved(t)'
        PROVE  (serving[t] = Candidate(t) /\ Heading(t, Candidate(t)))'
    <3>1. Moved(t) /\ t # at
      BY <2>1, <2>3 DEF Moved, Earlier, Target
    <3>2. queue'[t] = queue[t]
      BY <2>1, <3>1 DEF Ask, Typed
    <3>3. serving[t] = Candidate(t) /\ Heading(t, Candidate(t))
      BY <2>1, <2>2, <3>1 DEF Reached, Promoting
    <3> QED
      BY <2>1, <2>2, <3>2, <3>3 DEF Heading
  <2>4. PICK d \in Deployment : d = Candidate(at)
    BY <2>1, CandidateIsDeployment
  <2>5. d \notin Coming(at) \/ Heading(at, serving[at])
    <3>1. CASE uncertain = {}
      BY <2>1, <3>1 DEF Quiet, Goal
    <3>2. CASE ~PublicTargetsAreCurrent(previous)
      <4>1. d.run = runs
        BY <2>4, <3>2 DEF Candidate
      <4>2. at \notin eligible
        BY <2>1 DEF Control, Promoting, Earlier, Target
      <4>3. \A e \in Coming(at) : e.run < runs
        BY <2>1, <4>2 DEF Untouched
      <4> QED
        BY <4>1, <4>3 DEF Typed
    <3> QED
      BY <2>2, <3>1, <3>2 DEF Sure
  <2>6. PICK a \in Target : a = at
    BY <2>1
  <2>7. Heading(a, d)'
    BY <2>1, <2>4, <2>5, <2>6, AskHeads
  <2>8. Heading(at, Candidate(at))'
    BY <2>1, <2>2, <2>4, <2>6, <2>7 DEF Heading
  <2> QED
    BY <2>3, <2>8 DEF Reached
<1>3. CASE Observe
  <2>1. /\ pc \in {"wait", "validate"} /\ serving[at] = Candidate(at) /\ at \in Target
        /\ UNCHANGED <<serving, queue, sha, runs, previous, uncertain>>
        /\ pc' # "wait"
    BY <1>3 DEF Observe, provider, history, Typed
  <2>2. Sure /\ \A t : Candidate(t)' = Candidate(t)
    BY <2>1 DEF Sure, PublicTargetsAreCurrent, Candidate
  <2>3. \A t \in Target : Moved(t)' => Moved(t) \/ t = at
    BY <1>3 DEF Observe, Moved, Earlier, Target
  <2>4. Heading(at, Candidate(at))
    BY <2>1, <2>2 DEF Reached, Moved, Promoting
  <2>5. \A t \in Target : Moved(t)' => serving[t] = Candidate(t) /\ Heading(t, Candidate(t))
    BY <2>1, <2>2, <2>3, <2>4 DEF Reached, Promoting
  <2> QED
    BY <2>1, <2>2, <2>5 DEF Reached, Heading
<1>4. ASSUME NEW u \in Target, CarryOut(u)
      PROVE  Reached'
  <2>1. UNCHANGED <<pc, at, sha, runs, previous, uncertain>>
    BY <1>4 DEF CarryOut, history
  <2>2. Sure /\ \A t : Candidate(t)' = Candidate(t)
    BY <2>1 DEF Sure, PublicTargetsAreCurrent, Candidate
  <2>3. ASSUME NEW t \in Target, NEW d \in Deployment, Heading(t, d)
        PROVE  Heading(t, d)' /\ (serving[t] = d => serving'[t] = d)
    <3>1. CASE t = u
      BY <1>4, <2>3, <3>1, EffectOfCarryOut
    <3>2. CASE t # u
      <4>1. queue'[t] = queue[t] /\ serving'[t] = serving[t]
        BY <1>4, <3>2, EffectOfCarryOut
      <4> QED
        BY <2>3, <4>1 DEF Heading
    <3> QED
      BY <3>1, <3>2
  <2>4. ASSUME NEW t \in Target, Heading(t, Candidate(t))
        PROVE  /\ Heading(t, Candidate(t))'
               /\ serving[t] = Candidate(t) => serving'[t] = Candidate(t)'
    <3>1. PICK d \in Deployment : d = Candidate(t)
      BY CandidateIsDeployment
    <3>2. Heading(t, d)
      BY <2>4, <3>1
    <3>3. Heading(t, d)' /\ (serving[t] = d => serving'[t] = d)
      BY <2>3, <3>2
    <3> QED
      BY <2>2, <3>1, <3>3 DEF Heading
  <2>5. \A t \in Target : Moved(t)' = Moved(t)
    BY <2>1 DEF Moved
  <2>6. \A t \in Target : Moved(t)' => (serving[t] = Candidate(t) /\ Heading(t, Candidate(t)))'
    BY <2>1, <2>2, <2>4, <2>5 DEF Reached
  <2>7. pc' = "wait" => Heading(at, Candidate(at))'
    <3>1. PICK a \in Target : a = at
      BY DEF Typed
    <3>2. pc = "wait" => Heading(a, Candidate(a))
      BY <2>1, <2>2, <3>1 DEF Reached
    <3>3. pc = "wait" => Heading(a, Candidate(a))'
      BY <2>4, <3>2
    <3> QED
      BY <2>1, <3>1, <3>3
  <2> QED
    BY <2>6, <2>7 DEF Reached
<1>5. CASE Push \/ UNCHANGED vars
  BY <1>5 DEF Push, provider, history, vars, Reached, Moved, Heading, Candidate, PublicTargetsAreCurrent, Sure
<1>6. CASE Start \/ Current \/ Stage \/ CommandFails \/ Probe \/ PromotionFails \/ Skip \/ Restore \/ Settle
           \/ RestoreFails \/ Die
  BY <1>6 DEF Start, Current, Stage, CommandFails, Probe, PromotionFails, Skip, Restore, Settle, RestoreFails, Die,
     Compensate, LeaveUnrestored, NextRestore, End, Promoting, Reading
<1> QED
  BY <1>1, <1>2, <1>3, <1>4, <1>5, <1>6 DEF Next, Step

LEMMA ReportedStep == SafeInv /\ [Next]_vars => Reported'
<1> SUFFICES ASSUME SafeInv, [Next]_vars, outcome' \in Success, Sure',
                    NEW t \in Target
             PROVE  (serving[t].sha = sha /\ Heading(t, serving[t]))'
  BY DEF Reported
<1> Typed /\ Returned /\ Quiet /\ Control /\ Reached /\ Reported /\ Known
  BY DEF SafeInv, Inv
<1>1. CASE Current
  <2>1. /\ pc = "current" /\ at = "callback"
        /\ PublicTargetsAreCurrent(previous') /\ CallbackIsCurrent(previous')
        /\ UNCHANGED <<serving, queue, sha, uncertain>>
        /\ previous' = [previous EXCEPT ![at] = serving[at]]
    BY <1>1 DEF Current, End, Success, Returned, provider, history
  <2>2. uncertain = {}
    BY <2>1 DEF Sure, PublicTargetsAreCurrent
  <2>3. previous'[t] = serving[t]
    BY <2>1, <2>2 DEF Known, Reading, Earlier, Target, Typed
  <2>4. previous'[t].sha = sha
    BY <2>1 DEF PublicTargetsAreCurrent, CallbackIsCurrent, Target
  <2>5. Heading(t, serving[t])
    BY <2>1, <2>2 DEF Quiet, Goal
  <2> QED
    BY <2>1, <2>3, <2>4, <2>5 DEF Heading
<1>2. CASE Probe
  <2>1. pc = "probe" /\ UNCHANGED <<serving, queue, sha, previous, uncertain>>
    BY <1>2 DEF Probe, provider
  <2>2. serving[t] = Candidate(t) /\ Heading(t, Candidate(t))
    BY <2>1 DEF Reached, Promoting, Moved, Sure, PublicTargetsAreCurrent
  <2> QED
    BY <2>1, <2>2, CandidateIsOfTheCommit DEF Heading
<1>3. CASE \E u \in Target : CarryOut(u)
  <2>1. PICK u \in Target : CarryOut(u)
    BY <1>3
  <2>2. UNCHANGED <<outcome, sha, previous, uncertain>>
    BY <2>1 DEF CarryOut, history
  <2>3. serving[t].sha = sha /\ Heading(t, serving[t])
    BY <2>2 DEF Reported, Sure, PublicTargetsAreCurrent
  <2>4. CASE t = u
    <3>1. PICK d \in Deployment : d = serving[t]
      BY DEF Typed
    <3>2. Heading(t, d)' /\ serving'[t] = d
      BY <2>1, <2>3, <2>4, <3>1, EffectOfCarryOut
    <3> QED
      BY <2>2, <2>3, <3>1, <3>2 DEF Heading
  <2>5. CASE t # u
    <3>1. queue'[t] = queue[t] /\ serving'[t] = serving[t]
      BY <2>1, <2>5, EffectOfCarryOut
    <3> QED
      BY <2>2, <2>3, <3>1 DEF Heading
  <2> QED
    BY <2>4, <2>5
<1>4. CASE Push \/ UNCHANGED vars
  BY <1>4 DEF Push, provider, history, vars, Reported, Heading, PublicTargetsAreCurrent, Sure
<1>5. CASE Start \/ Stage \/ ReadMain \/ CommandFails \/ Post \/ Observe \/ PromotionFails \/ Skip \/ Restore
           \/ Settle \/ RestoreFails \/ Die
  BY <1>5 DEF Start, Stage, ReadMain, CommandFails, Post, Observe, PromotionFails, Skip, Restore, Settle,
     RestoreFails, Die, Compensate, LeaveUnrestored, NextRestore, End, Success, Returned, Reading, Promoting
<1> QED
  BY <1>1, <1>2, <1>3, <1>4, <1>5 DEF Next, Step

LEMMA KnownStep == SafeInv /\ [Next]_vars => Known'
<1> SUFFICES ASSUME SafeInv, [Next]_vars, uncertain' = {}, pc' \in Reading,
                    NEW t \in Target, (pc # "current" \/ t \in Earlier(at))'
             PROVE  (previous[t] = serving[t])'
  BY DEF Known
<1> Typed /\ Quiet /\ Known
  BY DEF SafeInv, Inv
<1> uncertain = {}
  BY StillCertain
<1>1. CASE Start
  BY <1>1 DEF Start, Earlier
<1>2. CASE Current
  <2>1. pc = "current" /\ previous' = [previous EXCEPT ![at] = serving[at]] /\ serving' = serving
    BY <1>2 DEF Current, provider
  <2>2. t \in Earlier(at) \/ t = at
    BY <1>2 DEF Current, Earlier, Target, End, Reading
  <2> QED
    BY <2>1, <2>2 DEF Known, Reading, Typed
<1>3. CASE Stage \/ ReadMain \/ CommandFails
  <2>1. pc \in Reading /\ pc # "current" /\ UNCHANGED <<serving, previous>>
    BY <1>3 DEF Stage, ReadMain, CommandFails, End, Reading, provider
  <2> QED
    BY <2>1 DEF Known
<1>4. CASE \E u \in Target : CarryOut(u)
  <2>1. PICK u \in Target : CarryOut(u)
    BY <1>4
  <2>2. UNCHANGED <<pc, at, previous>>
    BY <2>1 DEF CarryOut
  <2>3. serving'[t] = serving[t]
    BY <2>1, <2>2, CarryOutKeeps DEF Reading
  <2> QED
    BY <2>2, <2>3 DEF Known
<1>5. CASE Push \/ UNCHANGED vars
  BY <1>5 DEF Push, vars, provider, Known
<1>6. CASE Post \/ Observe \/ Probe \/ PromotionFails \/ Skip \/ Restore \/ Settle \/ RestoreFails \/ Die
  BY <1>6 DEF Post, Observe, Probe, PromotionFails, Skip, Restore, Settle, RestoreFails, Die, Compensate,
     LeaveUnrestored, NextRestore, End, Reading
<1> QED
  BY <1>1, <1>2, <1>3, <1>4, <1>5, <1>6 DEF Next, Step

LEMMA WholeStep == SafeInv /\ [Next]_vars => Whole'
<1> SUFFICES ASSUME SafeInv, [Next]_vars, uncertain' = {}, ~died'
             PROVE  Whole'
  BY DEF Whole
<1> Typed /\ Returned /\ Quiet /\ Control /\ Reached /\ Known /\ Whole
  BY DEF SafeInv, Inv
<1> uncertain = {}
  BY StillCertain
<1>0. ~died
  BY DEF Next, Step, vars, history, Push, Start, Current, Stage, ReadMain, CommandFails, Post, Observe, Probe,
     PromotionFails, Skip, Restore, Settle, RestoreFails, Die, CarryOut
<1>1. CASE Push \/ UNCHANGED vars
  BY <1>0, <1>1 DEF Push, vars, provider, history, Whole
<1>2. CASE Start \/ Current \/ Stage \/ CommandFails
  BY <1>0, <1>2 DEF Start, Current, Stage, CommandFails, provider, history, Whole, End, Reading, Promoting, Restoring
<1>3. CASE ReadMain
  <2>1. pc = "main" /\ UNCHANGED <<serving, previous, eligible, accepted>> /\ pc' \in {"idle", "post"}
    BY <1>3 DEF ReadMain, End, provider, history
  <2>2. \A t \in Target : previous[t] = serving[t]
    BY <2>1 DEF Known, Reading
  <2>3. previous = serving
    BY <2>2 DEF Typed
  <2> QED
    BY <1>0, <2>1, <2>3 DEF Whole, Reading, Promoting, Restoring
<1>4. CASE Post \/ Observe \/ PromotionFails
  <2>1. /\ pc \in Promoting /\ UNCHANGED <<serving, previous, accepted>> /\ eligible \subseteq eligible'
        /\ pc' \in Promoting \/ (pc' = "restore" /\ at' = "callback")
    BY <1>4 DEF Post, Observe, PromotionFails, Compensate, Promoting, provider, history
  <2> QED
    BY <1>0, <2>1 DEF Whole, Promoting, Restoring, Reading, Later
<1>5. CASE Probe
  <2>1. pc = "probe" /\ pc' = "idle" /\ serving' = serving
        /\ accepted' = accepted \cup {[t \in Target |-> Candidate(t)]}
    BY <1>5 DEF Probe, End, provider
  <2>2. \A t \in Target : serving[t] = Candidate(t)
    BY <2>1 DEF Reached, Promoting, Moved, Sure
  <2>3. serving = [t \in Target |-> Candidate(t)]
    BY <2>2 DEF Typed
  <2> QED
    BY <2>1, <2>3 DEF Whole, Promoting, Restoring, Reading
<1>6. ASSUME NextRestore, pc \in Restoring, UNCHANGED <<serving, previous, eligible, accepted>>,
             serving[at] = previous[at]
      PROVE  Whole'
  <2>1. /\ previous \in accepted
        /\ \A t \in Target \ eligible : serving[t] = previous[t]
        /\ \A t \in Target : t \in Later(at) \/ t = at => serving[t] = previous[t]
    BY <1>0, <1>6 DEF Whole, Restoring
  <2>2. CASE at = "proxy"
    <3>1. \A t \in Target : serving[t] = previous[t]
      BY <2>1, <2>2 DEF Later, Target
    <3>2. serving = previous
      BY <3>1 DEF Typed
    <3> QED
      BY <1>6, <2>1, <2>2, <3>2 DEF NextRestore, End, Whole, Promoting, Restoring
  <2>3. CASE at # "proxy"
    <3>1. pc' = "restore" /\ \A t \in Later(at') : t \in Later(at) \/ t = at
      BY <1>6, <2>3 DEF NextRestore, Later
    <3> QED
      BY <1>6, <2>1, <3>1 DEF Whole, Promoting, Restoring, Reading
  <2> QED
    BY <2>2, <2>3
<1>7. CASE Skip
  <2>1. serving[at] = previous[at]
    BY <1>0, <1>7 DEF Skip, Whole, Restoring, Typed
  <2> QED
    BY <1>6, <1>7, <2>1 DEF Skip, provider, history, Restoring
<1>8. CASE Settle
  <2>1. CASE NextRestore
    BY <1>6, <1>8, <2>1 DEF Settle, provider, history, Restoring
  <2>2. CASE pc = "settle" /\ pc' = "confirm" /\ UNCHANGED <<at, outcome>>
    <3>1. UNCHANGED <<serving, previous, eligible, accepted>> /\ serving[at] = previous[at]
      BY <1>8 DEF Settle, provider, history
    <3> QED
      BY <1>0, <2>2, <3>1 DEF Whole, Promoting, Restoring, Reading
  <2> QED
    BY <1>8, <2>1, <2>2 DEF Settle
<1>9. CASE Restore
  <2>1. pc = "restore" /\ pc' = "settle" /\ UNCHANGED <<serving, previous, eligible, accepted, at>>
    BY <1>9 DEF Restore, LeaveUnrestored
  <2> QED
    BY <1>0, <2>1 DEF Whole, Promoting, Restoring, Reading
<1>10. CASE RestoreFails \/ Die
  BY <1>10 DEF RestoreFails, LeaveUnrestored, Die
<1>11. CASE \E u \in Target : CarryOut(u)
  <2>1. PICK u \in Target : CarryOut(u)
    BY <1>11
  <2>2. UNCHANGED <<pc, at, previous, eligible, accepted>>
    BY <2>1 DEF CarryOut, history
  <2>3. \A t \in Target : ~(t = at /\ pc \in {"wait", "settle"}) => serving'[t] = serving[t]
    BY <2>1, CarryOutKeeps
  <2>4. pc \in {"wait", "settle"} => at \in eligible /\ at \notin Later(at)
    BY DEF Control, Later
  <2>5. CASE pc \in {"idle"} \cup Reading
    <3>1. \A t \in Target : serving'[t] = serving[t]
      BY <2>3, <2>5 DEF Reading
    <3>2. serving' = serving
      BY <3>1, TypedStep DEF Typed
    <3> QED
      BY <1>0, <2>2, <2>5, <3>2 DEF Whole
  <2>6. CASE pc \in Promoting \cup Restoring
    BY <1>0, <2>2, <2>3, <2>4, <2>6 DEF Whole, Promoting, Restoring, Reading
  <2> QED
    BY <2>5, <2>6 DEF Typed
<1> QED
  BY <1>1, <1>2, <1>3, <1>4, <1>5, <1>7, <1>8, <1>9, <1>10, <1>11 DEF Next, Step

LEMMA SafeInvariance == Spec => []SafeInv
<1>1. Init => SafeInv
  <2> SUFFICES ASSUME Init PROVE SafeInv
    OBVIOUS
  <2>1. \A t \in Target : queue[t] = <<>>
    BY DEF Init
  <2>2. Quiet
    BY <2>1, EmptyHeads DEF Quiet
  <2>3. Control /\ Reached /\ Reported /\ Known /\ Whole
    BY DEF Init, Control, Reached, Reported, Known, Whole, Promoting, Success, Earlier, Reading, Restoring
  <2> QED
    BY <2>2, <2>3, InvInit DEF SafeInv
<1>2. SafeInv /\ [Next]_vars => SafeInv'
  <2>1. Inv /\ [Next]_vars => Inv'
    BY TypedStep, UntouchedStep, ReturnedStep, AheadStep DEF Inv
  <2> QED
    BY <2>1, QuietStep, ControlStep, ReachedStep, ReportedStep, KnownStep, WholeStep DEF SafeInv
<1> QED
  BY <1>1, <1>2, PTL DEF Spec

(* A report of success is true although the provider works later: what the *)
(* run staged, nobody else asks for, and the provider keeps the order      *)
(* (waitForActiveDeployment of production.live.layer.ts).                  *)
THEOREM ReceiptsTrue == Spec => []ReceiptsAreTrue
<1>1. SafeInv => ReceiptsAreTrue
  BY DEF SafeInv, Control, Reported, Sure, Success, ReceiptsAreTrue
<1> QED
  BY <1>1, SafeInvariance, PTL

(* Between runs the targets serve one release, unless a run has died or    *)
(* has not learnt what became of its requests (the rollback of             *)
(* production.live.layer.ts).                                              *)
THEOREM PromotionIsWhole == Spec => []AllOrNothing
<1>1. SafeInv => AllOrNothing
  BY DEF SafeInv, Whole, AllOrNothing
<1> QED
  BY <1>1, SafeInvariance, PTL

-----------------------------------------------------------------------------
(* The time of a run.                                                      *)

(* The minutes that a run can have spent before a command.                 *)
ReadBefore(step, t) ==
  IF step = "current"
  THEN IF t = "proxy" THEN 0 ELSE IF t = "agent" THEN CommandTimeout ELSE 2 * CommandTimeout
  ELSE IF step = "stage" THEN IF t = "proxy" THEN 4 * CommandTimeout ELSE 6 * CommandTimeout
  ELSE IF step = "inspect" THEN IF t = "proxy" THEN 9 * CommandTimeout ELSE 10 * CommandTimeout
  ELSE 11 * CommandTimeout

Promoted == 12 * CommandTimeout + PromotionTimeout

RestoredBefore(t) ==
  IF t = "callback" THEN Promoted
  ELSE IF t = "agent" THEN Promoted + RollbackTimeout ELSE Promoted + 2 * RollbackTimeout

Timely ==
  /\ minutes \in 0..StepTimeout
  /\ pc \in Reading => minutes <= ReadBefore(pc, at)
  /\ pc \in Promoting => minutes <= Promoted
  /\ pc = "restore" => minutes <= RestoredBefore(at)
  /\ pc \in {"settle", "confirm"} => minutes <= RestoredBefore(at) + RollbackTimeout

LEMMA TimelyStep == Typed /\ Timely /\ [Next]_vars => Timely'
<1> SUFFICES ASSUME Typed, Timely, [Next]_vars PROVE Timely'
  OBVIOUS
<1>0. /\ CommandTimeout \in Nat /\ PromotionTimeout \in Nat /\ RollbackTimeout \in Nat /\ StepTimeout \in Nat
      /\ Promoted + 3 * RollbackTimeout <= StepTimeout
      /\ Promoted \in Nat /\ 12 * CommandTimeout <= Promoted
  BY PromotionAssumption DEF Promoted
<1> USE <1>0
<1>1. at \in Target /\ minutes \in Nat
  BY DEF Typed, Timely
<1>2. CASE Push \/ UNCHANGED vars \/ Die \/ \E t \in Target : CarryOut(t)
  BY <1>2 DEF Push, vars, Die, CarryOut, Timely, End, Reading, Promoting
<1>3. CASE Start
  BY <1>3 DEF Start, Timely, ReadBefore, Reading, Promoting
<1>4. CASE Current
  <2>1. minutes <= ReadBefore("current", at) /\ pc = "current"
    BY <1>4 DEF Current, Timely, Reading
  <2>2. CASE at = "proxy"
    <3>1. minutes' = minutes + CommandTimeout /\ pc' = "current" /\ at' = "agent"
      BY <1>4, <2>1, <2>2 DEF Current, SpendCommands, Spend, Commands
    <3> QED
      BY <1>1, <2>1, <2>2, <3>1 DEF Timely, ReadBefore, Reading, Promoting
  <2>3. CASE at = "agent"
    <3>1. minutes' = minutes + CommandTimeout /\ pc' = "current" /\ at' = "callback"
      BY <1>4, <2>1, <2>3 DEF Current, SpendCommands, Spend, Commands
    <3> QED
      BY <1>1, <2>1, <2>3, <3>1 DEF Timely, ReadBefore, Reading, Promoting
  <2>4. CASE at = "callback"
    <3>1. minutes' = minutes + 2 * CommandTimeout
      BY <1>4, <2>1, <2>4 DEF Current, SpendCommands, Spend, Commands
    <3>2. pc' \in {"idle", "main"} \/ (pc' = "stage" /\ at' = "proxy")
      BY <1>4, <2>4 DEF Current, End
    <3> QED
      BY <1>1, <2>1, <2>4, <3>1, <3>2 DEF Timely, ReadBefore, Reading, Promoting
  <2> QED
    BY <1>1, <2>2, <2>3, <2>4 DEF Target
<1>5. CASE Stage
  <2>1. minutes <= ReadBefore(pc, at) /\ pc \in {"stage", "inspect"} /\ at \in {"proxy", "agent"}
    BY <1>5 DEF Stage, Timely, Reading
  <2>2. minutes' = minutes + (IF pc = "inspect" THEN CommandTimeout
                              ELSE IF at = "proxy" THEN 2 * CommandTimeout ELSE 3 * CommandTimeout)
    BY <1>5, <2>1 DEF Stage, SpendCommands, Spend, Commands
  <2>3. \/ at = "proxy" /\ at' = "agent" /\ pc' = pc
        \/ at = "agent" /\ pc = "stage" /\ pc' = "inspect" /\ at' = "proxy"
        \/ at = "agent" /\ pc = "inspect" /\ pc' = "main"
    BY <1>5 DEF Stage
  <2> QED
    BY <1>1, <2>1, <2>2, <2>3 DEF Timely, ReadBefore, Reading, Promoting
<1>6. CASE ReadMain
  <2>1. minutes <= 11 * CommandTimeout /\ pc = "main"
    BY <1>6 DEF ReadMain, Timely, Reading, ReadBefore
  <2>2. CASE pc' = "idle" /\ SpendCommands
    <3>1. minutes' = minutes + CommandTimeout
      BY <2>1, <2>2 DEF SpendCommands, Spend, Commands
    <3> QED
      BY <1>1, <2>1, <2>2, <3>1 DEF Timely, Reading, Promoting
  <2>3. CASE pc' = "post" /\ Spend(CommandTimeout + PromotionTimeout)
    BY <1>1, <2>1, <2>3 DEF Spend, Timely, Promoted, Reading, Promoting
  <2> QED
    BY <1>6, <2>2, <2>3 DEF ReadMain, End
<1>7. CASE CommandFails
  <2>1. minutes <= ReadBefore(pc, at) /\ pc \in Reading /\ pc' = "idle"
    BY <1>7 DEF CommandFails, Timely, End
  <2>2. \/ minutes' = minutes + CommandTimeout
        \/ pc \in {"current", "stage"} /\ minutes' = minutes + 2 * CommandTimeout
        \/ pc = "stage" /\ minutes' = minutes + 3 * CommandTimeout
    BY <1>7 DEF CommandFails, SpendCommands, Spend, Commands
  <2>3. minutes <= 11 * CommandTimeout /\ (pc \in {"current", "stage"} => minutes <= 6 * CommandTimeout)
    BY <1>1, <2>1 DEF ReadBefore
  <2> QED
    BY <1>1, <2>1, <2>2, <2>3 DEF Timely, Reading, Promoting
<1>8. CASE Post \/ Observe \/ Probe \/ PromotionFails
  <2>1. /\ pc \in Promoting /\ minutes' = minutes
        /\ pc' \in {"idle"} \cup Promoting \/ (pc' = "restore" /\ at' = "callback")
    BY <1>8 DEF Post, Observe, Probe, PromotionFails, Compensate, End, Promoting
  <2> QED
    BY <1>1, <2>1 DEF Timely, RestoredBefore, Reading, Promoting
<1>9. ASSUME NextRestore, minutes' \in Nat, minutes' <= RestoredBefore(at) + RollbackTimeout
      PROVE  Timely'
  BY <1>9 DEF NextRestore, End, Timely, RestoredBefore, Reading, Promoting
<1>10. CASE Skip
  BY <1>1, <1>9, <1>10 DEF Skip, Timely, RestoredBefore
<1>11. CASE Restore
  <2>1. minutes <= RestoredBefore(at) /\ minutes' = minutes + RollbackTimeout
    BY <1>11 DEF Restore, Timely, Spend
  <2>2. RestoredBefore(at) \in Nat /\ RestoredBefore(at) <= Promoted + 2 * RollbackTimeout
    BY DEF RestoredBefore
  <2>3. CASE NextRestore
    BY <1>1, <1>9, <2>1, <2>2, <2>3
  <2>4. CASE pc' = "settle" /\ at' = at
    <3>1. RestoredBefore(at)' = RestoredBefore(at)
      BY <2>4 DEF RestoredBefore, Promoted
    <3> QED
      BY <1>1, <2>1, <2>2, <2>4, <3>1 DEF Timely, Reading, Promoting
  <2> QED
    BY <1>11, <2>3, <2>4 DEF Restore, LeaveUnrestored
<1>12. CASE Settle
  <2>1. minutes' = minutes /\ minutes <= RestoredBefore(at) + RollbackTimeout
    BY <1>12 DEF Settle, Timely
  <2>2. CASE NextRestore
    BY <1>1, <1>9, <2>1, <2>2
  <2>3. CASE pc' = "confirm" /\ at' = at
    <3>1. RestoredBefore(at)' = RestoredBefore(at)
      BY <2>3 DEF RestoredBefore, Promoted
    <3> QED
      BY <2>1, <2>3, <3>1 DEF Timely, Reading, Promoting
  <2> QED
    BY <1>12, <2>2, <2>3 DEF Settle
<1>13. CASE RestoreFails
  BY <1>1, <1>9, <1>13 DEF RestoreFails, LeaveUnrestored, Timely
<1> QED
  BY <1>2, <1>3, <1>4, <1>5, <1>6, <1>7, <1>8, <1>10, <1>11, <1>12, <1>13 DEF Next, Step

Remaining ==
  /\ unrestored \subseteq eligible
  /\ outcome \in Success \cup {"none", "stale", "failed", "restored", "rollbackFailed", "died"}
  /\ uncertain \subseteq Target /\ dropped \subseteq Target /\ died \in BOOLEAN

LEMMA RemainingStep == Typed /\ Control /\ Remaining /\ [Next]_vars => Remaining'
<1> SUFFICES ASSUME Typed, Control, Remaining, [Next]_vars PROVE Remaining'
  OBVIOUS
<1>1. CASE Push \/ UNCHANGED vars \/ Start \/ Current \/ Stage \/ ReadMain \/ CommandFails
  BY <1>1 DEF Push, vars, Start, Current, Stage, ReadMain, CommandFails, End, provider, history, Remaining, Success
<1>2. CASE Post \/ Observe \/ Probe \/ PromotionFails
  BY <1>2 DEF Post, Observe, Probe, PromotionFails, Compensate, Outstanding, End, provider, history, Remaining,
     Success
<1>3. CASE Skip \/ Settle
  BY <1>3 DEF Skip, Settle, NextRestore, End, provider, history, Remaining
<1>4. CASE Restore \/ RestoreFails
  <2>1. at \in eligible /\ eligible' = eligible /\ at \in Target
    BY <1>4 DEF Restore, RestoreFails, Control, Typed
  <2>2. UNCHANGED <<dropped, died>>
    BY <1>4 DEF Restore, RestoreFails, provider
  <2>3. CASE LeaveUnrestored
    BY <2>1, <2>2, <2>3 DEF LeaveUnrestored, NextRestore, End, Remaining
  <2>4. CASE UNCHANGED <<unrestored, outcome, uncertain>>
    BY <2>1, <2>2, <2>4 DEF Remaining
  <2> QED
    BY <1>4, <2>3, <2>4 DEF Restore, RestoreFails
<1>5. CASE Die
  BY <1>5 DEF Die, Outstanding, End, provider, Remaining
<1>6. CASE \E t \in Target : CarryOut(t)
  BY <1>6 DEF CarryOut, history, Remaining
<1> QED
  BY <1>1, <1>2, <1>3, <1>4, <1>5, <1>6 DEF Next, Step

(* The variables have their types; among them, a run with its rollback     *)
(* never takes longer than the workflow's step (the timeouts of            *)
(* automatic-production.ts and production.yml).                            *)
THEOREM TypeCorrect == Spec => []TypeOK
<1>1. Init => Timely /\ Remaining
  <2> SUFFICES ASSUME Init PROVE Timely /\ Remaining
    OBVIOUS
  <2>1. minutes = 0 /\ pc = "idle" /\ minutes \in 0..StepTimeout
    BY PromotionAssumption DEF Init
  <2> QED
    BY <2>1 DEF Init, Timely, Remaining, Reading, Promoting
<1>2. SafeInv /\ Timely /\ Remaining /\ [Next]_vars => Timely' /\ Remaining'
  BY TimelyStep, RemainingStep DEF SafeInv, Inv
<1>3. SafeInv /\ Timely /\ Remaining => TypeOK
  BY DEF SafeInv, Inv, Typed, Timely, Remaining, TypeOK, Release
<1> QED
  BY <1>1, <1>2, <1>3, SafeInvariance, PTL DEF Spec

=============================================================================
