----------------------------- MODULE AppProofs -----------------------------
(***************************************************************************)
(* What the threads of the service keep apart, for any number of threads,  *)
(* requests and tokens: at most one task gets past its first insert on one *)
(* orchestrator, and a task runs with its own budget and in its own mode   *)
(* up to the interference that the code allows.  Then what the three agent *)
(* calls of a task cost, for any number of retries, branches and tokens.   *)
(***************************************************************************)
EXTENDS MCService, TLAPS

Running == {"check", "judge", "recheck"}
Metered == {"plan", "insert"} \cup Running
Orchestrator == [owner : Thread, mode : BOOLEAN, meter : Nat]
Verdicts == {"none", "ran", "stopped", "failed"}

(***************************************************************************)
(* The shape of the state.  A thread that is past the constructor has an   *)
(* orchestrator, and so has the global from the first assignment on.       *)
(***************************************************************************)
OrchOK == orch \in Seq(Orchestrator)

Shape ==
  /\ current \in 0 .. Len(orch)
  /\ pc \in [Thread -> Phases]
  /\ asked \in [Thread -> BOOLEAN] /\ raced \in [Thread -> BOOLEAN]
  /\ mine \in [Thread -> 0 .. Len(orch)]
  /\ \A t \in Thread : pc[t] \notin {"idle", "test", "return"} => mine[t] # 0
  /\ \A t \in Thread : pc[t] = "return" => current # 0

Tallies ==
  /\ spent \in [Thread -> Nat]
  /\ reset_by \in [Thread -> SUBSET Thread]
  /\ verdict \in [Thread -> Verdicts]

(* The connection of a task that has inserted its rows is its own.           *)
Owned == \A t \in Thread : pc[t] \in Running => orch[mine[t]].owner = t

(* As long as nobody disturbed it, the meter of a task's orchestrator is what *)
(* the task itself spent.                                                    *)
Accounted ==
  \A t \in Thread :
    /\ pc[t] \in Looking \cup {"reset"} => spent[t] = 0
    /\ pc[t] # "idle" => verdict[t] = "none"
    /\ reset_by[t] = {} /\ pc[t] \in Metered => orch[mine[t]].meter = spent[t]

(* As long as nobody replaced the global meanwhile, it is of the asked mode.  *)
AsAsked ==
  \A t \in Thread : ~raced[t] =>
    /\ pc[t] = "assign" => orch[mine[t]].mode = asked[t]
    /\ pc[t] = "return" => orch[current].mode = asked[t]
    /\ pc[t] \notin {"idle"} \cup Looking => orch[mine[t]].mode = asked[t]

IInv == OrchOK /\ Shape /\ Tallies /\ Owned /\ Accounted /\ BudgetIsOwnUnlessShared /\ AsAsked

(* Initially there is no orchestrator and no task. *)
LEMMA IInvInit ==
  ASSUME Init
  PROVE  IInv
<1>1. OrchOK /\ Shape /\ Tallies
  BY DEF Init, OrchOK, Shape, Tallies, Phases, Verdicts
<1>2. Owned /\ Accounted /\ BudgetIsOwnUnlessShared /\ AsAsked
  BY DEF Init, Owned, Accounted, BudgetIsOwnUnlessShared, AsAsked, Running, Metered, Looking
<1>3. QED
  BY <1>1, <1>2 DEF IInv

(* What writing one meter leaves alone. *)
LEMMA MeterWrite ==
  ASSUME OrchOK, NEW m \in 1 .. Len(orch), NEW x \in Nat,
         orch' = [orch EXCEPT ![m].meter = x]
  PROVE  /\ OrchOK' /\ Len(orch') = Len(orch)
         /\ \A i \in 1 .. Len(orch) :
              orch'[i].owner = orch[i].owner /\ orch'[i].mode = orch[i].mode
         /\ \A i \in 1 .. Len(orch) : i # m => orch'[i].meter = orch[i].meter
         /\ orch'[m].meter = x
<1>1. orch' = [orch EXCEPT ![m] = [orch[m] EXCEPT !.meter = x]]
  OBVIOUS
<1>2. orch[m] \in Orchestrator
  BY DEF OrchOK
<1>3. [orch[m] EXCEPT !.meter = x] \in Orchestrator
  BY <1>2 DEF Orchestrator
<1>4. OrchOK' /\ Len(orch') = Len(orch)
  BY <1>1, <1>3 DEF OrchOK
<1>5. \A i \in 1 .. Len(orch) : i # m => orch'[i] = orch[i]
  BY <1>1 DEF OrchOK
<1>6. orch'[m] = [orch[m] EXCEPT !.meter = x]
  BY <1>1 DEF OrchOK
<1>7. QED
  BY <1>2, <1>4, <1>5, <1>6 DEF Orchestrator

(* A task at its meter has an orchestrator, and writes a number to it. *)
LEMMA MeterSteps ==
  ASSUME OrchOK, Shape, NEW t \in Thread, Reset(t) \/ Plan(t) \/ Judge(t)
  PROVE  /\ mine[t] \in 1 .. Len(orch)
         /\ \E x \in Nat : orch' = [orch EXCEPT ![mine[t]].meter = x]
<1>1. mine[t] \in 1 .. Len(orch)
  BY DEF OrchOK, Shape, Reset, Plan, Judge, CallAgents, At
<1>2. orch[mine[t]] \in Orchestrator
  BY <1>1 DEF OrchOK
<1>3. CASE Reset(t)
  BY <1>1, <1>3 DEF Reset
<1>4. CASE Plan(t) \/ Judge(t)
  <2>1. PICK u \in Usage : orch' = [orch EXCEPT ![mine[t]].meter = @ + u]
    BY <1>4 DEF Plan, Judge, CallAgents
  <2>2. orch[mine[t]].meter + u \in Nat
    BY <1>2, AppAssumption DEF Orchestrator, AppAssumption
  <2>3. QED
    BY <1>1, <2>1, <2>2
<1>5. QED
  BY <1>3, <1>4

(* Orchestrators come, and none goes or changes its owner or its mode. *)
LEMMA OrchNext ==
  ASSUME OrchOK, Shape, NEW t \in Thread, Request(t) \/ Serve(t)
  PROVE  /\ OrchOK'
         /\ Len(orch') \in Nat /\ Len(orch) <= Len(orch')
         /\ \A i \in 1 .. Len(orch) :
              orch'[i].owner = orch[i].owner /\ orch'[i].mode = orch[i].mode
<1>1. CASE Request(t)
  BY <1>1 DEF Request, OrchOK, Shape, Orchestrator, At
<1>2. CASE Reuse(t)
  BY <1>2 DEF Reuse, OrchOK, Shape, Orchestrator, At
<1>3. CASE Construct(t)
  BY <1>3 DEF Construct, OrchOK, Shape, Orchestrator, At
<1>4. CASE Assign(t)
  BY <1>4 DEF Assign, OrchOK, Shape, Orchestrator, At
<1>5. CASE Return(t)
  BY <1>5 DEF Return, OrchOK, Shape, Orchestrator, At
<1>6. CASE Reset(t)
  <2>1. mine[t] \in 1 .. Len(orch) /\ \E x \in Nat : orch' = [orch EXCEPT ![mine[t]].meter = x]
    BY <1>6, MeterSteps
  <2>2. PICK x \in Nat : orch' = [orch EXCEPT ![mine[t]].meter = x]
    BY <2>1
  <2>3. /\ OrchOK' /\ Len(orch') = Len(orch)
        /\ \A i \in 1 .. Len(orch) :
             orch'[i].owner = orch[i].owner /\ orch'[i].mode = orch[i].mode
    BY <2>1, <2>2, MeterWrite
  <2>4. QED
    BY <2>3 DEF OrchOK
<1>7. CASE Plan(t)
  <2>1. mine[t] \in 1 .. Len(orch) /\ \E x \in Nat : orch' = [orch EXCEPT ![mine[t]].meter = x]
    BY <1>7, MeterSteps
  <2>2. PICK x \in Nat : orch' = [orch EXCEPT ![mine[t]].meter = x]
    BY <2>1
  <2>3. /\ OrchOK' /\ Len(orch') = Len(orch)
        /\ \A i \in 1 .. Len(orch) :
             orch'[i].owner = orch[i].owner /\ orch'[i].mode = orch[i].mode
    BY <2>1, <2>2, MeterWrite
  <2>4. QED
    BY <2>3 DEF OrchOK
<1>8. CASE InsertBranches(t)
  BY <1>8 DEF InsertBranches, OrchOK, Shape, Orchestrator, At
<1>9. CASE WrongThread(t)
  BY <1>9 DEF WrongThread, OrchOK, Shape, Orchestrator, At
<1>10. CASE BudgetStops(t)
  BY <1>10 DEF BudgetStops, OrchOK, Shape, Orchestrator, At
<1>11. CASE ToTheJudges(t)
  BY <1>11 DEF ToTheJudges, OrchOK, Shape, Orchestrator, At
<1>12. CASE Judge(t)
  <2>1. mine[t] \in 1 .. Len(orch) /\ \E x \in Nat : orch' = [orch EXCEPT ![mine[t]].meter = x]
    BY <1>12, MeterSteps
  <2>2. PICK x \in Nat : orch' = [orch EXCEPT ![mine[t]].meter = x]
    BY <2>1
  <2>3. /\ OrchOK' /\ Len(orch') = Len(orch)
        /\ \A i \in 1 .. Len(orch) :
             orch'[i].owner = orch[i].owner /\ orch'[i].mode = orch[i].mode
    BY <2>1, <2>2, MeterWrite
  <2>4. QED
    BY <2>3 DEF OrchOK
<1>13. CASE Sandbox(t)
  BY <1>13 DEF Sandbox, OrchOK, Shape, Orchestrator, At
<1>14. QED
  BY <1>1, <1>2, <1>3, <1>4, <1>5, <1>6, <1>7, <1>8, <1>9, <1>10, <1>11, <1>12, <1>13
     DEF Serve

(* A meter is only touched by the tasks on its orchestrator. *)
LEMMA MetersNext ==
  ASSUME OrchOK, Shape, NEW t \in Thread, Request(t) \/ Serve(t),
         NEW i \in 1 .. Len(orch), orch'[i].meter # orch[i].meter
  PROVE  i = mine[t] /\ (Reset(t) \/ Plan(t) \/ Judge(t))
<1>1. CASE Request(t)
  BY <1>1 DEF Request, OrchOK, Shape, Orchestrator, At
<1>2. CASE Reuse(t)
  BY <1>2 DEF Reuse, OrchOK, Shape, Orchestrator, At
<1>3. CASE Construct(t)
  BY <1>3 DEF Construct, OrchOK, Shape, Orchestrator, At
<1>4. CASE Assign(t)
  BY <1>4 DEF Assign, OrchOK, Shape, Orchestrator, At
<1>5. CASE Return(t)
  BY <1>5 DEF Return, OrchOK, Shape, Orchestrator, At
<1>6. CASE Reset(t)
  <2>1. mine[t] \in 1 .. Len(orch) /\ \E x \in Nat : orch' = [orch EXCEPT ![mine[t]].meter = x]
    BY <1>6, MeterSteps
  <2>2. PICK x \in Nat : orch' = [orch EXCEPT ![mine[t]].meter = x]
    BY <2>1
  <2>3. \A j \in 1 .. Len(orch) : j # mine[t] => orch'[j].meter = orch[j].meter
    BY <2>1, <2>2, MeterWrite
  <2>4. QED
    BY <1>6, <2>3
<1>7. CASE Plan(t)
  <2>1. mine[t] \in 1 .. Len(orch) /\ \E x \in Nat : orch' = [orch EXCEPT ![mine[t]].meter = x]
    BY <1>7, MeterSteps
  <2>2. PICK x \in Nat : orch' = [orch EXCEPT ![mine[t]].meter = x]
    BY <2>1
  <2>3. \A j \in 1 .. Len(orch) : j # mine[t] => orch'[j].meter = orch[j].meter
    BY <2>1, <2>2, MeterWrite
  <2>4. QED
    BY <1>7, <2>3
<1>8. CASE InsertBranches(t)
  BY <1>8 DEF InsertBranches, OrchOK, Shape, Orchestrator, At
<1>9. CASE WrongThread(t)
  BY <1>9 DEF WrongThread, OrchOK, Shape, Orchestrator, At
<1>10. CASE BudgetStops(t)
  BY <1>10 DEF BudgetStops, OrchOK, Shape, Orchestrator, At
<1>11. CASE ToTheJudges(t)
  BY <1>11 DEF ToTheJudges, OrchOK, Shape, Orchestrator, At
<1>12. CASE Judge(t)
  <2>1. mine[t] \in 1 .. Len(orch) /\ \E x \in Nat : orch' = [orch EXCEPT ![mine[t]].meter = x]
    BY <1>12, MeterSteps
  <2>2. PICK x \in Nat : orch' = [orch EXCEPT ![mine[t]].meter = x]
    BY <2>1
  <2>3. \A j \in 1 .. Len(orch) : j # mine[t] => orch'[j].meter = orch[j].meter
    BY <2>1, <2>2, MeterWrite
  <2>4. QED
    BY <1>12, <2>3
<1>13. CASE Sandbox(t)
  BY <1>13 DEF Sandbox, OrchOK, Shape, Orchestrator, At
<1>14. QED
  BY <1>1, <1>2, <1>3, <1>4, <1>5, <1>6, <1>7, <1>8, <1>9, <1>10, <1>11, <1>12, <1>13
     DEF Serve

(* A step of a thread keeps the shape. *)
LEMMA ShapeNext ==
  ASSUME OrchOK, Shape, NEW t \in Thread, Request(t) \/ Serve(t)
  PROVE  Shape'
<1>0. Len(orch') \in Nat /\ Len(orch) \in Nat /\ Len(orch) <= Len(orch')
  BY OrchNext DEF OrchOK
<1> USE <1>0 DEF Shape, Phases, Looking, At, Goto, Ends, task_vars
<1>1. CASE Request(t)
  BY <1>1 DEF Request
<1>2. CASE Reuse(t)
  BY <1>2 DEF Reuse, Fits
<1>3. CASE Construct(t)
  BY <1>3 DEF Construct
<1>4. CASE Assign(t)
  BY <1>4 DEF Assign
<1>5. CASE Return(t)
  BY <1>5 DEF Return
<1>6. CASE Reset(t)
  BY <1>6 DEF Reset
<1>7. CASE Plan(t)
  BY <1>7 DEF Plan, CallAgents
<1>8. CASE InsertBranches(t)
  BY <1>8 DEF InsertBranches
<1>9. CASE WrongThread(t)
  BY <1>9 DEF WrongThread
<1>10. CASE BudgetStops(t)
  BY <1>10 DEF BudgetStops
<1>11. CASE ToTheJudges(t)
  BY <1>11 DEF ToTheJudges
<1>12. CASE Judge(t)
  BY <1>12 DEF Judge, CallAgents
<1>13. CASE Sandbox(t)
  BY <1>13 DEF Sandbox
<1>14. QED
  BY <1>1, <1>2, <1>3, <1>4, <1>5, <1>6, <1>7, <1>8, <1>9, <1>10, <1>11, <1>12, <1>13
     DEF Serve


(* A step of a thread keeps the tallies in their ranges. *)
LEMMA TalliesNext ==
  ASSUME Tallies, NEW t \in Thread, Request(t) \/ Serve(t)
  PROVE  Tallies'
<1> USE AppAssumption DEF Tallies, Verdicts, Ends, task_vars, AppAssumption
<1>1. CASE Request(t)
  BY <1>1 DEF Request
<1>2. CASE Reuse(t)
  BY <1>2 DEF Reuse
<1>3. CASE Construct(t)
  BY <1>3 DEF Construct
<1>4. CASE Assign(t)
  BY <1>4 DEF Assign
<1>5. CASE Return(t)
  BY <1>5 DEF Return
<1>6. CASE Reset(t)
  <2>1. Disturb(t) /\ UNCHANGED <<spent, verdict>>
    BY <1>6 DEF Reset
  <2>2. reset_by' \in [Thread -> SUBSET Thread]
    BY <2>1 DEF Disturb
  <2>3. QED
    BY <2>1, <2>2
<1>7. CASE Plan(t)
  <2>1. PICK u \in Usage : spent' = [spent EXCEPT ![t] = @ + u]
    BY <1>7 DEF Plan, CallAgents
  <2>2. UNCHANGED verdict /\ Disturb(t)
    BY <1>7 DEF Plan, CallAgents
  <2>3. reset_by' \in [Thread -> SUBSET Thread]
    BY <2>2 DEF Disturb
  <2>4. spent[t] + u \in Nat
    <3>1. u \in Nat /\ spent[t] \in Nat
      OBVIOUS
    <3>2. QED
      BY <3>1
  <2>5. spent' \in [Thread -> Nat]
    BY <2>1, <2>4
  <2>6. QED
    BY <2>2, <2>3, <2>5
<1>8. CASE InsertBranches(t)
  BY <1>8 DEF InsertBranches
<1>9. CASE WrongThread(t)
  BY <1>9 DEF WrongThread
<1>10. CASE BudgetStops(t)
  BY <1>10 DEF BudgetStops
<1>11. CASE ToTheJudges(t)
  BY <1>11 DEF ToTheJudges
<1>12. CASE Judge(t)
  <2>1. PICK u \in Usage : spent' = [spent EXCEPT ![t] = @ + u]
    BY <1>12 DEF Judge, CallAgents
  <2>2. UNCHANGED verdict /\ Disturb(t)
    BY <1>12 DEF Judge, CallAgents
  <2>3. reset_by' \in [Thread -> SUBSET Thread]
    BY <2>2 DEF Disturb
  <2>4. spent[t] + u \in Nat
    <3>1. u \in Nat /\ spent[t] \in Nat
      OBVIOUS
    <3>2. QED
      BY <3>1
  <2>5. spent' \in [Thread -> Nat]
    BY <2>1, <2>4
  <2>6. QED
    BY <2>2, <2>3, <2>5
<1>13. CASE Sandbox(t)
  BY <1>13 DEF Sandbox
<1>14. QED
  BY <1>1, <1>2, <1>3, <1>4, <1>5, <1>6, <1>7, <1>8, <1>9, <1>10, <1>11, <1>12, <1>13
     DEF Serve

(* What a step of thread t leaves alone of another thread s. *)
LEMMA OthersStay ==
  ASSUME Shape, Tallies, NEW t \in Thread, Request(t) \/ Serve(t), NEW s \in Thread \ {t}
  PROVE  /\ pc'[s] = pc[s] /\ mine'[s] = mine[s] /\ asked'[s] = asked[s]
         /\ spent'[s] = spent[s] /\ verdict'[s] = verdict[s]
         /\ reset_by[s] \subseteq reset_by'[s] /\ (raced[s] => raced'[s])
         /\ current' = current \/ (pc[s] \in Looking => raced'[s])
<1> USE DEF Shape, Tallies, Goto, Ends, task_vars
<1>1. CASE Request(t)
  BY <1>1 DEF Request
<1>2. CASE Reuse(t)
  BY <1>2 DEF Reuse
<1>3. CASE Construct(t)
  BY <1>3 DEF Construct
<1>4. CASE Assign(t)
  BY <1>4 DEF Assign
<1>5. CASE Return(t)
  BY <1>5 DEF Return
<1>6. CASE Reset(t)
  <2>1. reset_by[s] \subseteq reset_by'[s]
    BY <1>6 DEF Reset, Disturb
  <2>2. QED
    BY <1>6, <2>1 DEF Reset
<1>7. CASE Plan(t)
  <2>1. reset_by[s] \subseteq reset_by'[s]
    BY <1>7 DEF Plan, CallAgents, Disturb
  <2>2. QED
    BY <1>7, <2>1 DEF Plan, CallAgents
<1>8. CASE InsertBranches(t)
  BY <1>8 DEF InsertBranches
<1>9. CASE WrongThread(t)
  BY <1>9 DEF WrongThread
<1>10. CASE BudgetStops(t)
  BY <1>10 DEF BudgetStops
<1>11. CASE ToTheJudges(t)
  BY <1>11 DEF ToTheJudges
<1>12. CASE Judge(t)
  <2>1. reset_by[s] \subseteq reset_by'[s]
    BY <1>12 DEF Judge, CallAgents, Disturb
  <2>2. QED
    BY <1>12, <2>1 DEF Judge, CallAgents
<1>13. CASE Sandbox(t)
  BY <1>13 DEF Sandbox
<1>14. QED
  BY <1>1, <1>2, <1>3, <1>4, <1>5, <1>6, <1>7, <1>8, <1>9, <1>10, <1>11, <1>12, <1>13
     DEF Serve

(* Who is past its first insert got there on its own connection. *)
LEMMA Settled ==
  ASSUME Shape, NEW t \in Thread, Request(t) \/ Serve(t), pc'[t] \in Running
  PROVE  /\ mine'[t] = mine[t] /\ pc[t] \in Running \cup {"insert"}
         /\ pc[t] = "insert" => OwnsConnection(t)
<1> USE DEF Shape, Running, Phases, At, Goto, Ends
<1>1. CASE Request(t)
  BY <1>1 DEF Request
<1>2. CASE Reuse(t)
  BY <1>2 DEF Reuse
<1>3. CASE Construct(t)
  BY <1>3 DEF Construct
<1>4. CASE Assign(t)
  BY <1>4 DEF Assign
<1>5. CASE Return(t)
  BY <1>5 DEF Return
<1>6. CASE Reset(t)
  BY <1>6 DEF Reset
<1>7. CASE Plan(t)
  BY <1>7 DEF Plan, CallAgents
<1>8. CASE InsertBranches(t)
  BY <1>8 DEF InsertBranches
<1>9. CASE WrongThread(t)
  BY <1>9 DEF WrongThread
<1>10. CASE BudgetStops(t)
  BY <1>10 DEF BudgetStops
<1>11. CASE ToTheJudges(t)
  BY <1>11 DEF ToTheJudges
<1>12. CASE Judge(t)
  BY <1>12 DEF Judge, CallAgents
<1>13. CASE Sandbox(t)
  BY <1>13 DEF Sandbox
<1>14. QED
  BY <1>1, <1>2, <1>3, <1>4, <1>5, <1>6, <1>7, <1>8, <1>9, <1>10, <1>11, <1>12, <1>13
     DEF Serve

(* A task starts with nothing spent and no verdict. *)
LEMMA OwnTally ==
  ASSUME Shape, Tallies, Accounted, NEW t \in Thread, Request(t) \/ Serve(t)
  PROVE  /\ pc'[t] \in Looking \cup {"reset"} => spent'[t] = 0
         /\ pc'[t] # "idle" => verdict'[t] = "none"
<1> USE DEF Shape, Tallies, Accounted, Phases, Looking, At, Goto, Ends, task_vars
<1>1. CASE Request(t)
  BY <1>1 DEF Request
<1>2. CASE Reuse(t)
  BY <1>2 DEF Reuse
<1>3. CASE Construct(t)
  BY <1>3 DEF Construct
<1>4. CASE Assign(t)
  BY <1>4 DEF Assign
<1>5. CASE Return(t)
  BY <1>5 DEF Return
<1>6. CASE Reset(t)
  BY <1>6 DEF Reset
<1>7. CASE Plan(t)
  BY <1>7 DEF Plan, CallAgents
<1>8. CASE InsertBranches(t)
  BY <1>8 DEF InsertBranches
<1>9. CASE WrongThread(t)
  BY <1>9 DEF WrongThread
<1>10. CASE BudgetStops(t)
  BY <1>10 DEF BudgetStops
<1>11. CASE ToTheJudges(t)
  BY <1>11 DEF ToTheJudges
<1>12. CASE Judge(t)
  BY <1>12 DEF Judge, CallAgents
<1>13. CASE Sandbox(t)
  BY <1>13 DEF Sandbox
<1>14. QED
  BY <1>1, <1>2, <1>3, <1>4, <1>5, <1>6, <1>7, <1>8, <1>9, <1>10, <1>11, <1>12, <1>13
     DEF Serve

(* What a task adds to its meter it has spent. *)
LEMMA OwnMeter ==
  ASSUME OrchOK, Shape, Tallies, Accounted, NEW t \in Thread, Request(t) \/ Serve(t),
         reset_by'[t] = {}, pc'[t] \in Metered
  PROVE  orch'[mine'[t]].meter = spent'[t]
<1>0. t \notin Sharing(t)
  BY DEF Sharing
<1> USE <1>0 DEF Shape, Tallies, Accounted, Phases, Metered, Running, At, Goto, Ends, task_vars
<1>1. CASE Request(t)
  BY <1>1 DEF Request
<1>2. CASE Reuse(t)
  BY <1>2 DEF Reuse
<1>3. CASE Construct(t)
  BY <1>3 DEF Construct
<1>4. CASE Assign(t)
  BY <1>4 DEF Assign
<1>5. CASE Return(t)
  BY <1>5 DEF Return
<1>6. CASE Reset(t)
  <2>1. mine[t] \in 1 .. Len(orch)
    BY <1>6, MeterSteps
  <2>2. orch' = [orch EXCEPT ![mine[t]].meter = 0] /\ UNCHANGED <<mine, spent>>
    BY <1>6 DEF Reset
  <2>3. orch'[mine[t]].meter = 0
    BY <2>1, <2>2, MeterWrite
  <2>4. spent[t] = 0
    BY <1>6 DEF Reset
  <2>5. QED
    BY <2>2, <2>3, <2>4
<1>7. CASE Plan(t)
  <2>1. PICK u \in Usage : /\ orch' = [orch EXCEPT ![mine[t]].meter = @ + u]
                          /\ spent' = [spent EXCEPT ![t] = @ + u]
    BY <1>7 DEF Plan, CallAgents
  <2>2. Disturb(t) /\ UNCHANGED mine /\ pc[t] \in Metered
    BY <1>7 DEF Plan, CallAgents
  <2>3. mine[t] \in 1 .. Len(orch)
    BY <1>7, MeterSteps
  <2>4. orch[mine[t]].meter + u \in Nat
    <3>1. orch[mine[t]] \in Orchestrator
      BY <2>3 DEF OrchOK
    <3>2. u \in Nat
      BY AppAssumption DEF AppAssumption
    <3>3. QED
      BY <3>1, <3>2 DEF Orchestrator
  <2>5. orch'[mine[t]].meter = orch[mine[t]].meter + u
    BY <2>1, <2>3, <2>4, MeterWrite
  <2>6. reset_by'[t] = reset_by[t]
    BY <2>2 DEF Disturb
  <2>7. orch[mine[t]].meter = spent[t]
    BY <2>2, <2>6
  <2>8. QED
    BY <2>1, <2>2, <2>5, <2>7
<1>8. CASE InsertBranches(t)
  BY <1>8 DEF InsertBranches
<1>9. CASE WrongThread(t)
  BY <1>9 DEF WrongThread
<1>10. CASE BudgetStops(t)
  BY <1>10 DEF BudgetStops
<1>11. CASE ToTheJudges(t)
  BY <1>11 DEF ToTheJudges
<1>12. CASE Judge(t)
  <2>1. PICK u \in Usage : /\ orch' = [orch EXCEPT ![mine[t]].meter = @ + u]
                          /\ spent' = [spent EXCEPT ![t] = @ + u]
    BY <1>12 DEF Judge, CallAgents
  <2>2. Disturb(t) /\ UNCHANGED mine /\ pc[t] \in Metered
    BY <1>12 DEF Judge, CallAgents
  <2>3. mine[t] \in 1 .. Len(orch)
    BY <1>12, MeterSteps
  <2>4. orch[mine[t]].meter + u \in Nat
    <3>1. orch[mine[t]] \in Orchestrator
      BY <2>3 DEF OrchOK
    <3>2. u \in Nat
      BY AppAssumption DEF AppAssumption
    <3>3. QED
      BY <3>1, <3>2 DEF Orchestrator
  <2>5. orch'[mine[t]].meter = orch[mine[t]].meter + u
    BY <2>1, <2>3, <2>4, MeterWrite
  <2>6. reset_by'[t] = reset_by[t]
    BY <2>2 DEF Disturb
  <2>7. orch[mine[t]].meter = spent[t]
    BY <2>2, <2>6
  <2>8. QED
    BY <2>1, <2>2, <2>5, <2>7
<1>13. CASE Sandbox(t)
  BY <1>13 DEF Sandbox
<1>14. QED
  BY <1>1, <1>2, <1>3, <1>4, <1>5, <1>6, <1>7, <1>8, <1>9, <1>10, <1>11, <1>12, <1>13
     DEF Serve

(* A verdict is reached on the meter. *)
LEMMA OwnVerdict ==
  ASSUME OrchOK, Shape, Tallies, Accounted, BudgetIsOwnUnlessShared,
         NEW t \in Thread, Request(t) \/ Serve(t), reset_by'[t] = {}
  PROVE  /\ verdict'[t] = "ran" => spent'[t] <= MaxTokens
         /\ verdict'[t] = "stopped" => spent'[t] > MaxTokens
<1> USE AppAssumption DEF Shape, Tallies, Accounted, BudgetIsOwnUnlessShared, Metered, Running,
        AppAssumption, At, Goto, Ends, task_vars
<1>1. CASE Request(t)
  BY <1>1 DEF Request
<1>2. CASE Reuse(t)
  BY <1>2 DEF Reuse
<1>3. CASE Construct(t)
  BY <1>3 DEF Construct
<1>4. CASE Assign(t)
  BY <1>4 DEF Assign
<1>5. CASE Return(t)
  BY <1>5 DEF Return
<1>6. CASE Reset(t)
  BY <1>6 DEF Reset
<1>7. CASE Plan(t)
  BY <1>7 DEF Plan, CallAgents
<1>8. CASE InsertBranches(t)
  BY <1>8 DEF InsertBranches
<1>9. CASE WrongThread(t)
  BY <1>9 DEF WrongThread
<1>10. CASE BudgetStops(t)
  <2>1. /\ verdict'[t] = "stopped" /\ UNCHANGED <<spent, reset_by>>
        /\ pc[t] \in {"check", "recheck"} /\ orch[mine[t]].meter > MaxTokens
    BY <1>10 DEF BudgetStops, OverBudget
  <2>2. spent[t] = orch[mine[t]].meter
    BY <2>1
  <2>3. QED
    BY <2>1, <2>2
<1>11. CASE ToTheJudges(t)
  BY <1>11 DEF ToTheJudges
<1>12. CASE Judge(t)
  BY <1>12 DEF Judge, CallAgents
<1>13. CASE Sandbox(t)
  <2>1. /\ verdict'[t] = "ran" /\ UNCHANGED <<spent, reset_by>>
        /\ pc[t] \in {"check", "recheck"} /\ ~(orch[mine[t]].meter > MaxTokens)
    BY <1>13 DEF Sandbox, OverBudget
  <2>2. spent[t] = orch[mine[t]].meter
    BY <2>1
  <2>3. QED
    BY <2>1, <2>2
<1>14. QED
  BY <1>1, <1>2, <1>3, <1>4, <1>5, <1>6, <1>7, <1>8, <1>9, <1>10, <1>11, <1>12, <1>13
     DEF Serve

(* The orchestrator a task ends up with is of its mode unless it was raced. *)
LEMMA OwnMode ==
  ASSUME OrchOK, Shape, Tallies, AsAsked, NEW t \in Thread, Request(t) \/ Serve(t), ~raced'[t]
  PROVE  /\ pc'[t] = "assign" => orch'[mine'[t]].mode = asked'[t]
         /\ pc'[t] = "return" => orch'[current'].mode = asked'[t]
         /\ pc'[t] \notin {"idle"} \cup Looking => orch'[mine'[t]].mode = asked'[t]
<1>0. \A i \in 1 .. Len(orch) : orch'[i].mode = orch[i].mode
  BY OrchNext
<1>00. /\ pc[t] \notin {"idle", "test", "return"} => mine[t] \in 1 .. Len(orch)
       /\ pc[t] = "return" => current \in 1 .. Len(orch)
  BY DEF OrchOK, Shape
<1> USE <1>0, <1>00 DEF Shape, AsAsked, Phases, Looking, At, Goto, Ends, task_vars
<1>1. CASE Request(t)
  BY <1>1 DEF Request
<1>2. CASE Reuse(t)
  BY <1>2 DEF Reuse, Fits
<1>3. CASE Construct(t)
  BY <1>3 DEF Construct
<1>4. CASE Assign(t)
  BY <1>4 DEF Assign
<1>5. CASE Return(t)
  BY <1>5 DEF Return
<1>6. CASE Reset(t)
  BY <1>6 DEF Reset
<1>7. CASE Plan(t)
  BY <1>7 DEF Plan, CallAgents
<1>8. CASE InsertBranches(t)
  BY <1>8 DEF InsertBranches
<1>9. CASE WrongThread(t)
  BY <1>9 DEF WrongThread
<1>10. CASE BudgetStops(t)
  BY <1>10 DEF BudgetStops
<1>11. CASE ToTheJudges(t)
  BY <1>11 DEF ToTheJudges
<1>12. CASE Judge(t)
  BY <1>12 DEF Judge, CallAgents
<1>13. CASE Sandbox(t)
  BY <1>13 DEF Sandbox
<1>14. QED
  BY <1>1, <1>2, <1>3, <1>4, <1>5, <1>6, <1>7, <1>8, <1>9, <1>10, <1>11, <1>12, <1>13
     DEF Serve

(* A step of a thread writes to the connection of its own orchestrator. *)
LEMMA OwnedNext ==
  ASSUME OrchOK, Shape, Tallies, Owned, NEW t \in Thread, Request(t) \/ Serve(t)
  PROVE  Owned'
<1>1. \A i \in 1 .. Len(orch) : orch'[i].owner = orch[i].owner
  BY OrchNext
<1>2. \A s \in Thread : pc[s] \in Running \cup {"insert"} => mine[s] \in 1 .. Len(orch)
  <2>1. Len(orch) \in Nat
    BY DEF OrchOK
  <2>2. ASSUME NEW s \in Thread, pc[s] \in Running \cup {"insert"}
        PROVE  mine[s] # 0 /\ mine[s] \in 0 .. Len(orch)
    BY <2>2 DEF Shape, Running
  <2>3. QED
    BY <2>1, <2>2
<1>3. ASSUME NEW s \in Thread, pc'[s] \in Running
      PROVE  orch'[mine'[s]].owner = s
  <2>1. CASE s = t
    <3>1. /\ mine'[t] = mine[t] /\ pc[t] \in Running \cup {"insert"}
          /\ pc[t] = "insert" => OwnsConnection(t)
      BY <1>3, <2>1, Settled
    <3>2. orch[mine[t]].owner = t
      BY <3>1 DEF Owned, OwnsConnection, Running
    <3>3. QED
      BY <1>1, <1>2, <2>1, <3>1, <3>2
  <2>2. CASE s # t
    <3>1. pc'[s] = pc[s] /\ mine'[s] = mine[s]
      BY <2>2, OthersStay
    <3>2. QED
      BY <1>1, <1>2, <1>3, <3>1 DEF Owned
  <2>3. QED
    BY <2>1, <2>2
<1>4. QED
  BY <1>3 DEF Owned

(* A step of a thread keeps its own account, or shows in those it disturbs. *)
LEMMA AccountedNext ==
  ASSUME OrchOK, Shape, Tallies, Accounted, NEW t \in Thread, Request(t) \/ Serve(t)
  PROVE  Accounted'
<1>1. \A s \in Thread : pc[s] \in Metered => mine[s] \in 1 .. Len(orch)
  BY DEF OrchOK, Shape, Metered, Running
<1>2. ASSUME NEW s \in Thread, s # t, reset_by'[s] = {}, pc[s] \in Metered
      PROVE  orch'[mine[s]].meter = orch[mine[s]].meter
  <2>1. SUFFICES ASSUME orch'[mine[s]].meter # orch[mine[s]].meter
                 PROVE  FALSE
    OBVIOUS
  <2>2. mine[s] = mine[t] /\ (Reset(t) \/ Plan(t) \/ Judge(t))
    BY <1>1, <1>2, <2>1, MetersNext
  <2>3. Disturb(t)
    BY <2>2 DEF Reset, Plan, Judge, CallAgents
  <2>4. s \in Sharing(t)
    BY <1>2, <2>2 DEF Sharing, Metered, Running, Looking
  <2>5. t \in reset_by'[s]
    BY <2>3, <2>4 DEF Disturb
  <2>6. QED
    BY <1>2, <2>5
<1>3. ASSUME NEW s \in Thread, s # t
      PROVE  /\ pc'[s] \in Looking \cup {"reset"} => spent'[s] = 0
             /\ pc'[s] # "idle" => verdict'[s] = "none"
             /\ reset_by'[s] = {} /\ pc'[s] \in Metered => orch'[mine'[s]].meter = spent'[s]
  <2>1. /\ pc'[s] = pc[s] /\ mine'[s] = mine[s] /\ spent'[s] = spent[s]
        /\ verdict'[s] = verdict[s] /\ reset_by[s] \subseteq reset_by'[s]
    BY <1>3, OthersStay
  <2>2. QED
    BY <1>2, <1>3, <2>1 DEF Accounted
<1>4. /\ pc'[t] \in Looking \cup {"reset"} => spent'[t] = 0
      /\ pc'[t] # "idle" => verdict'[t] = "none"
  BY OwnTally
<1>5. reset_by'[t] = {} /\ pc'[t] \in Metered => orch'[mine'[t]].meter = spent'[t]
  BY OwnMeter
<1>6. QED
  BY <1>3, <1>4, <1>5 DEF Accounted

(* A verdict is reached on what the task itself spent. *)
LEMMA VerdictNext ==
  ASSUME OrchOK, Shape, Tallies, Accounted, BudgetIsOwnUnlessShared,
         NEW t \in Thread, Request(t) \/ Serve(t)
  PROVE  BudgetIsOwnUnlessShared'
<1>1. ASSUME NEW s \in Thread \ {t}, reset_by'[s] = {}
      PROVE  /\ verdict'[s] = "ran" => spent'[s] <= MaxTokens
             /\ verdict'[s] = "stopped" => spent'[s] > MaxTokens
  <2>1. spent'[s] = spent[s] /\ verdict'[s] = verdict[s] /\ reset_by[s] = {}
    BY <1>1, OthersStay
  <2>2. QED
    BY <2>1 DEF BudgetIsOwnUnlessShared
<1>2. ASSUME reset_by'[t] = {}
      PROVE  /\ verdict'[t] = "ran" => spent'[t] <= MaxTokens
             /\ verdict'[t] = "stopped" => spent'[t] > MaxTokens
  BY <1>2, OwnVerdict
<1>3. QED
  BY <1>1, <1>2 DEF BudgetIsOwnUnlessShared

(* A task whose request was not raced gets an orchestrator of its mode. *)
LEMMA AsAskedNext ==
  ASSUME OrchOK, Shape, Tallies, AsAsked, NEW t \in Thread, Request(t) \/ Serve(t)
  PROVE  AsAsked'
<1>1. \A i \in 1 .. Len(orch) : orch'[i].mode = orch[i].mode
  BY OrchNext
<1>2. \A s \in Thread : /\ pc[s] \notin {"idle", "test", "return"} => mine[s] \in 1 .. Len(orch)
                        /\ pc[s] = "return" => current \in 1 .. Len(orch)
  BY DEF OrchOK, Shape
<1>3. ASSUME NEW s \in Thread \ {t}, ~raced'[s]
      PROVE  /\ pc'[s] = "assign" => orch'[mine'[s]].mode = asked'[s]
             /\ pc'[s] = "return" => orch'[current'].mode = asked'[s]
             /\ pc'[s] \notin {"idle"} \cup Looking => orch'[mine'[s]].mode = asked'[s]
  <2>1. /\ pc'[s] = pc[s] /\ mine'[s] = mine[s] /\ asked'[s] = asked[s] /\ ~raced[s]
        /\ pc[s] = "return" => current' = current
    BY <1>3, OthersStay DEF Looking
  <2>2. QED
    BY <1>1, <1>2, <2>1 DEF AsAsked, Looking
<1>4. ASSUME ~raced'[t]
      PROVE  /\ pc'[t] = "assign" => orch'[mine'[t]].mode = asked'[t]
             /\ pc'[t] = "return" => orch'[current'].mode = asked'[t]
             /\ pc'[t] \notin {"idle"} \cup Looking => orch'[mine'[t]].mode = asked'[t]
  BY <1>4, OwnMode
<1>5. QED
  BY <1>3, <1>4 DEF AsAsked

(* Every step keeps the invariant. *)
LEMMA IInvNext ==
  ASSUME IInv, [Next]_vars
  PROVE  IInv'
<1>1. CASE Next
  <2>1. PICK t \in Thread : Request(t) \/ Serve(t)
    BY <1>1 DEF Next
  <2>2. OrchOK' /\ Shape' /\ Tallies'
    BY <2>1, OrchNext, ShapeNext, TalliesNext DEF IInv
  <2>3. Owned' /\ Accounted' /\ BudgetIsOwnUnlessShared' /\ AsAsked'
    BY <2>1, OwnedNext, AccountedNext, VerdictNext, AsAskedNext DEF IInv
  <2>4. QED
    BY <2>2, <2>3 DEF IInv
<1>2. CASE UNCHANGED vars
  BY <1>2 DEF IInv, OrchOK, Shape, Tallies, Owned, Accounted, BudgetIsOwnUnlessShared, AsAsked,
              vars, task_vars
<1>3. QED
  BY <1>1, <1>2

(* The invariant holds in every reachable state. *)
THEOREM Invariant == Spec => []IInv
<1>1. Init => IInv
  BY IInvInit
<1>2. IInv /\ [Next]_vars => IInv'
  BY IInvNext
<1>3. QED
  BY <1>1, <1>2, PTL DEF Spec

(* However threads interleave, at most one task gets past its first insert   *)
(* on one orchestrator: the connection refuses the others (app.py:27-33,     *)
(* db_client.py).                                                            *)
THEOREM ConnectionsAreNotShared == Spec => []OneTaskPerConnection
<1>1. IInv => OneTaskPerConnection
  BY DEF IInv, Owned, Running, OneTaskPerConnection
<1>2. QED
  BY <1>1, Invariant, PTL

(* A task is held to its own budget, in both directions, and runs in the mode *)
(* it asked for, unless another request used its meters or replaced the       *)
(* global in between.                                                         *)
THEOREM TasksAreTheirOwn == Spec => []TasksRunAsAsked
<1>1. IInv => TasksRunAsAsked
  <2>1. AsAsked => ModeAsAskedUnlessRaced
    BY DEF AsAsked, ModeAsAskedUnlessRaced
  <2>2. QED
    BY <2>1 DEF IInv, TasksRunAsAsked
<1>2. QED
  BY <1>1, Invariant, PTL


(***************************************************************************)
(* The agents of one task.  What a call has sent is bounded by where it is *)
(* in its two rounds of retries; a judge is asked only past a planner that *)
(* found branches; and whatever is billed is metered or was never read.    *)
(***************************************************************************)
Rounds(n) == IF n = 0 THEN 0 ELSE MaxRetries + 1

SentSoFar ==
  /\ \A a \in Triad!Agent : requests[a] <= 2 * (MaxRetries + 1)
  /\ agent \in Triad!Agent =>
       /\ call = "call" => requests[agent] = 0
       /\ call = "request" => requests[agent] <= Rounds(attempt) + tries
       /\ call = "parse" => requests[agent] <= Rounds(attempt) + tries + 1

NotYetAsked(a) == requests[a] = 0 /\ result[a] = "pending"

Turns ==
  /\ agent = "none" => call = "call"
  /\ agent \in Triad!Agent => result[agent] = "pending"
  /\ agent = "planner" => NotYetAsked("simulator") /\ NotYetAsked("critic")
  /\ agent = "simulator" => NotYetAsked("critic") /\ branches > 0
  /\ agent = "critic" => branches > 0

AgentInv ==
  /\ Triad!TypeOK /\ SentSoFar /\ Turns
  /\ Triad!MeterMissesOnlyTheUnread /\ Triad!JudgesAreIndependent

(* The types of what the calls change, without the counters. *)
LEMMA TriadTypes ==
  ASSUME Triad!TypeOK
  PROVE  /\ agent \in Triad!Agent \cup {"none"} /\ tries \in Nat /\ tries <= MaxRetries
         /\ attempt \in {0, 1} /\ MaxRetries \in Nat /\ branches \in Nat /\ K \in Nat \ {0}
         /\ requests \in [Triad!Agent -> Nat] /\ metered \in [Triad!Agent -> Nat]
         /\ billed \in [Triad!Agent -> Nat] /\ unread \in [Triad!Agent -> Nat]
         /\ result \in [Triad!Agent -> Triad!Result]
<1>1. MaxRetries \in Nat /\ K \in Nat \ {0}
  BY TriadAssumption DEF Triad!AgentClientAssumption
<1>2. QED
  BY <1>1 DEF Triad!TypeOK

(* No call has been made. *)
LEMMA AgentsStart == Triad!Init => AgentInv
<1> SUFFICES ASSUME Triad!Init PROVE AgentInv
  OBVIOUS
<1> USE DEF Triad!Agent
<1>1. MaxRetries \in Nat /\ K \in Nat \ {0}
  BY TriadAssumption DEF Triad!AgentClientAssumption
<1>2. Triad!TypeOK
  BY <1>1 DEF Triad!Init, Triad!TypeOK, Triad!Texts, Triad!Result
<1>3. SentSoFar
  BY <1>1 DEF Triad!Init, SentSoFar
<1>4. Turns
  BY DEF Triad!Init, Turns, NotYetAsked
<1>5. Triad!MeterMissesOnlyTheUnread
  BY DEF Triad!Init, Triad!MeterMissesOnlyTheUnread
<1>6. Triad!JudgesAreIndependent
  BY DEF Triad!Init, Triad!JudgesAreIndependent
<1>7. QED
  BY <1>2, <1>3, <1>4, <1>5, <1>6 DEF AgentInv

(* Whatever ends a call hands the turn on. *)
LEMMA EndsHandsOn ==
  ASSUME AgentInv, agent \in Triad!Agent, NEW how \in {"list", "AgentError", "crash"},
         NEW found \in 0 .. K, Triad!Ends(how, found), UNCHANGED attempt,
         requests' \in [Triad!Agent -> Nat],
         \A a \in Triad!Agent : requests'[a] <= 2 * (MaxRetries + 1),
         \A a \in Triad!Agent \ {agent} : requests'[a] = requests[a]
  PROVE  /\ agent' \in Triad!Agent \cup {"none"} /\ call' = "call"
         /\ result' \in [Triad!Agent -> Triad!Result] /\ branches' \in 0 .. K
         /\ SentSoFar' /\ Turns' /\ Triad!JudgesAreIndependent'
<1>1. /\ result \in [Triad!Agent -> Triad!Result] /\ branches \in 0 .. K
      /\ requests \in [Triad!Agent -> Nat]
  BY DEF AgentInv, Triad!TypeOK
<1>2. /\ result' = [result EXCEPT ![agent] = how] /\ call' = "call"
      /\ branches' = IF agent = "planner" THEN found ELSE branches
      /\ agent' \in Triad!After(how, found)
  BY DEF Triad!Ends
<1>3. result' \in [Triad!Agent -> Triad!Result]
  BY <1>1, <1>2 DEF Triad!Result
<1>4. branches' \in 0 .. K
  BY <1>1, <1>2
<1>5. /\ agent = "planner" =>
           agent' \in {"none"} \cup (IF how = "list" /\ found > 0 THEN {"simulator"} ELSE {})
      /\ agent = "simulator" => agent' = (IF how = "crash" THEN "none" ELSE "critic")
      /\ agent = "critic" => agent' = "none"
  <2>1. CASE how = "crash"
    BY <1>2, <2>1 DEF Triad!After
  <2>2. CASE how # "crash" /\ agent = "planner"
    BY <1>2, <2>2 DEF Triad!After
  <2>3. CASE how # "crash" /\ agent = "simulator"
    BY <1>2, <2>3 DEF Triad!After
  <2>4. CASE how # "crash" /\ agent = "critic"
    BY <1>2, <2>4 DEF Triad!After
  <2>5. QED
    BY <2>1, <2>2, <2>3, <2>4 DEF Triad!Agent
<1>6. K \in Nat \ {0} /\ found \in Nat /\ branches \in Nat
  BY <1>1, TriadAssumption DEF Triad!AgentClientAssumption
<1>7. Turns
  BY DEF AgentInv
<1>8. CASE agent = "planner"
  <2>1. /\ requests'["simulator"] = 0 /\ requests'["critic"] = 0
        /\ result'["simulator"] = "pending" /\ result'["critic"] = "pending"
    BY <1>1, <1>2, <1>7, <1>8 DEF Turns, NotYetAsked, Triad!Agent
  <2>2. agent' = "none" \/ (agent' = "simulator" /\ branches' > 0)
    BY <1>2, <1>5, <1>6, <1>8
  <2>3. Turns' /\ SentSoFar'
    BY <1>2, <2>1, <2>2 DEF Turns, SentSoFar, NotYetAsked, Triad!Agent
  <2>4. Triad!JudgesAreIndependent'
    BY <2>1 DEF Triad!JudgesAreIndependent
  <2>5. QED
    BY <1>2, <1>3, <1>4, <2>2, <2>3, <2>4 DEF Triad!Agent
<1>9. CASE agent = "simulator"
  <2>1. /\ requests'["critic"] = 0 /\ result'["critic"] = "pending" /\ result'["simulator"] = how
        /\ branches' > 0
    BY <1>1, <1>2, <1>7, <1>9 DEF Turns, NotYetAsked, Triad!Agent
  <2>2. (agent' = "none" /\ how = "crash") \/ agent' = "critic"
    BY <1>5, <1>9
  <2>3. Turns' /\ SentSoFar'
    BY <1>2, <2>1, <2>2 DEF Turns, SentSoFar, NotYetAsked, Triad!Agent
  <2>4. Triad!JudgesAreIndependent'
    BY <2>1, <2>2 DEF Triad!JudgesAreIndependent
  <2>5. QED
    BY <1>2, <1>3, <1>4, <2>2, <2>3, <2>4 DEF Triad!Agent
<1>10. CASE agent = "critic"
  <2>1. result'["critic"] = how /\ branches' > 0 /\ agent' = "none"
    BY <1>1, <1>2, <1>5, <1>7, <1>10 DEF Turns, Triad!Agent
  <2>2. Turns' /\ SentSoFar'
    BY <1>2, <2>1 DEF Turns, SentSoFar, Triad!Agent
  <2>3. Triad!JudgesAreIndependent'
    BY <2>1 DEF Triad!JudgesAreIndependent
  <2>4. QED
    BY <1>2, <1>3, <1>4, <2>1, <2>2, <2>3
<1>11. QED
  BY <1>8, <1>9, <1>10 DEF Triad!Agent

(* One more request, of the agent whose turn it is, and within its rounds. *)
LEMMA RequestIsCounted ==
  ASSUME AgentInv, call = "request", Triad!Sent
  PROVE  /\ agent \in Triad!Agent /\ requests' \in [Triad!Agent -> Nat]
         /\ requests'[agent] = requests[agent] + 1
         /\ requests'[agent] <= Rounds(attempt) + tries + 1
         /\ \A a \in Triad!Agent \ {agent} : requests'[a] = requests[a]
         /\ \A a \in Triad!Agent : requests'[a] <= 2 * (MaxRetries + 1)
<1>1. /\ agent \in Triad!Agent \cup {"none"} /\ tries \in Nat /\ tries <= MaxRetries
      /\ attempt \in {0, 1} /\ MaxRetries \in Nat /\ requests \in [Triad!Agent -> Nat]
  BY TriadTypes DEF AgentInv
<1>2. agent \in Triad!Agent
  BY <1>1 DEF AgentInv, Turns
<1>3. requests' = [requests EXCEPT ![agent] = @ + 1]
  BY DEF Triad!Sent
<1>4. /\ requests' \in [Triad!Agent -> Nat] /\ requests'[agent] = requests[agent] + 1
      /\ \A a \in Triad!Agent \ {agent} : requests'[a] = requests[a]
  BY <1>1, <1>2, <1>3
<1>5. /\ requests[agent] <= Rounds(attempt) + tries
      /\ \A a \in Triad!Agent : requests[a] <= 2 * (MaxRetries + 1)
  BY <1>2 DEF AgentInv, SentSoFar
<1>6. Rounds(attempt) \in Nat /\ Rounds(attempt) <= MaxRetries + 1
  BY <1>1 DEF Rounds
<1>7. requests[agent] \in Nat
  BY <1>1, <1>2
<1>8. requests'[agent] <= Rounds(attempt) + tries + 1
  BY <1>1, <1>4, <1>5, <1>6, <1>7
<1>9. requests'[agent] <= 2 * (MaxRetries + 1)
  BY <1>1, <1>4, <1>6, <1>7, <1>8
<1>10. QED
  BY <1>2, <1>4, <1>5, <1>8, <1>9

(* What is billed is metered or was never read. *)
LEMMA BillIsShared ==
  ASSUME AgentInv, agent \in Triad!Agent, NEW u \in Nat,
         billed' = [billed EXCEPT ![agent] = @ + u],
         \/ metered' = metered /\ unread' = [unread EXCEPT ![agent] = @ + u]
         \/ unread' = unread /\ metered' = [metered EXCEPT ![agent] = @ + u]
  PROVE  /\ billed' \in [Triad!Agent -> Nat] /\ metered' \in [Triad!Agent -> Nat]
         /\ unread' \in [Triad!Agent -> Nat] /\ Triad!MeterMissesOnlyTheUnread'
<1>1. /\ billed \in [Triad!Agent -> Nat] /\ metered \in [Triad!Agent -> Nat]
      /\ unread \in [Triad!Agent -> Nat]
      /\ \A a \in Triad!Agent : billed[a] = metered[a] + unread[a]
  BY DEF AgentInv, Triad!TypeOK, Triad!MeterMissesOnlyTheUnread
<1>2. /\ billed' \in [Triad!Agent -> Nat] /\ metered' \in [Triad!Agent -> Nat]
      /\ unread' \in [Triad!Agent -> Nat]
  <2>1. billed' \in [Triad!Agent -> Nat]
    BY <1>1
  <2>2. metered' \in [Triad!Agent -> Nat]
    BY <1>1
  <2>3. unread' \in [Triad!Agent -> Nat]
    BY <1>1
  <2>4. QED
    BY <2>1, <2>2, <2>3
<1>3. ASSUME NEW a \in Triad!Agent PROVE billed'[a] = metered'[a] + unread'[a]
  BY <1>1
<1>4. QED
  BY <1>2, <1>3 DEF Triad!MeterMissesOnlyTheUnread

(* A failed request is retried or ends the call, and is billed if read. *)
LEMMA RequestFails ==
  ASSUME AgentInv,
         \/ Triad!HttpFails \/ Triad!BodyUnreadable \/ Triad!NoContent \/ Triad!NullChoice
  PROVE  AgentInv'
<1>1. /\ call = "request" /\ Triad!Sent /\ UNCHANGED <<attempt, text>>
      /\ \/ Triad!Retry
         \/ Triad!Ends("crash", 0) /\ UNCHANGED tries
  BY DEF Triad!HttpFails, Triad!BodyUnreadable, Triad!NoContent, Triad!NullChoice
<1>2. /\ agent \in Triad!Agent /\ requests' \in [Triad!Agent -> Nat]
      /\ requests'[agent] <= Rounds(attempt) + tries + 1
      /\ \A a \in Triad!Agent \ {agent} : requests'[a] = requests[a]
      /\ \A a \in Triad!Agent : requests'[a] <= 2 * (MaxRetries + 1)
  BY <1>1, RequestIsCounted
<1>3. \E u \in Nat :
        /\ billed' = [billed EXCEPT ![agent] = @ + u]
        /\ \/ metered' = metered /\ unread' = [unread EXCEPT ![agent] = @ + u]
           \/ unread' = unread /\ metered' = [metered EXCEPT ![agent] = @ + u]
  <2>1. ReplyUsage \subseteq Nat
    BY TriadAssumption DEF Triad!AgentClientAssumption
  <2>2. CASE Triad!HttpFails
    BY <2>1, <2>2 DEF Triad!HttpFails
  <2>3. CASE Triad!BodyUnreadable
    BY <2>1, <2>3 DEF Triad!BodyUnreadable
  <2>4. CASE Triad!NoContent
    BY <2>1, <2>4 DEF Triad!NoContent, Triad!Metered
  <2>5. CASE Triad!NullChoice
    BY <2>1, <2>5 DEF Triad!NullChoice, Triad!Metered
  <2>6. QED
    BY <2>2, <2>3, <2>4, <2>5
<1>4. /\ billed' \in [Triad!Agent -> Nat] /\ metered' \in [Triad!Agent -> Nat]
      /\ unread' \in [Triad!Agent -> Nat] /\ Triad!MeterMissesOnlyTheUnread'
  BY <1>2, <1>3, BillIsShared
<1>5. /\ tries \in Nat /\ tries <= MaxRetries /\ attempt \in {0, 1} /\ MaxRetries \in Nat
      /\ K \in Nat
  BY TriadTypes DEF AgentInv
<1>6. CASE \E how \in {"AgentError", "crash"} : Triad!Ends(how, 0) /\ UNCHANGED tries
  <2>1. PICK how \in {"AgentError", "crash"} : Triad!Ends(how, 0) /\ UNCHANGED tries
    BY <1>6
  <2>2. 0 \in 0 .. K
    BY <1>5
  <2>3. /\ agent' \in Triad!Agent \cup {"none"} /\ call' = "call"
        /\ result' \in [Triad!Agent -> Triad!Result] /\ branches' \in 0 .. K
        /\ SentSoFar' /\ Turns' /\ Triad!JudgesAreIndependent'
    BY <1>1, <1>2, <2>1, <2>2, EndsHandsOn
  <2>4. Triad!TypeOK'
    BY <1>1, <1>2, <1>4, <2>1, <2>3 DEF AgentInv, Triad!TypeOK
  <2>5. QED
    BY <1>4, <2>3, <2>4 DEF AgentInv
<1>7. CASE /\ Triad!TriesLeft /\ tries' = tries + 1
           /\ UNCHANGED <<agent, call, result, branches>>
  <2>1. tries' \in 0 .. MaxRetries
    BY <1>5, <1>7 DEF Triad!TriesLeft
  <2>2. Triad!TypeOK'
    BY <1>1, <1>2, <1>4, <1>7, <2>1 DEF AgentInv, Triad!TypeOK
  <2>3. Rounds(attempt)' = Rounds(attempt) /\ Rounds(attempt) \in Nat
    BY <1>1, <1>5 DEF Rounds
  <2>4. SentSoFar'
    BY <1>1, <1>2, <1>5, <1>7, <2>3 DEF SentSoFar
  <2>5. Turns'
    BY <1>1, <1>2, <1>7 DEF AgentInv, Turns, NotYetAsked, Triad!Agent
  <2>6. Triad!JudgesAreIndependent'
    BY <1>1, <1>2, <1>7 DEF AgentInv, Turns, NotYetAsked, Triad!JudgesAreIndependent, Triad!Agent
  <2>7. QED
    BY <1>4, <2>2, <2>4, <2>5, <2>6 DEF AgentInv
<1>8. QED
  BY <1>1, <1>6, <1>7 DEF Triad!Retry

(* A reply with content is one more request, and read. *)
LEMMA ContentComes ==
  ASSUME AgentInv, Triad!Content
  PROVE  AgentInv'
<1>1. /\ call = "request" /\ Triad!Sent /\ call' = "parse"
      /\ UNCHANGED <<agent, tries, attempt, unread, result, branches>> /\ text' \in Triad!Texts
  BY DEF Triad!Content
<1>2. /\ agent \in Triad!Agent /\ requests' \in [Triad!Agent -> Nat]
      /\ requests'[agent] <= Rounds(attempt) + tries + 1
      /\ \A a \in Triad!Agent \ {agent} : requests'[a] = requests[a]
      /\ \A a \in Triad!Agent : requests'[a] <= 2 * (MaxRetries + 1)
  BY <1>1, RequestIsCounted
<1>3. \E u \in Nat : /\ billed' = [billed EXCEPT ![agent] = @ + u]
                     /\ metered' = [metered EXCEPT ![agent] = @ + u]
  BY TriadAssumption DEF Triad!Content, Triad!AgentClientAssumption
<1>4. /\ billed' \in [Triad!Agent -> Nat] /\ metered' \in [Triad!Agent -> Nat]
      /\ unread' \in [Triad!Agent -> Nat] /\ Triad!MeterMissesOnlyTheUnread'
  BY <1>1, <1>2, <1>3, BillIsShared
<1>5. Triad!TypeOK'
  BY <1>1, <1>2, <1>4 DEF AgentInv, Triad!TypeOK
<1>6. SentSoFar'
  BY <1>1, <1>2 DEF SentSoFar, Rounds
<1>7. Turns'
  BY <1>1, <1>2 DEF AgentInv, Turns, NotYetAsked, Triad!Agent
<1>8. Triad!JudgesAreIndependent'
  BY <1>1, <1>2 DEF AgentInv, Turns, NotYetAsked, Triad!JudgesAreIndependent, Triad!Agent
<1>9. QED
  BY <1>4, <1>5, <1>6, <1>7, <1>8 DEF AgentInv

(* A call begins with nothing sent, and is repaired once, in a new round. *)
LEMMA RoundBegins ==
  ASSUME AgentInv, Triad!Call \/ Triad!Repair
  PROVE  AgentInv'
<1>1. /\ UNCHANGED <<agent, text, requests, metered, billed, unread, result, branches>>
      /\ call' = "request" /\ tries' = 0 /\ attempt' \in {0, 1}
  BY DEF Triad!Call, Triad!Repair
<1>2. /\ tries \in Nat /\ tries <= MaxRetries /\ MaxRetries \in Nat
      /\ requests \in [Triad!Agent -> Nat]
  BY TriadTypes DEF AgentInv
<1>3. Triad!TypeOK'
  BY <1>1, <1>2 DEF AgentInv, Triad!TypeOK
<1>4. agent \in Triad!Agent => requests[agent] <= Rounds(attempt') + 0
  <2>1. CASE Triad!Call
    BY <1>1, <1>2, <2>1 DEF Triad!Call, AgentInv, SentSoFar, Rounds
  <2>2. CASE Triad!Repair
    BY <1>1, <1>2, <2>2 DEF Triad!Repair, AgentInv, SentSoFar, Rounds
  <2>3. QED
    BY <2>1, <2>2
<1>5. SentSoFar'
  BY <1>1, <1>4 DEF AgentInv, SentSoFar, Rounds
<1>6. agent # "none"
  <2>1. CASE Triad!Call
    BY <2>1 DEF Triad!Call
  <2>2. CASE Triad!Repair
    BY <2>2 DEF Triad!Repair, AgentInv, Turns
  <2>3. QED
    BY <2>1, <2>2
<1>7. Turns'
  BY <1>1, <1>6 DEF AgentInv, Turns, NotYetAsked
<1>8. Triad!JudgesAreIndependent' /\ Triad!MeterMissesOnlyTheUnread'
  BY <1>1 DEF AgentInv, Triad!JudgesAreIndependent, Triad!MeterMissesOnlyTheUnread
<1>9. QED
  BY <1>3, <1>5, <1>7, <1>8 DEF AgentInv

(* A reply that is parsed, or cannot be, ends the call and costs nothing more. *)
LEMMA ReplyEnds ==
  ASSUME AgentInv, Triad!ParseItems \/ Triad!Unrepairable \/ Triad!ParseNull
  PROVE  AgentInv'
<1>1. /\ call = "parse"
      /\ UNCHANGED <<tries, attempt, text, requests, metered, billed, unread>>
  BY DEF Triad!ParseItems, Triad!Unrepairable, Triad!ParseNull
<1>2. K \in Nat \ {0} /\ Listed \subseteq Nat
  BY TriadAssumption DEF Triad!AgentClientAssumption
<1>3. \E how \in {"list", "AgentError", "crash"}, found \in 0 .. K : Triad!Ends(how, found)
  <2>1. CASE Triad!ParseItems
    <3>1. PICK m \in Listed : Triad!Ends("list", Triad!Kept(m))
      BY <2>1 DEF Triad!ParseItems
    <3>2. Triad!Kept(m) \in 0 .. K
      BY <1>2 DEF Triad!Kept
    <3>3. QED
      BY <3>1, <3>2
  <2>2. CASE Triad!Unrepairable
    BY <1>2, <2>2 DEF Triad!Unrepairable
  <2>3. CASE Triad!ParseNull
    BY <1>2, <2>3 DEF Triad!ParseNull
  <2>4. QED
    BY <2>1, <2>2, <2>3
<1>4. PICK how \in {"list", "AgentError", "crash"}, found \in 0 .. K : Triad!Ends(how, found)
  BY <1>3
<1>5. /\ agent \in Triad!Agent /\ requests' \in [Triad!Agent -> Nat]
      /\ \A a \in Triad!Agent : requests'[a] <= 2 * (MaxRetries + 1)
      /\ \A a \in Triad!Agent \ {agent} : requests'[a] = requests[a]
  BY <1>1 DEF AgentInv, Turns, SentSoFar, Triad!TypeOK
<1>6. /\ agent' \in Triad!Agent \cup {"none"} /\ call' = "call"
      /\ result' \in [Triad!Agent -> Triad!Result] /\ branches' \in 0 .. K
      /\ SentSoFar' /\ Turns' /\ Triad!JudgesAreIndependent'
  BY <1>1, <1>4, <1>5, EndsHandsOn
<1>7. Triad!TypeOK'
  BY <1>1, <1>5, <1>6 DEF AgentInv, Triad!TypeOK
<1>8. Triad!MeterMissesOnlyTheUnread'
  BY <1>1 DEF AgentInv, Triad!MeterMissesOnlyTheUnread
<1>9. QED
  BY <1>6, <1>7, <1>8 DEF AgentInv

(* No step of the triad breaks the invariant. *)
LEMMA AgentsStep == AgentInv /\ [Triad!Next]_Triad!vars => AgentInv'
<1> SUFFICES ASSUME AgentInv, [Triad!Next]_Triad!vars PROVE AgentInv'
  OBVIOUS
<1>1. CASE \/ Triad!HttpFails \/ Triad!BodyUnreadable \/ Triad!NoContent
            \/ Triad!NullChoice
  BY <1>1, RequestFails
<1>2. CASE Triad!Content
  BY <1>2, ContentComes
<1>3. CASE Triad!Call \/ Triad!Repair
  BY <1>3, RoundBegins
<1>4. CASE Triad!ParseItems \/ Triad!Unrepairable \/ Triad!ParseNull
  BY <1>4, ReplyEnds
<1>5. CASE UNCHANGED Triad!vars
  <2>1. UNCHANGED <<agent, call, tries, attempt, text, requests, metered, billed, unread,
                    result, branches>>
    BY <1>5 DEF Triad!vars
  <2>2. Triad!TypeOK' /\ Triad!MeterMissesOnlyTheUnread' /\ Triad!JudgesAreIndependent'
    BY <2>1 DEF AgentInv, Triad!TypeOK, Triad!MeterMissesOnlyTheUnread,
                Triad!JudgesAreIndependent
  <2>3. SentSoFar'
    BY <2>1 DEF AgentInv, SentSoFar, Rounds
  <2>4. Turns'
    BY <2>1 DEF AgentInv, Turns, NotYetAsked
  <2>5. QED
    BY <2>2, <2>3, <2>4 DEF AgentInv
<1>6. QED
  BY <1>1, <1>2, <1>3, <1>4, <1>5 DEF Triad!Next, Triad!Step

(* A call costs two rounds of retries at the most, every token that could be    *)
(* read is on the meter the budget is checked against, and a judge is asked     *)
(* for branches only, and whatever became of the other judge                    *)
(* (LLMClient._chat and call_list, Orchestrator.run_task).                         *)
THEOREM AgentsStayAccountable == Triad!Spec => []AgentsAreAccountable
<1>1. AgentInv => AgentsAreAccountable
  BY DEF AgentInv, SentSoFar, AgentsAreAccountable, Triad!AgentsAreAccountable,
         Triad!CallsAreAccounted, Triad!RequestsAreBounded
<1>2. QED
  BY <1>1, AgentsStart, AgentsStep, PTL DEF Triad!Spec

(* Neither job of the service disturbs the other. *)
LEMMA ServeOrAsk == EitherSpec => Spec /\ Triad!Spec
<1>1. EitherInit => Init /\ Triad!Init
  BY DEF EitherInit
<1>2. [EitherNext]_<<job, vars, triad_vars>> => [Next]_vars
  BY DEF EitherNext
<1>3. [EitherNext]_<<job, vars, triad_vars>> => [Triad!Next]_Triad!vars
  BY DEF EitherNext, triad_vars, Triad!vars
<1>4. QED
  BY <1>1, <1>2, <1>3, PTL DEF EitherSpec, Spec, Triad!Spec

(* Whatever the service does with its threads and a task with its agents: each  *)
(* keeps what it keeps alone.                                                   *)
THEOREM ServiceIsSafe ==
  EitherSpec => [](OneTaskPerConnection /\ TasksRunAsAsked /\ AgentsAreAccountable)
<1>1. QED
  BY ServeOrAsk, ConnectionsAreNotShared, TasksAreTheirOwn, AgentsStayAccountable, PTL
=============================================================================
