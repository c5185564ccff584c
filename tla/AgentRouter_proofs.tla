------------------------- MODULE AgentRouter_proofs -------------------------
(***************************************************************************)
(* Theorems about the agents of a run, for any retry limits: what reaches  *)
(* the database was reviewed, a forced run never asks for a review, and    *)
(* every step of the graph is a step its contract allows.                  *)
(***************************************************************************)
EXTENDS AgentRouter, TLAPS

(* The opinion the supervisor and db_persist act on is about the output    *)
(* they act on.                                                            *)
OpinionIsFresh ==
    /\ node = "supervisor" /\ agent = "auditor" /\ ~error => judged
    /\ node = "supervisor" /\ agent = "contador" /\ ~error => ~judged
    /\ node = "db_persist" /\ ~forced =>
           judged /\ (opinion = "approves" \/ (opinion = "rejects" /\ singlePass))

(* The attempts spent on an output are forgotten before the next one.      *)
CountIsReset ==
    /\ FullAttempts
    /\ agent = "" => retryCount = 0
    /\ ~forced /\ (node = "tributario" \/ (node = "supervisor" /\ agent = "tributario"))
           => retryCount = 0

ReviewIsRecorded == node = "audit_review_terminal" => giveup /\ ~forced

EndsOnce == outcome # "none" => node = "END"

(* A negative budget is one that made the run give up.                     *)
BudgetCounts ==
    /\ rejections <= ContadorBudget - budget
    /\ node \notin {"audit_review_terminal", "END"} => budget >= 0

RouterInv ==
    /\ RouterTypeOK
    /\ OpinionIsFresh
    /\ CountIsReset
    /\ ReviewIsRecorded
    /\ EndsOnce
    /\ BudgetCounts
    /\ PersistedIsSanctioned
    /\ ReviewHasRecord

-----------------------------------------------------------------------------
(* The invariant holds when the graph is invoked.                          *)
LEMMA RouterInitInv == RouterInit => RouterInv
<1> SUFFICES ASSUME RouterInit PROVE RouterInv
  OBVIOUS
<1>1. FlagsOK
  BY DEF RouterInit, FlagsOK
<1>2. NamesOK
  BY DEF RouterInit, NamesOK, Nodes, Agents, Outputs, Opinions, Outcomes
<1>3. CountersOK /\ BudgetCounts /\ hops \in Nat
  <2>1. retryCount = 0 /\ rejections = 0 /\ budget = ContadorBudget /\ failures = 0 /\ hops = 0
    BY Zenon DEF RouterInit
  <2> QED
    BY <2>1, RouterAssumption DEF CountersOK, BudgetCounts
<1> QED
  BY <1>1, <1>2, <1>3 DEF RouterInit, RouterInv, RouterTypeOK, OpinionIsFresh, CountIsReset,
     FullAttempts, ReviewIsRecorded, EndsOnce, PersistedIsSanctioned, ReviewHasRecord

(* Where a hop leads.                                                      *)
LEMMA HopsTo == ASSUME NEW n, Hop(n) PROVE node' = n
BY DEF Hop

(* Every node counts as one hop.                                           *)
LEMMA HopsGrow ==
    ASSUME RouterInv, RouterNext
    PROVE  hops' \in Nat
<1>1. hops \in Nat
  BY DEF RouterInv, RouterTypeOK
<1>2. hops' = hops + 1
  BY DEF RouterNext, Contador, Tributario, Auditor, DbPersist, ErrorTerminal, AuditReviewTerminal,
     Supervisor, RouteStart, RouteError, RouteContador, RoutePucFails, RouteTributario, RouteForced,
     RouteMalformedOpinion, RouteApproved, RouteRejected, Accept, AskAgain, Exhausted, GiveUp,
     Hop, Route
<1> QED
  BY <1>1, <1>2

(* Each conjunct, over the nodes of the graph and the steps of the supervisor. *)
LEMMA FlagsStep ==
    ASSUME FlagsOK, RouterNext
    PROVE  FlagsOK'
<1> USE DEF FlagsOK, inputVars
<1>1. CASE Contador
  BY <1>1 DEF Contador
<1>2. CASE Tributario
  BY <1>2 DEF Tributario
<1>3. CASE Auditor
  BY <1>3 DEF Auditor
<1>4. CASE DbPersist
  BY <1>4 DEF DbPersist, Route
<1>5. CASE ErrorTerminal
  BY <1>5 DEF ErrorTerminal
<1>6. CASE AuditReviewTerminal
  BY <1>6 DEF AuditReviewTerminal
<1>7. CASE RouteStart
  BY <1>7 DEF RouteStart, AtSupervisor, Route
<1>8. CASE RouteError
  BY <1>8 DEF RouteError
<1>9. CASE RouteContador
  BY <1>9 DEF RouteContador, AtSupervisor, Accept, AskAgain, Exhausted, GiveUp, Route
<1>10. CASE RoutePucFails
  BY <1>10 DEF RoutePucFails, AtSupervisor
<1>11. CASE RouteTributario
  BY <1>11 DEF RouteTributario, AtSupervisor, Route
<1>12. CASE RouteForced
  BY <1>12 DEF RouteForced, AtSupervisor, Route
<1>13. CASE RouteMalformedOpinion
  BY <1>13 DEF RouteMalformedOpinion, AtSupervisor, AskAgain, Route
<1>14. CASE RouteApproved
  BY <1>14 DEF RouteApproved, AtSupervisor, Accept, Route
<1>15. CASE RouteRejected
  BY <1>15 DEF RouteRejected, AtSupervisor, GiveUp, Route
<1> QED
  BY <1>1, <1>2, <1>3, <1>4, <1>5, <1>6, <1>7, <1>8, <1>9, <1>10, <1>11, <1>12, <1>13, <1>14, <1>15 DEF RouterNext, Supervisor

(* The names of nodes, agents and outputs.                                 *)
LEMMA NamesStep ==
    ASSUME NamesOK, RouterNext
    PROVE  NamesOK'
<1> USE HopsTo DEF NamesOK, Nodes, Agents, Outputs, Opinions, Outcomes, inputVars
<1>1. CASE Contador
  BY <1>1 DEF Contador
<1>2. CASE Tributario
  BY <1>2 DEF Tributario
<1>3. CASE Auditor
  BY <1>3 DEF Auditor
<1>4. CASE DbPersist
  BY <1>4 DEF DbPersist, Route
<1>5. CASE ErrorTerminal
  BY <1>5 DEF ErrorTerminal
<1>6. CASE AuditReviewTerminal
  BY <1>6 DEF AuditReviewTerminal
<1>7. CASE RouteStart
  BY <1>7 DEF RouteStart, AtSupervisor, Route
<1>8. CASE RouteError
  BY <1>8 DEF RouteError
<1>9. CASE RouteContador
  BY <1>9 DEF RouteContador, AtSupervisor, Accept, AskAgain, Exhausted, GiveUp, Route
<1>10. CASE RoutePucFails
  BY <1>10 DEF RoutePucFails, AtSupervisor
<1>11. CASE RouteTributario
  BY <1>11 DEF RouteTributario, AtSupervisor, Route
<1>12. CASE RouteForced
  BY <1>12 DEF RouteForced, AtSupervisor, Route
<1>13. CASE RouteMalformedOpinion
  BY <1>13 DEF RouteMalformedOpinion, AtSupervisor, AskAgain, Route
<1>14. CASE RouteApproved
  BY <1>14 DEF RouteApproved, AtSupervisor, Accept, Route
<1>15. CASE RouteRejected
  BY <1>15 DEF RouteRejected, AtSupervisor, GiveUp, Route
<1> QED
  BY <1>1, <1>2, <1>3, <1>4, <1>5, <1>6, <1>7, <1>8, <1>9, <1>10, <1>11, <1>12, <1>13, <1>14, <1>15 DEF RouterNext, Supervisor

(* The counters, for which the give-up of the supervisor matters.          *)
LEMMA CountersStep ==
    ASSUME CountersOK, BudgetCounts, RouterNext
    PROVE  CountersOK' /\ BudgetCounts'
<1> USE HopsTo, RouterAssumption DEF CountersOK, BudgetCounts, CountFailure, inputVars
<1>1. CASE Contador
  BY <1>1 DEF Contador
<1>2. CASE Tributario
  BY <1>2 DEF Tributario
<1>3. CASE Auditor
  BY <1>3 DEF Auditor
<1>4. CASE DbPersist
  BY <1>4 DEF DbPersist, Route
<1>5. CASE ErrorTerminal
  BY <1>5 DEF ErrorTerminal
<1>6. CASE AuditReviewTerminal
  BY <1>6 DEF AuditReviewTerminal
<1>7. CASE RouteStart
  BY <1>7 DEF RouteStart, AtSupervisor, Route
<1>8. CASE RouteError
  BY <1>8 DEF RouteError
<1>9. CASE RouteContador
  BY <1>9 DEF RouteContador, AtSupervisor, Accept, AskAgain, Exhausted, GiveUp, Route, Attempt
<1>10. CASE RoutePucFails
  BY <1>10 DEF RoutePucFails, AtSupervisor
<1>11. CASE RouteTributario
  BY <1>11 DEF RouteTributario, AtSupervisor, Route
<1>12. CASE RouteForced
  BY <1>12 DEF RouteForced, AtSupervisor, Route
<1>13. CASE RouteMalformedOpinion
  BY <1>13 DEF RouteMalformedOpinion, AtSupervisor, AskAgain, Route, Attempt
<1>14. CASE RouteApproved
  BY <1>14 DEF RouteApproved, AtSupervisor, Accept, Route
<1>15. CASE RouteRejected
  BY <1>15 DEF RouteRejected, AtSupervisor, GiveUp, Route
<1> QED
  BY <1>1, <1>2, <1>3, <1>4, <1>5, <1>6, <1>7, <1>8, <1>9, <1>10, <1>11, <1>12, <1>13, <1>14, <1>15 DEF RouterNext, Supervisor

(* A new output is unjudged until the auditor has seen it.                 *)
LEMMA FreshStep ==
    ASSUME OpinionIsFresh, RouterNext
    PROVE  OpinionIsFresh'
<1> USE HopsTo DEF OpinionIsFresh, inputVars
<1>1. CASE Contador
  BY <1>1 DEF Contador
<1>2. CASE Tributario
  BY <1>2 DEF Tributario
<1>3. CASE Auditor
  BY <1>3 DEF Auditor
<1>4. CASE DbPersist
  BY <1>4 DEF DbPersist, Route
<1>5. CASE ErrorTerminal
  BY <1>5 DEF ErrorTerminal
<1>6. CASE AuditReviewTerminal
  BY <1>6 DEF AuditReviewTerminal
<1>7. CASE RouteStart
  BY <1>7 DEF RouteStart, AtSupervisor, Route
<1>8. CASE RouteError
  BY <1>8 DEF RouteError
<1>9. CASE RouteContador
  BY <1>9 DEF RouteContador, AtSupervisor, Accept, AskAgain, Exhausted, GiveUp, Route
<1>10. CASE RoutePucFails
  BY <1>10 DEF RoutePucFails, AtSupervisor
<1>11. CASE RouteTributario
  BY <1>11 DEF RouteTributario, AtSupervisor, Route
<1>12. CASE RouteForced
  BY <1>12 DEF RouteForced, AtSupervisor, Route
<1>13. CASE RouteMalformedOpinion
  BY <1>13 DEF RouteMalformedOpinion, AtSupervisor, AskAgain, Route
<1>14. CASE RouteApproved
  BY <1>14 DEF RouteApproved, AtSupervisor, Accept, Route
<1>15. CASE RouteRejected
  BY <1>15 DEF RouteRejected, AtSupervisor, GiveUp, Route
<1> QED
  BY <1>1, <1>2, <1>3, <1>4, <1>5, <1>6, <1>7, <1>8, <1>9, <1>10, <1>11, <1>12, <1>13, <1>14, <1>15 DEF RouterNext, Supervisor

(* The shared attempt counter is reset between agents.                     *)
LEMMA ResetStep ==
    ASSUME OpinionIsFresh, CountIsReset, RouterNext
    PROVE  CountIsReset'
<1> USE HopsTo DEF OpinionIsFresh, CountIsReset, FullAttempts, inputVars
<1>1. CASE Contador
  BY <1>1 DEF Contador
<1>2. CASE Tributario
  BY <1>2 DEF Tributario
<1>3. CASE Auditor
  BY <1>3 DEF Auditor
<1>4. CASE DbPersist
  BY <1>4 DEF DbPersist, Route
<1>5. CASE ErrorTerminal
  BY <1>5 DEF ErrorTerminal
<1>6. CASE AuditReviewTerminal
  BY <1>6 DEF AuditReviewTerminal
<1>7. CASE RouteStart
  BY <1>7 DEF RouteStart, AtSupervisor, Route
<1>8. CASE RouteError
  BY <1>8 DEF RouteError
<1>9. CASE RouteContador
  BY <1>9 DEF RouteContador, AtSupervisor, Accept, AskAgain, Exhausted, GiveUp, Route
<1>10. CASE RoutePucFails
  BY <1>10 DEF RoutePucFails, AtSupervisor
<1>11. CASE RouteTributario
  BY <1>11 DEF RouteTributario, AtSupervisor, Route
<1>12. CASE RouteForced
  BY <1>12 DEF RouteForced, AtSupervisor, Route
<1>13. CASE RouteMalformedOpinion
  BY <1>13 DEF RouteMalformedOpinion, AtSupervisor, AskAgain, Route
<1>14. CASE RouteApproved
  BY <1>14 DEF RouteApproved, AtSupervisor, Accept, Route
<1>15. CASE RouteRejected
  BY <1>15 DEF RouteRejected, AtSupervisor, GiveUp, Route
<1> QED
  BY <1>1, <1>2, <1>3, <1>4, <1>5, <1>6, <1>7, <1>8, <1>9, <1>10, <1>11, <1>12, <1>13, <1>14, <1>15 DEF RouterNext, Supervisor

(* Only the terminal nodes set an outcome, and the run ends there.         *)
LEMMA EndStep ==
    ASSUME EndsOnce, ReviewIsRecorded, RouterNext
    PROVE  EndsOnce' /\ ReviewIsRecorded'
<1> USE HopsTo DEF EndsOnce, ReviewIsRecorded, inputVars
<1>1. CASE Contador
  BY <1>1 DEF Contador
<1>2. CASE Tributario
  BY <1>2 DEF Tributario
<1>3. CASE Auditor
  BY <1>3 DEF Auditor
<1>4. CASE DbPersist
  BY <1>4 DEF DbPersist, Route
<1>5. CASE ErrorTerminal
  BY <1>5 DEF ErrorTerminal
<1>6. CASE AuditReviewTerminal
  BY <1>6 DEF AuditReviewTerminal
<1>7. CASE RouteStart
  BY <1>7 DEF RouteStart, AtSupervisor, Route
<1>8. CASE RouteError
  BY <1>8 DEF RouteError
<1>9. CASE RouteContador
  BY <1>9 DEF RouteContador, AtSupervisor, Accept, AskAgain, Exhausted, GiveUp, Route
<1>10. CASE RoutePucFails
  BY <1>10 DEF RoutePucFails, AtSupervisor
<1>11. CASE RouteTributario
  BY <1>11 DEF RouteTributario, AtSupervisor, Route
<1>12. CASE RouteForced
  BY <1>12 DEF RouteForced, AtSupervisor, Route
<1>13. CASE RouteMalformedOpinion
  BY <1>13 DEF RouteMalformedOpinion, AtSupervisor, AskAgain, Route
<1>14. CASE RouteApproved
  BY <1>14 DEF RouteApproved, AtSupervisor, Accept, Route
<1>15. CASE RouteRejected
  BY <1>15 DEF RouteRejected, AtSupervisor, GiveUp, Route
<1> QED
  BY <1>1, <1>2, <1>3, <1>4, <1>5, <1>6, <1>7, <1>8, <1>9, <1>10, <1>11, <1>12, <1>13, <1>14, <1>15 DEF RouterNext, Supervisor

(* The review terminal is reached only with a record, by a run that is not *)
(* forced.                                                                 *)
LEMMA ReviewStep ==
    ASSUME EndsOnce, ReviewIsRecorded, ReviewHasRecord, RouterNext
    PROVE  ReviewHasRecord'
<1> USE HopsTo DEF EndsOnce, ReviewIsRecorded, ReviewHasRecord, inputVars
<1>1. CASE Contador
  BY <1>1 DEF Contador
<1>2. CASE Tributario
  BY <1>2 DEF Tributario
<1>3. CASE Auditor
  BY <1>3 DEF Auditor
<1>4. CASE DbPersist
  BY <1>4 DEF DbPersist, Route
<1>5. CASE ErrorTerminal
  BY <1>5 DEF ErrorTerminal
<1>6. CASE AuditReviewTerminal
  BY <1>6 DEF AuditReviewTerminal
<1>7. CASE RouteStart
  BY <1>7 DEF RouteStart, AtSupervisor, Route
<1>8. CASE RouteError
  BY <1>8 DEF RouteError
<1>9. CASE RouteContador
  BY <1>9 DEF RouteContador, AtSupervisor, Accept, AskAgain, Exhausted, GiveUp, Route
<1>10. CASE RoutePucFails
  BY <1>10 DEF RoutePucFails, AtSupervisor
<1>11. CASE RouteTributario
  BY <1>11 DEF RouteTributario, AtSupervisor, Route
<1>12. CASE RouteForced
  BY <1>12 DEF RouteForced, AtSupervisor, Route
<1>13. CASE RouteMalformedOpinion
  BY <1>13 DEF RouteMalformedOpinion, AtSupervisor, AskAgain, Route
<1>14. CASE RouteApproved
  BY <1>14 DEF RouteApproved, AtSupervisor, Accept, Route
<1>15. CASE RouteRejected
  BY <1>15 DEF RouteRejected, AtSupervisor, GiveUp, Route
<1> QED
  BY <1>1, <1>2, <1>3, <1>4, <1>5, <1>6, <1>7, <1>8, <1>9, <1>10, <1>11, <1>12, <1>13, <1>14, <1>15 DEF RouterNext, Supervisor

(* The write of what was not sanctioned is refused.                        *)
LEMMA SanctionStep ==
    ASSUME EndsOnce, OpinionIsFresh, PersistedIsSanctioned, RouterNext
    PROVE  PersistedIsSanctioned'
<1> USE HopsTo DEF EndsOnce, OpinionIsFresh, PersistedIsSanctioned, inputVars
<1>1. CASE Contador
  BY <1>1 DEF Contador
<1>2. CASE Tributario
  BY <1>2 DEF Tributario
<1>3. CASE Auditor
  BY <1>3 DEF Auditor
<1>4. CASE DbPersist
  BY <1>4 DEF DbPersist, Route
<1>5. CASE ErrorTerminal
  BY <1>5 DEF ErrorTerminal
<1>6. CASE AuditReviewTerminal
  BY <1>6 DEF AuditReviewTerminal
<1>7. CASE RouteStart
  BY <1>7 DEF RouteStart, AtSupervisor, Route
<1>8. CASE RouteError
  BY <1>8 DEF RouteError
<1>9. CASE RouteContador
  BY <1>9 DEF RouteContador, AtSupervisor, Accept, AskAgain, Exhausted, GiveUp, Route
<1>10. CASE RoutePucFails
  BY <1>10 DEF RoutePucFails, AtSupervisor
<1>11. CASE RouteTributario
  BY <1>11 DEF RouteTributario, AtSupervisor, Route
<1>12. CASE RouteForced
  BY <1>12 DEF RouteForced, AtSupervisor, Route
<1>13. CASE RouteMalformedOpinion
  BY <1>13 DEF RouteMalformedOpinion, AtSupervisor, AskAgain, Route
<1>14. CASE RouteApproved
  BY <1>14 DEF RouteApproved, AtSupervisor, Accept, Route
<1>15. CASE RouteRejected
  BY <1>15 DEF RouteRejected, AtSupervisor, GiveUp, Route
<1> QED
  BY <1>1, <1>2, <1>3, <1>4, <1>5, <1>6, <1>7, <1>8, <1>9, <1>10, <1>11, <1>12, <1>13, <1>14, <1>15 DEF RouterNext, Supervisor

(* Every step of the graph keeps the invariant.                            *)
LEMMA RouterNextInv == RouterInv /\ [RouterNext]_routerVars => RouterInv'
<1> SUFFICES ASSUME RouterInv, [RouterNext]_routerVars PROVE RouterInv'
  OBVIOUS
<1>1. CASE RouterNext
  BY <1>1, HopsGrow, FlagsStep, NamesStep, CountersStep, FreshStep, ResetStep, EndStep, ReviewStep, SanctionStep
     DEF RouterInv, RouterTypeOK
<1>2. CASE UNCHANGED routerVars
  <2> USE <1>2 DEF routerVars, inputVars, RouterInv
  <2>1. RouterTypeOK'
    BY DEF RouterTypeOK, FlagsOK, NamesOK, CountersOK
  <2>2. OpinionIsFresh' /\ CountIsReset'
    BY DEF OpinionIsFresh, CountIsReset, FullAttempts
  <2>3. ReviewIsRecorded' /\ EndsOnce' /\ BudgetCounts'
    BY DEF ReviewIsRecorded, EndsOnce, BudgetCounts
  <2>4. PersistedIsSanctioned' /\ ReviewHasRecord'
    BY DEF PersistedIsSanctioned, ReviewHasRecord
  <2> QED
    BY <2>1, <2>2, <2>3, <2>4
<1> QED
  BY <1>1, <1>2

(* The inductive invariant holds in every run of the graph.                *)
THEOREM RouterInvariant == RouterSpec => []RouterInv
BY RouterInitInv, RouterNextInv, PTL DEF RouterSpec

(* The counters of the retry loops stay in their ranges.                   *)
THEOREM RouterTypes == RouterSpec => []RouterTypeOK
<1>1. RouterInv => RouterTypeOK
  BY DEF RouterInv
<1> QED
  BY <1>1, RouterInvariant, PTL

(* Nothing is persisted unreviewed, whatever the limits of the loops.      *)
THEOREM Sanctioned == RouterSpec => []PersistedIsSanctioned
<1>1. RouterInv => PersistedIsSanctioned
  BY DEF RouterInv
<1> QED
  BY <1>1, RouterInvariant, PTL

(* A review has its record and is never that of a forced run.              *)
THEOREM Recorded == RouterSpec => []ReviewHasRecord
<1>1. RouterInv => ReviewHasRecord
  BY DEF RouterInv
<1> QED
  BY <1>1, RouterInvariant, PTL

(* Each new output has all its attempts.                                   *)
THEOREM AttemptsAreFull == RouterSpec => []FullAttempts
<1>1. RouterInv => FullAttempts
  BY DEF RouterInv, CountIsReset
<1> QED
  BY <1>1, RouterInvariant, PTL

-----------------------------------------------------------------------------
(* The loops                                                               *)

(* The nodes of one round, from the contador to the rejection that starts  *)
(* the next: every agent but the tributario uses up its attempts.          *)
Round == 4 * MaxRetries + 2
Rounds(b) == b * Round

(* The nodes of this round fit with those of the rounds left.              *)
Attempts == MaxRetries - retryCount
NotStarted == agent = ""
Fits(nodes) == hops + nodes + Rounds(budget) <= HopBound

(* What the run has done, and all it may still do, is within the bound.    *)
WithinBound ==
    /\ node = "END" => hops <= HopBound
    /\ node \in {"error_terminal", "audit_review_terminal"} => hops + 1 <= HopBound
    /\ node \in {"db_persist", "supervisor"} => Fits(2)
    /\ node = "supervisor" /\ agent = "auditor" =>
           IF forced THEN Fits(3) ELSE Fits(2 * Attempts + 1)
    /\ node = "auditor" => IF forced THEN Fits(4) ELSE Fits(2 * Attempts + 2)
    /\ node = "supervisor" /\ agent = "tributario" => Fits(2 * MaxRetries + 3)
    /\ node = "tributario" => Fits(2 * MaxRetries + 4)
    /\ node = "supervisor" /\ agent = "contador" => Fits(2 * MaxRetries + 3 + 2 * Attempts)
    /\ node = "contador" => Fits(2 * MaxRetries + 4 + 2 * Attempts)
    /\ node = "supervisor" /\ NotStarted => Fits(4 * MaxRetries + 5)

LEMMA RoundsAreInt ==
    ASSUME NEW b \in Int
    PROVE  Rounds(b) \in Int /\ (b >= 0 => Rounds(b) >= 0)
<1>1. Round \in Nat
  BY RouterAssumption DEF Round
<1> QED
  BY <1>1 DEF Rounds

LEMMA OneRoundLess ==
    ASSUME NEW b \in Int
    PROVE  Rounds(b - 1) = Rounds(b) - Round
<1>1. Round \in Nat
  BY RouterAssumption DEF Round
<1> QED
  BY <1>1 DEF Rounds

LEMMA BoundIsAllRounds == HopBound = 3 + Rounds(ContadorBudget) + Round /\ HopBound \in Int
<1>1. Round \in Nat /\ ContadorBudget \in Nat
  BY RouterAssumption DEF Round
<1>2. HopBound = 3 + (ContadorBudget + 1) * Round
  BY DEF HopBound, Round
<1> QED
  BY <1>1, <1>2 DEF Rounds

(* The first round is on top of the budget.                                *)
LEMMA WithinBoundInitially == RouterInit => WithinBound
<1> SUFFICES ASSUME RouterInit PROVE WithinBound
  OBVIOUS
<1>1. node = "supervisor" /\ hops = 0 /\ budget = ContadorBudget /\ agent \notin Agents
  BY Zenon DEF RouterInit, Agents
<1>2. Rounds(ContadorBudget) \in Int
  BY RoundsAreInt, RouterAssumption
<1>3. Fits(4 * MaxRetries + 5) /\ Fits(2)
  BY <1>1, <1>2, BoundIsAllRounds, RouterAssumption DEF Fits, Round
<1> QED
  BY <1>1, <1>3 DEF WithinBound, Agents

(* The supervisor starts a run once.                                       *)
LEMMA StartsOnce ==
    ASSUME RouterNext
    PROVE  ~(node' = "supervisor" /\ NotStarted')
<1> USE HopsTo DEF NotStarted, Route, inputVars
<1>1. CASE Contador \/ Tributario \/ Auditor
  BY <1>1 DEF Contador, Tributario, Auditor
<1>2. CASE DbPersist \/ ErrorTerminal \/ AuditReviewTerminal
  BY <1>2 DEF DbPersist, ErrorTerminal, AuditReviewTerminal
<1>3. CASE RouteStart \/ RouteError \/ RoutePucFails \/ RouteTributario
  BY <1>3 DEF RouteStart, RouteError, RoutePucFails, RouteTributario
<1>4. CASE RouteContador
  BY <1>4 DEF RouteContador, Accept, AskAgain, Exhausted, GiveUp
<1>5. CASE RouteForced \/ RouteMalformedOpinion \/ RouteApproved
  BY <1>5 DEF RouteForced, RouteMalformedOpinion, RouteApproved, Accept, AskAgain
<1>6. CASE RouteRejected
  BY <1>6 DEF RouteRejected, GiveUp
<1> QED
  BY <1>1, <1>2, <1>3, <1>4, <1>5, <1>6 DEF RouterNext, Supervisor

(* Every node executed is one of those that were left; a rejection takes   *)
(* the nodes of the next round from the budget.                            *)
LEMMA WithinBoundStep ==
    ASSUME RouterInv, WithinBound, RouterNext
    PROVE  WithinBound'
<1>1. /\ hops \in Nat
      /\ MaxRetries \in Nat /\ MaxRetries >= 1
      /\ retryCount \in 0..(MaxRetries - 1)
      /\ budget \in Int
      /\ node \notin {"audit_review_terminal", "END"} => budget >= 0
      /\ HopBound \in Int
  BY RouterAssumption, BoundIsAllRounds DEF RouterInv, RouterTypeOK, CountersOK, BudgetCounts
<1>2. Rounds(budget) \in Int /\ (budget >= 0 => Rounds(budget) >= 0)
  BY <1>1, RoundsAreInt
<1>3. Rounds(budget - 1) = Rounds(budget) - Round
  BY <1>1, OneRoundLess
<1>4. ~(node' = "supervisor" /\ NotStarted')
  BY StartsOnce
<1> USE <1>1, <1>2, <1>4 DEF WithinBound, Fits, Attempts, Attempt, Hop, Route, inputVars
<1>a. CASE Contador
  BY <1>a DEF Contador
<1>b. CASE Tributario
  BY <1>b DEF Tributario
<1>c. CASE Auditor
  BY <1>c DEF Auditor
<1>d. CASE DbPersist
  BY <1>d DEF DbPersist
<1>e. CASE ErrorTerminal \/ AuditReviewTerminal
  BY <1>e DEF ErrorTerminal, AuditReviewTerminal
<1>f. CASE RouteStart
  <2>1. node = "supervisor" /\ NotStarted /\ node' = "contador" /\ hops' = hops + 1
        /\ retryCount' = retryCount /\ budget' = budget
    BY <1>f, Zenon DEF RouteStart, AtSupervisor, NotStarted
  <2> QED
    BY <2>1
<1>g. CASE RouteError
  <2>1. node = "supervisor" /\ node' = "error_terminal" /\ hops' = hops + 1
    BY <1>g, Zenon DEF RouteError
  <2> QED
    BY <2>1
<1>h. CASE RouteContador
  BY <1>h DEF RouteContador, AtSupervisor, Accept, AskAgain, Exhausted, GiveUp
<1>i. CASE RoutePucFails
  BY <1>i DEF RoutePucFails, AtSupervisor
<1>j. CASE RouteTributario
  BY <1>j DEF RouteTributario, AtSupervisor
<1>k. CASE RouteForced
  BY <1>k DEF RouteForced, AtSupervisor
<1>l. CASE RouteMalformedOpinion
  BY <1>l DEF RouteMalformedOpinion, AtSupervisor, AskAgain
<1>m. CASE RouteApproved
  BY <1>m DEF RouteApproved, AtSupervisor, Accept
<1>n. CASE RouteRejected
  BY <1>3, <1>n DEF RouteRejected, AtSupervisor, GiveUp, Round
<1> QED
  BY <1>a, <1>b, <1>c, <1>d, <1>e, <1>f, <1>g, <1>h, <1>i, <1>j, <1>k, <1>l, <1>m, <1>n
     DEF RouterNext, Supervisor

(* The nested loops end, for any limits: at most ContadorBudget + 1 rounds *)
(* of attempts.                                                            *)
THEOREM LoopsAreBounded == RouterSpec => []BoundedLoops
<1>1. RouterInv /\ WithinBound => BoundedLoops
  <2> SUFFICES ASSUME RouterInv, WithinBound PROVE hops <= HopBound
    BY DEF BoundedLoops
  <2>1. /\ hops \in Nat /\ HopBound \in Int
        /\ MaxRetries \in Nat /\ MaxRetries >= 1
        /\ retryCount \in 0..(MaxRetries - 1)
        /\ budget \in Int
        /\ node \notin {"audit_review_terminal", "END"} => budget >= 0
    BY RouterAssumption, BoundIsAllRounds DEF RouterInv, RouterTypeOK, CountersOK, BudgetCounts
  <2>2. Rounds(budget) \in Int /\ (budget >= 0 => Rounds(budget) >= 0)
    BY <2>1, RoundsAreInt
  <2>3. node \in Nodes
    BY Zenon DEF RouterInv, RouterTypeOK, NamesOK
  <2> QED
    BY <2>1, <2>2, <2>3 DEF WithinBound, Fits, Attempts, Nodes, Agents
<1>2. RouterInv /\ WithinBound /\ [RouterNext]_routerVars => WithinBound'
  <2> SUFFICES ASSUME RouterInv, WithinBound, [RouterNext]_routerVars PROVE WithinBound'
    OBVIOUS
  <2>1. CASE RouterNext
    BY <2>1, WithinBoundStep
  <2>2. CASE UNCHANGED routerVars
    <3>1. NotStarted' = NotStarted
      BY <2>2, Zenon DEF routerVars, NotStarted
    <3> QED
      BY <2>2, <3>1 DEF routerVars, inputVars, WithinBound, Fits, Attempts
  <2> QED
    BY <2>1, <2>2
<1> QED
  BY <1>1, <1>2, WithinBoundInitially, RouterInvariant, PTL DEF RouterSpec

-----------------------------------------------------------------------------
(* Refinement                                                              *)
LEMMA ContractInitially == RouterInit => Contract!ContractInit
BY DEF RouterInit, Contract!ContractInit, Phase, Decided

(* Each node of the graph does a step of the contract, or none that the    *)
(* contract can see.                                                       *)
LEMMA ContractStep ==
    ASSUME RouterInv, RouterNext
    PROVE  Contract!ContractNext \/ UNCHANGED Contract!contractVars
<1> USE DEF RouterInv, RouterTypeOK, NamesOK, Nodes, Agents, Outcomes, EndsOnce, ReviewIsRecorded,
    Hop, Route, inputVars, Phase, Decided,
    Contract!ContractNext, Contract!ReachPersist, Contract!StopEarly, Contract!Persist,
    Contract!End, Contract!contractVars
<1>1. CASE Contador \/ Tributario \/ Auditor
  BY <1>1 DEF Contador, Tributario, Auditor
<1>2. CASE DbPersist
  BY <1>2 DEF DbPersist
<1>3. CASE ErrorTerminal \/ AuditReviewTerminal
  BY <1>3 DEF ErrorTerminal, AuditReviewTerminal
<1>4. CASE RouteStart \/ RouteError \/ RoutePucFails \/ RouteTributario
  BY <1>4 DEF RouteStart, RouteError, RoutePucFails, RouteTributario, AtSupervisor
<1>5. CASE RouteContador
  BY <1>5 DEF RouteContador, AtSupervisor, Accept, AskAgain, Exhausted, GiveUp
<1>6. CASE RouteForced \/ RouteApproved
  BY <1>6 DEF RouteForced, RouteApproved, Accept, AtSupervisor
<1>7. CASE RouteMalformedOpinion
  BY <1>7 DEF RouteMalformedOpinion, AtSupervisor, AskAgain
<1>8. CASE RouteRejected
  BY <1>8 DEF RouteRejected, AtSupervisor, GiveUp
<1> QED
  BY <1>1, <1>2, <1>3, <1>4, <1>5, <1>6, <1>7, <1>8 DEF RouterNext, Supervisor

(* The graph implements the safety part of its contract: its initial state *)
(* is one of the contract, and so is every step.                           *)
THEOREM KeepsContractSafely ==
    RouterSpec => Contract!ContractInit /\ [][Contract!ContractNext]_Contract!contractVars
<1>1. RouterInv /\ [RouterNext]_routerVars
         => [Contract!ContractNext]_Contract!contractVars
  <2>1. CASE RouterNext
    BY <2>1, ContractStep
  <2>2. CASE UNCHANGED routerVars
    BY <2>2 DEF routerVars, inputVars, Contract!contractVars, Phase, Decided
  <2> QED
    BY <2>1, <2>2
<1> QED
  BY <1>1, ContractInitially, RouterInvariant, PTL DEF RouterSpec
=============================================================================
