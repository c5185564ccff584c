---------------------------- MODULE AgentRouter ----------------------------
(***************************************************************************)
(* The agents of one accounting run (mode "process"): the graph of         *)
(* app/agents/graph.py, the supervisor that route_process implements, the  *)
(* validation nodes, and what the agents do to the fields the supervisor   *)
(* reads.  The LLM's answers are a nondeterministic choice.                *)
(***************************************************************************)
EXTENDS Integers

CONSTANTS
    MaxRetries,         \* OutputValidator.MAX_RETRIES: attempts of one output
    ContadorBudget,     \* RETRY_BUDGETS["contador"]
    GlobalFailures,     \* GLOBAL_AUDIT_FAILURES
    MaxAuditorRetries   \* MAX_AUDITOR_RETRIES

ASSUME RouterAssumption ==
    /\ MaxRetries \in Nat /\ MaxRetries >= 1
    /\ ContadorBudget \in Nat
    /\ GlobalFailures \in Nat /\ GlobalFailures >= 1
    /\ MaxAuditorRetries \in Nat

VARIABLES
    forced,      \* force_persist
    singlePass,  \* is doc_type in SINGLE_PASS_DOC_TYPES
    node,        \* the graph node that runs next
    agent,       \* current_agent
    error,       \* is state["error"] set
    feedback,    \* is correction_feedback set
    retryCount,  \* retry_count, shared by the validations
    output,      \* contador_output as its schema and the PUC see it
    balanced,    \* are its entries, taxes included, non-empty and balanced
    dated,       \* does the first transaction have a date
    opinion,     \* auditor_output
    judged,      \* history: the opinion is about the present output
    rejections,  \* audit_rejection_count
    budget,      \* retry_budget["contador"]
    failures,    \* how many audit_reports are not approved, up to the limit
    giveup,      \* is giveup_record set
    outcome,     \* how the run ended
    hops         \* graph nodes executed so far

inputVars == <<forced, singlePass, dated>>
routerVars == <<inputVars, node, agent, error, feedback, retryCount, output,
                balanced, opinion, judged, rejections, budget, failures, giveup,
                outcome, hops>>

Agents == {"contador", "tributario", "auditor", "db_persist"}
Nodes == Agents \union {"supervisor", "error_terminal", "audit_review_terminal", "END"}
Outputs == {"none", "malformed", "unknownPuc", "valid"}
Opinions == {"none", "malformed", "approves", "rejects"}
Outcomes == {"none", "ok", "error", "review"}

FlagsOK ==
    /\ forced \in BOOLEAN /\ singlePass \in BOOLEAN /\ dated \in BOOLEAN
    /\ error \in BOOLEAN /\ feedback \in BOOLEAN /\ giveup \in BOOLEAN
    /\ balanced \in BOOLEAN /\ judged \in BOOLEAN

NamesOK ==
    /\ node \in Nodes
    /\ agent \in Agents \union {"", "audit_review_terminal", "error_terminal"}
    /\ output \in Outputs
    /\ opinion \in Opinions
    /\ outcome \in Outcomes

CountersOK ==
    /\ retryCount \in 0..(MaxRetries - 1)
    /\ rejections \in 0..(ContadorBudget + 1)
    /\ budget \in -1..ContadorBudget
    /\ failures \in 0..GlobalFailures

RouterTypeOK == FlagsOK /\ NamesOK /\ CountersOK /\ hops \in Nat

RouterInit ==
    /\ forced \in BOOLEAN /\ singlePass \in BOOLEAN /\ dated \in BOOLEAN
    /\ node = "supervisor" /\ agent = ""
    /\ error = FALSE /\ feedback = FALSE /\ giveup = FALSE
    /\ retryCount = 0
    /\ output = "none" /\ balanced = FALSE
    /\ opinion = "none" /\ judged = FALSE
    /\ rejections = 0 /\ budget = ContadorBudget /\ failures = 0
    /\ outcome = "none"
    /\ hops = 0

Attempt == retryCount + 1
CountFailure(n) == IF n < GlobalFailures THEN n + 1 ELSE n

(* route_after_supervisor and the edges of the graph.                      *)
Hop(n) == node' = n /\ hops' = hops + 1
Route(a) == agent' = a /\ Hop(a)

-----------------------------------------------------------------------------
(* The agents                                                              *)

(* contador_node.  A failure of the LLM leaves the feedback where it was.   *)
Contador ==
    /\ node = "contador"
    /\ agent' = "contador"
    /\ \/ /\ output' \in Outputs \ {"none"}
          /\ feedback' = FALSE
          /\ judged' = FALSE
          /\ UNCHANGED error
       \/ error' = TRUE /\ UNCHANGED <<output, feedback, judged>>
    /\ Hop("supervisor")
    /\ UNCHANGED <<inputVars, retryCount, balanced, opinion, rejections, budget,
                   failures, giveup, outcome>>

(* tributario_node: the taxes become entries of the output; its audit adds  *)
(* a report.                                                               *)
Tributario ==
    /\ node = "tributario"
    /\ agent' = "tributario"
    /\ \/ /\ balanced' \in BOOLEAN
          /\ feedback' = FALSE
          /\ judged' = FALSE
          /\ failures' \in {failures, CountFailure(failures)}
          /\ UNCHANGED error
       \/ error' = TRUE /\ UNCHANGED <<balanced, feedback, judged, failures>>
    /\ Hop("supervisor")
    /\ UNCHANGED <<inputVars, retryCount, output, opinion, rejections, budget,
                   giveup, outcome>>

(* auditor_node: the deterministic audit of the entries adds a report, then *)
(* the LLM gives its opinion.                                              *)
Auditor ==
    /\ node = "auditor"
    /\ agent' = "auditor"
    /\ failures' = IF balanced THEN failures ELSE CountFailure(failures)
    /\ \/ /\ opinion' \in Opinions \ {"none"}
          /\ judged' = TRUE
          /\ feedback' = FALSE
          /\ UNCHANGED error
       \/ error' = TRUE /\ UNCHANGED <<opinion, judged, feedback>>
    /\ Hop("supervisor")
    /\ UNCHANGED <<inputVars, retryCount, output, balanced, rejections, budget,
                   giveup, outcome>>

(* A pre-persist audit that leaves the balance to the auditor.              *)
DbPersistUnbalanced ==
    /\ node = "db_persist"
    /\ IF ~forced /\ ~dated
       THEN /\ giveup' = TRUE
            /\ Route("audit_review_terminal")
            /\ UNCHANGED <<error, outcome>>
       ELSE /\ error' \in BOOLEAN
            /\ outcome' = IF error' THEN "error" ELSE "ok"
            /\ Hop("END")
            /\ UNCHANGED <<agent, giveup>>
    /\ UNCHANGED <<inputVars, feedback, retryCount, output, balanced, opinion,
                   judged, rejections, budget, failures>>

(* A pre-persist audit of forced runs too.                                  *)
DbPersistAudited ==
    /\ node = "db_persist"
    /\ IF balanced /\ dated
       THEN outcome' = "ok" /\ Hop("END") /\ UNCHANGED <<agent, giveup>>
       ELSE giveup' = TRUE /\ Route("audit_review_terminal") /\ UNCHANGED outcome
    /\ UNCHANGED <<inputVars, error, feedback, retryCount, output, balanced,
                   opinion, judged, rejections, budget, failures>>

(* db_persist_node, as far as the graph sees it: what PersistNode details.  *)
(* The pre-persist audit sends unbalanced or undated entries to review.     *)
DbPersist ==
    /\ node = "db_persist"
    /\ IF ~forced /\ ~(balanced /\ dated)
       THEN /\ giveup' = TRUE
            /\ Route("audit_review_terminal")
            /\ UNCHANGED <<error, outcome>>
       ELSE /\ error' \in BOOLEAN
            /\ outcome' = IF error' THEN "error" ELSE "ok"
            /\ Hop("END")
            /\ UNCHANGED <<agent, giveup>>
    /\ UNCHANGED <<inputVars, feedback, retryCount, output, balanced, opinion,
                   judged, rejections, budget, failures>>

ErrorTerminal ==
    /\ node = "error_terminal"
    /\ agent' = "error_terminal"
    /\ outcome' = "error"
    /\ Hop("END")
    /\ UNCHANGED <<inputVars, error, feedback, retryCount, output, balanced,
                   opinion, judged, rejections, budget, failures, giveup>>

AuditReviewTerminal ==
    /\ node = "audit_review_terminal"
    /\ outcome' = "review"
    /\ Hop("END")
    /\ UNCHANGED <<inputVars, agent, error, feedback, retryCount, output,
                   balanced, opinion, judged, rejections, budget, failures, giveup>>

-----------------------------------------------------------------------------
(* The supervisor, by the agent that ran last.  An error sends the run to   *)
(* error_terminal whatever else the supervisor wrote (error_terminal_node   *)
(* then overwrites current_agent).                                         *)
AtSupervisor(a) == node = "supervisor" /\ agent = a

RouteStart ==
    /\ AtSupervisor("")
    /\ Route("contador")
    /\ UNCHANGED <<inputVars, error, feedback, retryCount, output, balanced,
                   opinion, judged, rejections, budget, failures, giveup, outcome>>

RouteError ==
    /\ node = "supervisor"
    /\ agent # ""
    /\ error
    /\ Hop("error_terminal")
    /\ UNCHANGED <<inputVars, agent, error, feedback, retryCount, output, balanced,
                   opinion, judged, rejections, budget, failures, giveup, outcome>>

(* One attempt too many; and a retry that does not count.                   *)
AskOnceMore(a) ==
    /\ Attempt <= MaxRetries
    /\ feedback' = TRUE
    /\ retryCount' = Attempt
    /\ Route(a)

AskUncounted(a) ==
    /\ Attempt < MaxRetries
    /\ feedback' = TRUE
    /\ UNCHANGED retryCount
    /\ Route(a)

(* An output that fails its validation goes back to its agent as long as    *)
(* attempts are left, with the reasons as feedback.                        *)
AskAgain(a) ==
    /\ Attempt < MaxRetries
    /\ feedback' = TRUE
    /\ retryCount' = Attempt
    /\ Route(a)

(* record_giveup, and the run waits for the user.                          *)
GiveUp ==
    /\ giveup' = TRUE
    /\ feedback' = FALSE
    /\ Route("audit_review_terminal")

(* A validation that passes and leaves the count of the attempts.           *)
AcceptCounting(a) ==
    /\ feedback' = FALSE
    /\ UNCHANGED retryCount
    /\ Route(a)

Accept(a) ==
    /\ feedback' = FALSE
    /\ retryCount' = 0
    /\ Route(a)

(* The same for a forced run as for any other.                              *)
ExhaustedAlways == Attempt >= MaxRetries /\ GiveUp /\ UNCHANGED retryCount

(* The validation fails for the last time: a forced run goes on with what   *)
(* there is, any other gives up.                                           *)
Exhausted ==
    /\ Attempt >= MaxRetries
    /\ IF forced THEN Route("tributario") /\ feedback' = FALSE /\ UNCHANGED giveup
       ELSE GiveUp
    /\ UNCHANGED retryCount

(* validate_contador_output_node and the step after it.                    *)
RouteContador ==
    /\ AtSupervisor("contador")
    /\ ~error
    /\ IF output = "valid"
       THEN Accept("tributario") /\ UNCHANGED giveup
       ELSE (AskAgain("contador") /\ UNCHANGED giveup) \/ Exhausted
    /\ UNCHANGED <<inputVars, error, output, balanced, opinion, judged,
                   rejections, budget, failures, outcome>>

(* The PUC accounts cannot be looked up.                                   *)
RoutePucFails ==
    /\ AtSupervisor("contador")
    /\ ~error
    /\ output # "malformed"
    /\ error' = TRUE
    /\ Hop("error_terminal")
    /\ UNCHANGED <<inputVars, agent, feedback, retryCount, output, balanced,
                   opinion, judged, rejections, budget, failures, giveup, outcome>>

(* The taxes have one chance: an invalid output ends the run.               *)
RouteTributario ==
    /\ AtSupervisor("tributario")
    /\ ~error
    /\ \/ Route("auditor") /\ UNCHANGED error
       \/ error' = TRUE /\ Hop("error_terminal") /\ UNCHANGED agent
    /\ UNCHANGED <<inputVars, feedback, retryCount, output, balanced, opinion,
                   judged, rejections, budget, failures, giveup, outcome>>

(* A forced run persists whatever the auditor said.                        *)
RouteForced ==
    /\ AtSupervisor("auditor")
    /\ ~error
    /\ forced
    /\ Route("db_persist")
    /\ UNCHANGED <<inputVars, error, feedback, retryCount, output, balanced,
                   opinion, judged, rejections, budget, failures, giveup, outcome>>

(* validate_auditor_output_node: out of attempts, the run ends in an error.  *)
RouteMalformedOpinion ==
    /\ AtSupervisor("auditor")
    /\ ~error /\ ~forced
    /\ opinion = "malformed"
    /\ \/ AskAgain("auditor") /\ UNCHANGED error
       \/ /\ Attempt >= MaxRetries
          /\ error' = TRUE
          /\ feedback' = FALSE
          /\ Hop("error_terminal")
          /\ UNCHANGED <<agent, retryCount>>
    /\ UNCHANGED <<inputVars, output, balanced, opinion, judged, rejections,
                   budget, failures, giveup, outcome>>

(* Approved; or rejected, for a document that is never sent back.           *)
RouteApproved ==
    /\ AtSupervisor("auditor")
    /\ ~error /\ ~forced
    /\ opinion = "approves" \/ (opinion = "rejects" /\ singlePass)
    /\ Accept("db_persist")
    /\ UNCHANGED <<inputVars, error, output, balanced, opinion, judged,
                   rejections, budget, failures, giveup, outcome>>

(* Rejected.  The last report is the deterministic one of auditor_node: its *)
(* findings, when there are some, are BLOCKERs that the contador can fix.   *)
(* The rejections are counted only when it has none.                       *)
RouteRejected ==
    /\ AtSupervisor("auditor")
    /\ ~error /\ ~forced /\ ~singlePass
    /\ opinion = "rejects"
    /\ rejections' = IF balanced THEN rejections + 1 ELSE rejections
    /\ budget' = budget - 1
    /\ retryCount' = 0
    /\ IF \/ budget' < 0
          \/ failures >= GlobalFailures
          \/ balanced /\ rejections' > MaxAuditorRetries
       THEN GiveUp
       ELSE feedback' = TRUE /\ Route("contador") /\ UNCHANGED giveup
    /\ UNCHANGED <<inputVars, error, output, balanced, opinion, judged,
                   failures, outcome>>

Supervisor ==
    \/ RouteStart
    \/ RouteError
    \/ RouteContador
    \/ RoutePucFails
    \/ RouteTributario
    \/ RouteForced
    \/ RouteMalformedOpinion
    \/ RouteApproved
    \/ RouteRejected

RouterNext ==
    \/ Supervisor
    \/ Contador
    \/ Tributario
    \/ Auditor
    \/ DbPersist
    \/ ErrorTerminal
    \/ AuditReviewTerminal

(* The graph runs on a thread of its own until it ends.                    *)
RouterSpec == RouterInit /\ [][RouterNext]_routerVars /\ WF_routerVars(RouterNext)

-----------------------------------------------------------------------------
(* Nothing is persisted unreviewed: unless the user forced it, what reaches *)
(* the database balances, has a date, and was judged by the auditor as it   *)
(* is (not an earlier version of it), who approved it or may be ignored.    *)
PersistedIsSanctioned ==
    outcome = "ok" /\ ~forced =>
        /\ balanced /\ dated /\ judged
        /\ opinion = "approves" \/ (opinion = "rejects" /\ singlePass)

(* A run that stops for a review leaves the record the review shows, and    *)
(* the confirmation of a review never ends in another one.                  *)
ReviewHasRecord == outcome = "review" => giveup /\ ~forced

(* Each agent starts a new output with all its attempts: those the other    *)
(* one used up on the shared retry_count do not count against it.           *)
FullAttempts ==
    (node = "contador" /\ judged) \/ (node = "auditor" /\ ~judged /\ ~forced)
        => retryCount = 0

(* The three nested retry loops end: so many nodes at most, well above the  *)
(* 25 that the older releases of the graph library allow.                  *)
HopBound == 3 + (ContadorBudget + 1) * (4 * MaxRetries + 2)
BoundedLoops == hops <= HopBound

(* The graph keeps the contract of the pipeline; a terminal node is a run   *)
(* that is done.                                                           *)
Phase ==
    CASE node \in {"END", "error_terminal", "audit_review_terminal"} -> "done"
      [] node = "db_persist" -> "persist"
      [] OTHER -> "agents"

Decided ==
    CASE node = "error_terminal" -> "error"
      [] node = "audit_review_terminal" -> "review"
      [] OTHER -> outcome

Contract == INSTANCE PipelineContract WITH phase <- Phase, outcome <- Decided

KeepsContract == Contract!ContractSpec
=============================================================================
