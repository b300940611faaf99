---------------------------- MODULE GitHubJobs ----------------------------
(***************************************************************************)
(* GitHub's side of a workflow job, as far as the orchestrator can observe *)
(* it: external to the repository, modelled from the events                *)
(* githubclient/event_handler.go handles and the API calls it makes.       *)
(*                                                                         *)
(* A job is queued, assigned to one self-hosted runner, and concluded.     *)
(* Each of the three emits one workflow_job webhook.  Webhooks are handled *)
(* in any order and some never are: each is dispatched by the relay on its *)
(* own, and the handler of each runs in a goroutine of its own.            *)
(***************************************************************************)
CONSTANTS
    Jobs,        \* GitHub workflow jobs, all with the same repository and labels
    NoName       \* the empty runner name

VARIABLES
    job,         \* GitHub's record of each job
    webhooks     \* webhooks sent and not yet looked at by a handler

ghVars == <<job, webhooks>>

Actions == {"queued", "in_progress", "completed"}

Webhook == [action : Actions, job : Jobs]

JobRecord(Runner, Conclusion) ==
    [status     : {"none", "queued", "in_progress", "completed"},
     runner     : Runner \cup {NoName},
     conclusion : Conclusion \cup {""}]

GitHubInit ==
    /\ job = [j \in Jobs |-> [status |-> "none", runner |-> NoName, conclusion |-> ""]]
    /\ webhooks = {}

Send(action, j) == webhooks' = webhooks \cup {[action |-> action, job |-> j]}

\* A push, a pull request or a person starts a workflow run.
QueueJob(j) ==
    /\ job[j].status = "none"
    /\ job' = [job EXCEPT ![j].status = "queued"]
    /\ Send("queued", j)

\* Runner n is registered for one job ("--ephemeral"), so it takes at most one;
\* any queued job with its labels may be the one.
AssignJob(j, n) ==
    /\ job[j].status = "queued"
    /\ \A i \in Jobs : job[i].runner # n
    /\ job' = [job EXCEPT ![j].status = "in_progress", ![j].runner = n]
    /\ Send("in_progress", j)

\* A job no runner has taken can only be cancelled.
ConcludeJob(j, c) ==
    /\ \/ job[j].status = "in_progress"
       \/ job[j].status = "queued" /\ c = "cancelled"
    /\ job' = [job EXCEPT ![j].status = "completed", ![j].conclusion = c]
    /\ Send("completed", j)

\* The runner name a handler of a webhook of j works with: the one the webhook
\* carries, or else the API's answer, which is empty when the call fails.
ResolvedNames(j) == {job[j].runner, NoName}

Deliver(action, j) ==
    /\ [action |-> action, job |-> j] \in webhooks
    /\ webhooks' = webhooks \ {[action |-> action, job |-> j]}

=============================================================================
