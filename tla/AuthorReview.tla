---------------------------- MODULE AuthorReview ----------------------------
(***************************************************************************)
(* The author-review workflow (workflows/author-review): a plugin that     *)
(* keeps no state and proposes the effects missing from a workflow's       *)
(* history, and the runner that leases one input at a time, has the plugin *)
(* evaluate it, publishes the proposals one request at a time and settles  *)
(* the input last.                                                         *)
(*                                                                         *)
(* One workflow, hence one correlation: the log is what a read of the      *)
(* history returns, and a message's position is its identity.  Effects are *)
(* compared by the fields the plugin compares; texts, schemas and bounds   *)
(* on their sizes are one of Contents, of which some cannot be decoded.    *)
(* The daemon's deliveries and its idempotent append are modelled as the   *)
(* runner uses them.  Memberships do not change, and every candidate of a  *)
(* role is an inbox member, as the plugin requires.                        *)
(***************************************************************************)
EXTENDS Integers, Sequences, FiniteSets, SequencesExt

CONSTANTS
    Runner, Requester, Coordinator,   \* agents
    Authors, Reviewers,               \* candidate lists, in configured order
    Workflow,                         \* the root request's identity
    ByteSum,                          \* the sum of a request identity's bytes
    Contents,                         \* texts of requests, artifacts and reviews
    MaxChildren,                      \* the configured number of children
    Setups                            \* configured rounds, and bounds on what happens

Unreadable == "unreadable"

\* A setup has the configured revision rounds, the decompositions the coordinator
\* may propose, the requests reviewers may send back, the texts of unusual answers,
\* and how many repeated or unusual answers and how many crashes, lost requests and
\* the like there may be.
\*
MaxRevisionRounds == 8

\* validate_configuration: the bounds are within range, the roles are filled, and some
\* author and reviewer are two agents.
ValidConfiguration ==
    /\ MaxChildren \in Nat \ {0}
    /\ \A s \in Setups : s.rounds \in 0..MaxRevisionRounds
    /\ Authors # <<>> /\ Reviewers # <<>>
    /\ \E a \in ToSet(Authors), r \in ToSet(Reviewers) : a # r

ASSUME WorkflowAssumption ==
    /\ ValidConfiguration
    /\ \A s \in Setups : {s.extras, s.faults} \subseteq Nat
    /\ Unreadable \notin Contents

VARIABLES
    setup,   \* one of Setups
    log,     \* the workflow's messages
    dlv,     \* the delivery of each message to the runner
    run,     \* the runner process
    extras, faults

vars == <<setup, log, dlv, run, extras, faults>>

Requests == {Workflow} \cup UNION {ToSet(d) : d \in UNION {s.decompositions : s \in Setups}}

\* A payload: the fields some kind of message carries.
Blank ==
    [req |-> Workflow, asg |-> "none", rev |-> 0, text |-> "none", decision |-> "none",
     children |-> <<>>, child |-> Workflow, proposal |-> 0, prior |-> 0, review |-> 0]

\* What the runner publishes: operation, recipient, kind and payload.
Effect(op, to, kind, body) == [op |-> op, to |-> to, kind |-> kind, body |-> body]

\* The first message that passes a test, or 0.
FindAssignment(h, kind, req, asg, rev) ==
    SelectInSeq(h, LAMBDA m : /\ m.from = Runner /\ m.kind = kind
                              /\ m.body.req = req /\ m.body.asg = asg /\ m.body.rev = rev)

\* find_root_request, and root_requester its sender.
FindRoot(h) ==
    SelectInSeq(h, LAMBDA m : /\ m.kind = "work.requested" /\ m.from # m.to
                              /\ m.body.req = Workflow /\ m.body.asg = "none")

RootRequester(h) == h[FindRoot(h)].from

\* extract_semantic_payload and decoding: an incomplete or malformed result has none.
Readable(m) == m.body.text # Unreadable

IsDecomposition(m) ==
    m.kind = "artifact.proposed" /\ Readable(m) /\ m.body.children # <<>>

IsChange(m) == m.kind = "artifact.proposed" /\ Readable(m) /\ m.body.children = <<>>

\* find_children takes the first decomposition, whoever sent it.
FindChildren(h) ==
    SelectInSeq(h, LAMBDA m : IsDecomposition(m) /\ m.body.req = Workflow)

HasTerminalEvent(h, kind, req) ==
    \E i \in DOMAIN h : h[i].from = Runner /\ h[i].kind = kind /\ h[i].body.req = req

\* Mutant: the last child of the decomposition closes the parent.
LastChildCompletesParent(h, approving, children) == approving = Last(children)

ParentWillBeComplete(h, approving, children) ==
    \A c \in ToSet(children) : c = approving \/ HasTerminalEvent(h, "work.completed", c)

\* select_reviewer: the candidates from a start the request determines, without
\* the author; an index of Reviewers, or 0.
SelectReviewer(author, req) ==
    LET n == Len(Reviewers)
        At(offset) == 1 + ((ByteSum[req] + offset) % n)
        apart == {offset \in 0..(n - 1) : Reviewers[At(offset)] # author}
    IN IF apart = {} THEN 0
       ELSE At(CHOOSE o \in apart : \A p \in apart : o <= p)

----------------------------------------------------------------------------
(* Which proposed effects are missing from the history. *)

SameLogicalEffect(m, e) ==
    /\ m.kind = e.kind
    /\ m.body.req = e.body.req
    /\ e.kind \in {"work.requested", "review.requested", "revision.requested"} =>
          m.body.asg = e.body.asg /\ m.body.rev = e.body.rev

StableEffectPayload(kind, body) ==
    [body EXCEPT !.proposal = IF kind = "review.requested" THEN 0 ELSE @,
                 !.review = IF kind \in {"revision.requested", "work.completed"}
                            THEN 0 ELSE @]

\* Mutant: only an identical message counts as the committed effect.
CommittedVerbatim(h, e) ==
    {i \in DOMAIN h : h[i].from = Runner /\ h[i].kind = e.kind /\ h[i].body = e.body}

Committed(h, e) == {i \in DOMAIN h : h[i].from = Runner /\ SameLogicalEffect(h[i], e)}

\* missing_effect fails on a committed effect that differs.
ConflictingEffect(h, e) ==
    \E i \in Committed(h, e) :
        \/ h[i].to # e.to
        \/ StableEffectPayload(e.kind, h[i].body) # StableEffectPayload(e.kind, e.body)

Reject == [ok |-> FALSE, effects |-> <<>>]

\* Mutant: a transition with one committed effect is taken for complete.
MissingTransition(h, effects) ==
    IF \E k \in DOMAIN effects : ConflictingEffect(h, effects[k]) THEN Reject
    ELSE [ok |-> TRUE,
          effects |-> IF \E k \in DOMAIN effects : Committed(h, effects[k]) # {}
                      THEN <<>> ELSE effects]

MissingEffects(h, effects) ==
    IF \E k \in DOMAIN effects : ConflictingEffect(h, effects[k]) THEN Reject
    ELSE [ok |-> TRUE,
          effects |-> SelectSeq(effects, LAMBDA e : Committed(h, e) = {})]

----------------------------------------------------------------------------
(* evaluate: the input is message i of the history h. *)

EvaluateRootRequest(h, i) ==
    IF h[i].body.req # Workflow \/ h[i].from = Runner THEN Reject
    ELSE MissingEffects(h, <<Effect("assign-coordinator", Coordinator, "work.requested",
             [Blank EXCEPT !.asg = "coordinator", !.text = h[i].body.text])>>)

\* Another artifact or review that answers the same assignment with other content.
RejectConflictingDecomposition(h, i) ==
    \E j \in DOMAIN h \ {i} :
        /\ IsDecomposition(h[j]) /\ h[j].from = h[i].from /\ h[j].to = Runner
        /\ h[j].body.req = h[i].body.req
        /\ h[j].body # h[i].body

EvaluateDecomposition(h, i) ==
    LET children == h[i].body.children
        assigned == FindAssignment(h, "work.requested", h[i].body.req, "coordinator", 0)
        AssignAuthor(k) ==
            Effect(<<"assign-author", k>>, Authors[1 + ((k - 1) % Len(Authors))],
                   "work.requested", [Blank EXCEPT !.req = children[k], !.asg = "author",
                                                   !.text = h[i].body.text])
    IN IF \/ h[i].body.req # Workflow
          \/ assigned = 0 \/ h[assigned].to # h[i].from
          \/ RejectConflictingDecomposition(h, i)
          \/ Len(children) > MaxChildren
          \/ Workflow \in ToSet(children) \/ ~IsInjective(children)
          \/ FindRoot(h) = 0
       THEN Reject
       ELSE MissingEffects(h, [k \in DOMAIN children |-> AssignAuthor(k)])

AuthorAssignment(h, req, rev) ==
    FindAssignment(h, IF rev = 0 THEN "work.requested" ELSE "revision.requested",
                   req, "author", rev)

RejectConflictingChangeArtifact(h, i) ==
    \E j \in DOMAIN h \ {i} :
        /\ IsChange(h[j]) /\ h[j].from = h[i].from /\ h[j].to = Runner
        /\ h[j].body.req = h[i].body.req /\ h[j].body.rev = h[i].body.rev
        /\ h[j].body # h[i].body

EvaluateChangeArtifact(h, i) ==
    LET body == h[i].body
        assigned == AuthorAssignment(h, body.req, body.rev)
        reviewer == SelectReviewer(h[i].from, body.req)
    IN IF \/ assigned = 0 \/ h[assigned].to # h[i].from
          \/ RejectConflictingChangeArtifact(h, i)
          \/ reviewer = 0
          \/ FindChildren(h) = 0
       THEN Reject
       ELSE MissingEffects(h, <<Effect("request-review", Reviewers[reviewer],
                "review.requested",
                [Blank EXCEPT !.req = body.req, !.asg = "reviewer", !.rev = body.rev,
                              !.text = body.text, !.proposal = i])>>)

\* validate_reviewed_proposal: the assignment names the exact artifact it reviews.
ReviewedProposal(h, rr) ==
    LET p == h[rr].body.proposal
        req == h[rr].body.req
        rev == h[rr].body.rev
    IN /\ p \in DOMAIN h /\ IsChange(h[p]) /\ h[p].to = Runner
       /\ h[rr].cause = p
       /\ h[p].body.req = req /\ h[p].body.rev = rev
       /\ AuthorAssignment(h, req, rev) # 0
       /\ h[AuthorAssignment(h, req, rev)].to = h[p].from
       /\ h[rr].body.text = h[p].body.text

\* Mutant: a second, different review is not noticed.
AcceptAnyCompletedReview(h, i) == FALSE

RejectConflictingCompletedReview(h, i) ==
    \E j \in DOMAIN h \ {i} :
        /\ h[j].kind = "review.completed" /\ Readable(h[j])
        /\ h[j].from = h[i].from /\ h[j].to = Runner /\ h[j].cause = h[i].cause
        /\ h[j].body.req = h[i].body.req /\ h[j].body.rev = h[i].body.rev
        /\ h[j].body # h[i].body

ApproveReview(h, i, rr, children) ==
    LET body == h[i].body
        child == Effect("complete-child", RootRequester(h), "work.completed",
                     [Blank EXCEPT !.req = body.req, !.rev = body.rev, !.text = body.text,
                                   !.proposal = h[rr].body.proposal, !.review = i])
        parent == Effect("complete-parent", RootRequester(h), "work.completed",
                     [Blank EXCEPT !.children = children])
    IN MissingEffects(h, IF ParentWillBeComplete(h, body.req, children)
                         THEN <<child, parent>> ELSE <<child>>)

ReviseReview(h, i, rr) ==
    LET body == h[i].body
        author == FindAssignment(h, "work.requested", body.req, "author", 0)
    IN IF body.rev >= setup.rounds
       THEN MissingEffects(h, <<
                Effect("block-child", RootRequester(h), "work.blocked",
                    [Blank EXCEPT !.req = body.req, !.rev = body.rev, !.text = body.text]),
                Effect("block-parent", RootRequester(h), "work.blocked",
                    [Blank EXCEPT !.child = body.req])>>)
       ELSE IF author = 0 THEN Reject
       ELSE MissingEffects(h, <<Effect("request-revision", h[author].to,
                "revision.requested",
                [Blank EXCEPT !.req = body.req, !.asg = "author", !.rev = body.rev + 1,
                              !.text = body.text, !.prior = h[rr].body.proposal,
                              !.review = i])>>)

EvaluateReview(h, i) ==
    LET body == h[i].body
        rr == h[i].cause
        children == h[FindChildren(h)].body.children
    IN IF \/ ~(rr \in DOMAIN h /\ h[rr].from = Runner /\ h[rr].kind = "review.requested")
          \/ h[rr].body.req # body.req \/ h[rr].body.rev # body.rev
          \/ h[rr].to # h[i].from
          \/ ~ReviewedProposal(h, rr)
          \/ RejectConflictingCompletedReview(h, i)
          \/ FindRoot(h) = 0 \/ FindChildren(h) = 0
          \/ body.req \notin ToSet(children)
       THEN Reject
       ELSE IF body.decision = "approve" THEN ApproveReview(h, i, rr, children)
       ELSE ReviseReview(h, i, rr)

Evaluate(h, i) ==
    CASE ~Readable(h[i])               -> Reject
      [] h[i].kind = "work.requested"   -> EvaluateRootRequest(h, i)
      [] IsDecomposition(h[i])          -> EvaluateDecomposition(h, i)
      [] IsChange(h[i])                 -> EvaluateChangeArtifact(h, i)
      [] h[i].kind = "review.completed" -> EvaluateReview(h, i)
      [] OTHER                          -> Reject

----------------------------------------------------------------------------
(* The daemon, as the runner and the agents use it. *)

Message(from, to, kind, cause, key, body) ==
    [from |-> from, to |-> to, kind |-> kind, cause |-> cause, key |-> key, body |-> body]

NoKey == <<0, "none">>

\* An append delivers the message to its recipient; the agents' own inboxes are
\* not needed here.
Post(m) ==
    /\ log' = Append(log, m)
    /\ dlv' = Append(dlv, [state |-> IF m.to = Runner THEN "pending" ELSE "none",
                           attempt |-> 0])

Fault == faults < setup.faults /\ faults' = faults + 1

Idle == [pc |-> "idle", input |-> 0, attempt |-> 0, queue |-> <<>>]
Stopped == [Idle EXCEPT !.pc = "stopped"]

Init ==
    \E t \in Contents :
        /\ setup \in Setups
        /\ log = <<Message(Requester, Runner, "work.requested", 0, NoKey,
                           [Blank EXCEPT !.text = t])>>
        /\ dlv = <<[state |-> "pending", attempt |-> 0]>>
        /\ run = Idle
        /\ extras = 0 /\ faults = 0

----------------------------------------------------------------------------
(* The runner: tick. *)

\* claim; the order of available inputs is the order of their retry times.
Claim(i) ==
    /\ run.pc = "idle"
    /\ dlv[i].state = "pending"
    /\ dlv' = [dlv EXCEPT ![i] = [state |-> "leased", attempt |-> @.attempt + 1]]
    /\ run' = [pc |-> "claimed", input |-> i, attempt |-> dlv[i].attempt + 1,
               queue |-> <<>>]
    /\ UNCHANGED <<setup, log, extras, faults>>

\* workflow_history: every page of the channel, without the other correlations.
WorkflowHistory == log

\* validate_proposals: operations are unique within one evaluation.
ValidProposals(effects) ==
    \A j, k \in DOMAIN effects : effects[j].op = effects[k].op => j = k

\* The proposals depend on the history as it was read.
EvaluateInput ==
    /\ run.pc = "claimed"
    /\ \E result \in {Evaluate(WorkflowHistory, run.input)} :
          run' = IF result.ok /\ ValidProposals(result.effects)
                 THEN [run EXCEPT !.pc = "publish", !.queue = result.effects]
                 ELSE [run EXCEPT !.pc = "block"]
    /\ UNCHANGED <<setup, log, dlv, extras, faults>>

\* The child dies, or does not answer in time: the next tick spawns another.
PluginFails ==
    /\ run.pc = "claimed"
    /\ run' = [run EXCEPT !.pc = "retry"]
    /\ Fault
    /\ UNCHANGED <<setup, log, dlv, extras>>

\* The daemon does not take a request, or answers it with a transient status.
RequestFails ==
    /\ run.pc \in {"claimed", "publish"}
    /\ run' = [run EXCEPT !.pc = "retry", !.queue = <<>>]
    /\ Fault
    /\ UNCHANGED <<setup, log, dlv, extras>>

\* Mutant: the identity of a send leaves the operation out.
ProposalPerKind(e) == Message(Runner, e.to, e.kind, run.input, <<run.input, e.kind>>, e.body)

\* One send.  Its identity is the input and the operation: the daemon returns the
\* message it already has, and refuses another content for it.
Proposal(e) == Message(Runner, e.to, e.kind, run.input, <<run.input, e.op>>, e.body)

PublishNext(answer) ==
    /\ run.pc = "publish" /\ run.queue # <<>>
    /\ LET m == Proposal(Head(run.queue))
           same == {i \in DOMAIN log : log[i].key = m.key}
       IN /\ IF same = {} THEN Post(m) ELSE UNCHANGED <<log, dlv>>
          /\ run' =
               IF answer = "lost" THEN [run EXCEPT !.pc = "retry", !.queue = <<>>]
               ELSE IF \E i \in same : log[i] # m
               THEN [run EXCEPT !.pc = "conflict", !.queue = <<>>]
               ELSE [run EXCEPT !.queue = Tail(@)]
    /\ IF answer = "lost" THEN Fault ELSE UNCHANGED faults
    /\ UNCHANGED <<setup, extras>>

Holds(i, attempt) == dlv[i].state = "leased" /\ dlv[i].attempt = attempt

\* requires_block, is_transient: what becomes of the input.
Settlement(pc) ==
    CASE pc = "publish" -> "acked"
      [] pc = "retry"   -> "pending"
      [] OTHER          -> "blocked"

Settles == run.pc \in {"block", "conflict", "retry"} \/ (run.pc = "publish" /\ run.queue = <<>>)

\* ack, block or retry under the lease of the claim.  A settlement that the daemon
\* refuses is an error that is not transient, and ends the process.
Settle ==
    /\ Settles
    /\ IF Holds(run.input, run.attempt)
       THEN /\ dlv' = [dlv EXCEPT ![run.input].state = Settlement(run.pc)]
            /\ run' = Idle
       ELSE UNCHANGED dlv /\ run' = Stopped
    /\ UNCHANGED <<setup, log, extras, faults>>

\* The daemon does not take the settlement: the loop goes on with its next tick.
SettlementFails ==
    /\ Settles
    /\ run' = Idle
    /\ Fault
    /\ UNCHANGED <<setup, log, dlv, extras>>

\* The process stops between any two requests.
Crash ==
    /\ run.pc # "stopped"
    /\ run' = Stopped
    /\ Fault
    /\ UNCHANGED <<setup, log, dlv, extras>>

\* A replacement starts with nothing but its configuration.
Restart ==
    /\ run.pc = "stopped"
    /\ run' = Idle
    /\ UNCHANGED <<setup, log, dlv, extras, faults>>

\* A lease runs out: it must when nobody holds it, and may under a slow runner.
LeaseExpires(i) ==
    /\ dlv[i].state = "leased"
    /\ dlv' = [dlv EXCEPT ![i].state = "pending"]
    /\ IF run.input = i /\ run.attempt = dlv[i].attempt THEN Fault ELSE UNCHANGED faults
    /\ UNCHANGED <<setup, log, run, extras>>

\* An operator returns a blocked input to the inbox.
Requeue(i) ==
    /\ dlv[i].state = "blocked"
    /\ dlv' = [dlv EXCEPT ![i].state = "pending"]
    /\ Fault
    /\ UNCHANGED <<setup, log, run, extras>>

----------------------------------------------------------------------------
(* The agents: an answer to an assignment, and a bounded number of others. *)

Answers(a) == {i \in DOMAIN log : log[i].cause = a /\ log[i].to = Runner}

Answer(a, kind, body) ==
    /\ IF Answers(a) = {} /\ body.text \in Contents THEN UNCHANGED extras
       ELSE extras < setup.extras /\ extras' = extras + 1
    /\ Post(Message(log[a].to, Runner, kind, a, NoKey, body))
    /\ UNCHANGED <<setup, run, faults>>

Assigned(a, asg) == log[a].from = Runner /\ log[a].body.asg = asg

AnswerTexts == Contents \cup setup.others

Decompose(a) ==
    /\ Assigned(a, "coordinator")
    /\ \E d \in setup.decompositions, t \in AnswerTexts :
           Answer(a, "artifact.proposed", [Blank EXCEPT !.children = d, !.text = t])

ProposeChange(a) ==
    /\ Assigned(a, "author")
    /\ \E t \in AnswerTexts :
           Answer(a, "artifact.proposed",
                  [Blank EXCEPT !.req = log[a].body.req, !.rev = log[a].body.rev, !.text = t])

CompleteReview(a) ==
    /\ Assigned(a, "reviewer")
    /\ \E d \in {"approve"} \cup (IF log[a].body.req \in setup.revisable THEN {"revise"} ELSE {}),
          t \in AnswerTexts :
           Answer(a, "review.completed",
                  [Blank EXCEPT !.req = log[a].body.req, !.rev = log[a].body.rev,
                                !.decision = d, !.text = t])

\* The requester asks again, in the same words or in others.
RequestAgain ==
    /\ extras < setup.extras /\ extras' = extras + 1
    /\ \E t \in AnswerTexts :
           Post(Message(Requester, Runner, "work.requested", 0, NoKey,
                        [Blank EXCEPT !.text = t]))
    /\ UNCHANGED <<setup, run, faults>>

Next ==
    \/ \E i \in DOMAIN log : Claim(i) \/ LeaseExpires(i) \/ Requeue(i)
    \/ EvaluateInput
    \/ PluginFails \/ RequestFails
    \/ \E answer \in {"received", "lost"} : PublishNext(answer)
    \/ Settle \/ SettlementFails
    \/ Crash \/ Restart
    \/ RequestAgain
    \/ \E a \in DOMAIN log : Decompose(a) \/ ProposeChange(a) \/ CompleteReview(a)

Spec == Init /\ [][Next]_vars

\* The runner's loop ticks, whoever runs it restarts it when it has ended, an expired
\* lease is reclaimed and every agent answers its assignments; faults are never owed.
LiveSpec ==
    /\ Spec
    /\ WF_vars(\E i \in DOMAIN log : Claim(i))
    /\ WF_vars(EvaluateInput) /\ WF_vars(PublishNext("received")) /\ WF_vars(Settle)
    /\ WF_vars(Restart)
    /\ WF_vars(\E i \in DOMAIN log : LeaseExpires(i))
    /\ WF_vars(\E a \in DOMAIN log : Answers(a) = {} /\ Decompose(a))
    /\ WF_vars(\E a \in DOMAIN log : Answers(a) = {} /\ ProposeChange(a))
    /\ WF_vars(\E a \in DOMAIN log : Answers(a) = {} /\ CompleteReview(a))

----------------------------------------------------------------------------
(* Properties. *)

Published(kind) == {i \in DOMAIN log : log[i].from = Runner /\ log[i].kind = kind}

\* work.completed for the parent is published only after every child of its
\* decomposition was completed, each by an approval of the exact artifact that the
\* review assignment named, from a reviewer who did not write it (approve_review,
\* parent_will_be_complete, validate_reviewed_proposal, select_reviewer).
ParentCompletesWhenEveryChildIsApproved ==
    \A i \in Published("work.completed") :
        log[i].body.req = Workflow =>
            \A c \in ToSet(log[i].body.children) :
                \E k \in Published("work.completed") :
                    LET review == log[k].body.review
                        artifact == log[k].body.proposal
                    IN /\ k < i /\ log[k].body.req = c
                       /\ log[review].body.decision = "approve"
                       /\ log[log[review].cause].body.proposal = artifact
                       /\ log[artifact].body.rev = log[k].body.rev
                       /\ log[artifact].body.req = c
                       /\ log[review].from # log[artifact].from

\* However inputs are replayed, after crashes, lost responses and requeues, and
\* however often agents repeat themselves, each logical effect is published once
\* (missing_effect, and the idempotency key of evaluate_and_publish).
EachLogicalEffectIsPublishedOnce ==
    \A i, j \in DOMAIN log :
        (i < j /\ log[i].from = Runner /\ log[j].from = Runner)
            => ~SameLogicalEffect(log[i], log[j])

\* No request is reported both completed and blocked, and a revision is asked for
\* only of a child with no verdict yet, after a revise decision on the revision
\* before it and within the configured rounds (revise_review).
VerdictsAreFinal ==
    /\ \A i \in Published("work.completed"), j \in Published("work.blocked") :
           log[i].body.req # log[j].body.req
    /\ \A i \in Published("revision.requested") :
           LET review == log[log[i].body.review].body
           IN /\ review.decision = "revise" /\ review.rev + 1 = log[i].body.rev
              /\ log[i].body.rev <= setup.rounds
              /\ \A j \in Published("work.completed") :
                     log[j].body.req = log[i].body.req => i < j

\* A replay never publishes different content under an identity it used before: the
\* conflict that blocks an input for divergence is unreachable (the plugin is
\* deterministic, and operation identities are unique within one evaluation).
ReplaysNeverDiverge == run.pc # "conflict"

\* With agents that answer and a runner that is restarted whenever it ends (a refused
\* settlement ends it), the workflow ends: the parent is completed or blocked, or an
\* operator has a blocked input to look at.
WorkflowEnds ==
    <>(\/ HasTerminalEvent(log, "work.completed", Workflow)
       \/ HasTerminalEvent(log, "work.blocked", Workflow)
       \/ \E i \in DOMAIN dlv : dlv[i].state = "blocked")

\* docs/contracts/author-review-workflow-draft.md: "a `revise` decision when `r >= N`
\* blocks the child and parent".  Once the runner has settled such a review,
\* work.blocked has been published for its child.
ExhaustedReviewBlocksChild ==
    \A i \in DOMAIN log :
        (/\ log[i].kind = "review.completed" /\ log[i].body.decision = "revise"
         /\ Readable(log[i]) /\ log[i].body.rev >= setup.rounds
         /\ dlv[i].state \in {"acked", "blocked"})
            => HasTerminalEvent(log, "work.blocked", log[i].body.req)
=============================================================================
