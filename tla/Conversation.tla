---------------------------- MODULE Conversation ----------------------------
(***************************************************************************)
(* The message history of one session: what the engine, resume and the     *)
(* message endpoint append to it, the ids of the tool calls in it, and     *)
(* Engine::compact (agent-rust/src/engine.rs, context.rs), which replaces  *)
(* its oldest groups by a summary when the next request would not fit.     *)
(*                                                                         *)
(* A message has a size: one, and ToolSize for a tool result.  A request   *)
(* is its fixed part, the ledger and the messages.  The text of a summary  *)
(* is abstracted to its size and to whether validate_ledger accepts it.    *)
(* DecisionLoop has what the responses mean; here a response, an accepted  *)
(* answer and a warning are what they append.                              *)
(***************************************************************************)
EXTENDS HistoryGroups

CONSTANTS RawIds,          \* ids the provider may put on a call
          ToolSize,        \* size of a tool result
          Window, Reserve, Margin,        \* context window, output reserve, margin
          RequestBase, SummaryBase,       \* fixed parts of the two requests
          SummaryReserve,  \* summary_output_tokens
          CorrectionSize,  \* what the correction adds to a summary request
          RawTurns,        \* raw_turns_to_keep
          SoftLimit,       \* memory.max_tokens
          MinGrowth, Cadence, Spacing,    \* growth, interval (0: none), spacing
          MinPressure,     \* optional_compaction_min_pressure_ratio, in percent
          MinReclaim, MinReduction,       \* optional minima
          MinReductionRatio,              \* in percent
          MaxAttempts, MaxPasses,
          SummarySizes,    \* sizes of the summaries the model may write
          MaxBatch,        \* bound: calls in one response
          MaxHistory,      \* bound: messages after which no decision is taken
          CarefulClient,   \* whether clients send content only without pending calls
          None

\* validate_config: the memory section.
ValidBudget ==
    /\ {Window, Reserve, SummaryReserve, SoftLimit, RawTurns} \subseteq Nat \ {0}
    /\ Margin \in Nat /\ Reserve + Margin < Window
    /\ MaxAttempts \in 1..5 /\ MaxPasses \in 1..10
    /\ {MinGrowth, Spacing, MinReclaim, MinReduction} \subseteq Nat
    /\ {MinPressure, MinReductionRatio} \subseteq 0..100

ASSUME BudgetAssumption ==
    /\ ValidBudget /\ Cadence \in Nat
    /\ {ToolSize, MaxBatch} \subseteq Nat \ {0} /\ SummarySizes \subseteq Nat \ {0}
    /\ {RequestBase, SummaryBase, CorrectionSize, MaxHistory} \subseteq Nat
    /\ RawIds \subseteq 1..100 /\ None \notin Nat /\ CarefulClient \in BOOLEAN

VARIABLES memory,     \* the messages after the goal
          ledger,     \* compacted_context: its size and a number for its identity
          pending,    \* ids of the pending tool calls
          callMap,    \* agent_session_calls
          step, status,
          finalOnly,  \* the workflow has taken its terminal edge
          last,       \* last_compaction_step and _estimated_tokens, last attempt's
                      \* step and the source of the last failed one
          pc

\* Locals of compact: the pass, the summaries asked for, the request measured
\* at the start of the pass, the end of the source prefix, whether the last
\* summary was refused.
VARIABLE loc

\* History, read by the properties only: every message of the session, and the
\* ids of all calls in the order they were scheduled.
VARIABLES spoken, asked

vars == <<memory, ledger, pending, callMap, step, status, finalOnly, last, pc, loc, spoken, asked>>

NoLocals == [pass |-> 0, attempts |-> 0, measured |-> 0, hard |-> FALSE,
             cut |-> 0, groups |-> 0, corrected |-> FALSE, shrunk |-> 0]

Init ==
    /\ memory = <<>> /\ ledger = [size |-> 0, id |-> 0]
    /\ pending = <<>> /\ callMap = {}
    /\ step = 0 /\ status = "active" /\ finalOnly = FALSE
    /\ last = [step |-> 0, tokens |-> None, attempt |-> None, failed |-> None]
    /\ pc = "idle" /\ loc = NoLocals
    /\ spoken = <<>> /\ asked = <<>>

----------------------------------------------------------------------------
(* Messages and call ids *)

User == [role |-> "user", calls |-> <<>>, re |-> 0]
Assistant(calls) == [role |-> "assistant", calls |-> calls, re |-> 0]
Result(id) == [role |-> "tool", calls |-> <<>>, re |-> id]

Append_(messages) == memory' = memory \o messages /\ spoken' = spoken \o messages

\* The client adds a user message: the message endpoint, for an active session.
Message ==
    /\ pc = "idle" /\ status = "active" /\ Len(spoken) < MaxHistory
    /\ CarefulClient => pending = <<>>
    /\ Append_(<<User>>)
    /\ UNCHANGED <<finalOnly, ledger, pending, callMap, step, status, last, pc, loc, asked>>

\* run, or resume with or without content; the engine settles a pending batch
\* before it decides.
Start(resume, content) ==
    /\ pc = "idle" /\ Len(spoken) < MaxHistory
    /\ resume \/ status = "active"
    /\ content => resume /\ (CarefulClient => pending = <<>>)
    /\ IF content THEN Append_(<<User>>) ELSE UNCHANGED <<memory, spoken>>
    /\ status' = "active"
    /\ pc' = IF pending # <<>> THEN "settle" ELSE "measure"
    /\ UNCHANGED <<finalOnly, ledger, pending, callMap, step, last, loc, asked>>

\* historical_call_ids: the ids of the messages still in memory.
HistoricalIds == UNION {Elements(memory[i].calls) : i \in DOMAIN memory}
                 \cup {memory[i].re : i \in DOMAIN memory}

\* A new UUID: an id that nothing has used.
FreshId(n) == 100 + Len(asked) + n

\* Mutant: the durable call map is not asked.
ScheduledIdsByMemory(raw) ==
    [n \in DOMAIN raw |->
        IF \/ raw[n] = None \/ raw[n] \in HistoricalIds
           \/ \E k \in 1..(n - 1) : raw[k] = raw[n]
        THEN FreshId(n) ELSE raw[n]]

\* parse_decision gives a call a fresh id when it has none or one of memory or
\* of an earlier call of the response; run does so for one of the call map.
ScheduledIds(raw) ==
    [n \in DOMAIN raw |->
        IF \/ raw[n] = None \/ raw[n] \in HistoricalIds \cup callMap
           \/ \E k \in 1..(n - 1) : raw[k] = raw[n]
        THEN FreshId(n) ELSE raw[n]]

RawBatches == UNION {[1..n -> RawIds \cup {None}] : n \in 1..MaxBatch}

\* The response asks for tools: the batch and its ids are committed together.
DecideTools(raw) ==
    /\ pc = "decide" /\ Len(spoken) < MaxHistory
    /\ pending' = ScheduledIds(raw)
    /\ Append_(<<Assistant(ScheduledIds(raw))>>)
    /\ callMap' = callMap \cup Elements(ScheduledIds(raw))
    /\ asked' = asked \o ScheduledIds(raw)
    /\ step' = step + 1 /\ pc' = "settle"
    /\ UNCHANGED <<finalOnly, ledger, status, last, loc>>

\* The response is refused: a correction, after the draft if it was an answer.
DecideOther(draft) ==
    /\ pc = "decide" /\ Len(spoken) < MaxHistory
    /\ Append_(IF draft THEN <<Assistant(<<>>), User>> ELSE <<User>>)
    /\ step' = step + 1 /\ pc' = "observe"
    /\ UNCHANGED <<finalOnly, ledger, pending, callMap, status, last, loc, asked>>

\* The answer is accepted and is the last message of the run.
DecideFinal ==
    /\ pc = "decide" /\ Len(spoken) < MaxHistory
    /\ Append_(<<Assistant(<<>>)>>) /\ status' = "complete" /\ step' = step + 1 /\ pc' = "idle"
    /\ UNCHANGED <<finalOnly, ledger, pending, callMap, last, loc, asked>>

\* observe_progress: without progress it may add a warning.
Observe(warned) ==
    /\ pc = "observe" /\ pc' = "measure"
    /\ Append_(IF warned THEN <<User>> ELSE <<>>)
    /\ UNCHANGED <<finalOnly, ledger, pending, callMap, step, status, last, loc, asked>>

\* Mutant: the result is added and the call waits for the next checkpoint.
SettleKeepsCall ==
    /\ pc = "settle" /\ pending # <<>>
    /\ Append_(<<Result(Head(pending))>>)
    /\ pending' \in {pending, Tail(pending)}
    /\ pc' = IF pending' = <<>> THEN "observe" ELSE "settle"
    /\ UNCHANGED <<finalOnly, ledger, callMap, step, status, last, loc, asked>>

\* settle_pending: the first call is consumed with its result.
Settle ==
    /\ pc = "settle" /\ pending # <<>>
    /\ Append_(<<Result(Head(pending))>>) /\ pending' = Tail(pending)
    /\ pc' = IF Len(pending) = 1 THEN "observe" ELSE "settle"
    /\ finalOnly' \in {finalOnly, TRUE}      \* its evidence may end the workflow
    /\ UNCHANGED <<ledger, callMap, step, status, last, loc, asked>>

\* The run ends at a checkpoint: cancelled or failed, or its process dies, which
\* leaves the task active until reconcile-runs fails it.
Stop(result) ==
    /\ pc \in {"settle", "observe", "decide"} /\ pc' = "idle" /\ status' = result
    /\ UNCHANGED <<finalOnly, memory, ledger, pending, callMap, step, last, loc, spoken, asked>>

----------------------------------------------------------------------------
(* Budgets *)

Weight(m) == Len(m) + (ToolSize - 1) * Cardinality({i \in DOMAIN m : m[i].role = "tool"})
Fits(estimate, reserve) == estimate + reserve + Margin <= Window

Larger(a, b) == IF a > b THEN a ELSE b
Prefix(n) == SubSeq(memory, 1, n)
Rest(n) == SubSeq(memory, n + 1, Len(memory))

RequestSize(m, size) == RequestBase + size + Weight(m)
RequestFits(m, size) == Fits(RequestSize(m, size), Reserve)

SummaryFits(n, corrected) ==
    Fits(SummaryBase + ledger.size + Weight(Prefix(n)) + (IF corrected THEN CorrectionSize ELSE 0),
         Larger(Reserve, SummaryReserve))

\* compaction_due
Due(estimate) ==
    \/ estimate >= SoftLimit /\ (last.tokens # None => estimate >= last.tokens + MinGrowth)
    \/ Cadence > 0 /\ step - last.step >= Cadence

\* The end of the largest prefix of old groups whose summary request fits.
SourceCut(old) ==
    LET g == InteractionGroups(memory)
        fit == {k \in 1..old : SummaryFits(g[k].last, FALSE)}
    IN IF fit = {} THEN 0 ELSE g[CHOOSE k \in fit : \A o \in fit : o <= k].last

RequiredReduction(hard, measured) ==
    IF hard THEN 1
    ELSE Larger(1, Larger(MinReduction, (measured * MinReductionRatio + 99) \div 100))

\* Identity of a source text: the prefix it ends with and the ledger it starts from.
Source(n) == [upto |-> Len(spoken) - Len(memory) + n, ledger |-> ledger.id]

\* Optional compaction is skipped after the workflow, for its spacing, for lack
\* of pressure or of what can be reclaimed.
SpacingHolds == last.attempt # None /\ step - last.attempt < Spacing
NotWorthIt(n, measured) ==
    \/ 100 * measured < MinPressure * (Window - Reserve - Margin)
    \/ LET reclaimable == measured - RequestSize(Rest(n), 0)
       IN reclaimable < Larger(MinReclaim, RequiredReduction(FALSE, measured))

----------------------------------------------------------------------------
(* compact *)

\* compact returns an error: the engine fails the task and the run.
Overflow(locals) ==
    /\ status' = "failed" /\ pc' = "idle" /\ loc' = locals
    /\ UNCHANGED <<finalOnly, memory, ledger, pending, callMap, step, last, spoken, asked>>

\* The last test of compact before the request is sent.
Settled(l) ==
    IF Grouped(memory) /\ RequestFits(memory, ledger.size)
    THEN /\ pc' = "decide" /\ loc' = NoLocals
         /\ UNCHANGED <<finalOnly, memory, ledger, pending, callMap, step, status, last, spoken, asked>>
    ELSE Overflow(NoLocals)

\* The head of a pass: measure, decide whether to compact, choose the source.
Measure ==
    /\ pc = "measure"
    /\ LET measured == RequestSize(memory, ledger.size)
           hard == ~RequestFits(memory, ledger.size)
           old == OldGroups(memory, RawTurns)
           cut == SourceCut(old)
           go == [loc EXCEPT !.measured = measured, !.hard = hard, !.cut = cut,
                             !.groups = Cardinality({k \in 1..old :
                                                       InteractionGroups(memory)[k].last <= cut}),
                             !.corrected = FALSE]
       IN IF ~Grouped(memory) THEN Overflow(NoLocals)
          ELSE IF loc.pass >= MaxPasses \/ (~hard /\ ~Due(measured)) THEN Settled(loc)
          ELSE IF cut = 0 THEN IF hard THEN Overflow(NoLocals) ELSE Settled(loc)
          ELSE IF ~hard /\ (finalOnly \/ SpacingHolds \/ NotWorthIt(cut, measured)) THEN Settled(loc)
          ELSE IF last.failed = Source(cut) THEN Settled(go)
          ELSE /\ pc' = "summarize" /\ loc' = go
               /\ UNCHANGED <<finalOnly, memory, ledger, pending, callMap, step, status, last, spoken, asked>>

\* One summary request, refused: no proposal, a truncated or an invalid one, or
\* one that saves too little.
Refuse ==
    /\ pc = "summarize" /\ loc.attempts < MaxAttempts /\ SummaryFits(loc.cut, loc.corrected)
    /\ loc' = [loc EXCEPT !.attempts = @ + 1, !.corrected = TRUE]
    /\ last' = [last EXCEPT !.attempt = step, !.failed = Source(loc.cut)]
    /\ UNCHANGED <<finalOnly, memory, ledger, pending, callMap, step, status, pc, spoken, asked>>

\* Mutant: under a hard budget any summary is taken.
AcceptAny(size) ==
    /\ pc = "summarize" /\ loc.attempts < MaxAttempts /\ SummaryFits(loc.cut, loc.corrected)
    /\ memory' = Rest(loc.cut) /\ ledger' = [size |-> size, id |-> ledger.id + 1]
    /\ last' = [step |-> step, tokens |-> RequestSize(Rest(loc.cut), size), attempt |-> step,
                failed |-> None]
    /\ pc' = "measure"
    /\ loc' = [loc EXCEPT !.attempts = @ + 1, !.pass = @ + 1]
    /\ UNCHANGED <<finalOnly, pending, callMap, step, status, spoken, asked>>

\* One summary request, accepted: the prefix is replaced by the new ledger.
Accept(size) ==
    /\ pc = "summarize" /\ loc.attempts < MaxAttempts /\ SummaryFits(loc.cut, loc.corrected)
    /\ LET after == RequestSize(Rest(loc.cut), size)
       IN /\ loc.measured - after >= RequiredReduction(loc.hard, loc.measured)
          /\ memory' = Rest(loc.cut) /\ ledger' = [size |-> size, id |-> ledger.id + 1]
          /\ last' = [step |-> step, tokens |-> after, attempt |-> step, failed |-> None]
          /\ pc' = IF RequestFits(Rest(loc.cut), size) THEN "send" ELSE "measure"
    /\ loc' = [loc EXCEPT !.attempts = @ + 1, !.pass = @ + 1]
    /\ UNCHANGED <<finalOnly, pending, callMap, step, status, spoken, asked>>

\* The pass ends without a summary.  With attempts and groups left the code
\* moves one group from its local source to its local tail and goes on.
GiveUp ==
    /\ pc = "summarize"
    /\ loc.attempts >= MaxAttempts \/ ~SummaryFits(loc.cut, loc.corrected)
    /\ last' = [last EXCEPT !.failed = Source(loc.cut)]
    /\ IF loc.attempts >= MaxAttempts \/ loc.groups <= 1
       THEN pc' = "send" /\ UNCHANGED loc
       ELSE pc' = "measure" /\ loc' = [loc EXCEPT !.pass = @ + 1, !.shrunk = loc.groups - 1]
    /\ UNCHANGED <<finalOnly, memory, ledger, pending, callMap, step, status, spoken, asked>>

Send == pc = "send" /\ Settled(loc)

CompactStep == Measure \/ Refuse \/ (\E size \in SummarySizes : Accept(size)) \/ GiveUp \/ Send

Next ==
    \/ Message \/ (\E resume, content \in BOOLEAN : Start(resume, content))
    \/ (\E raw \in RawBatches : DecideTools(raw)) \/ (\E draft \in BOOLEAN : DecideOther(draft))
    \/ DecideFinal \/ (\E warned \in BOOLEAN : Observe(warned))
    \/ Settle \/ (\E result \in {"active", "failed"} : Stop(result))
    \/ CompactStep

\* A provider call times out, so compact always goes on.
Spec == Init /\ [][Next]_vars /\ WF_vars(CompactStep)

----------------------------------------------------------------------------
(* Properties *)

Messages == [role : {"user", "assistant", "tool"}, calls : Seq(Nat), re : Nat]

\* The history, the counters of the policy and the locals of compact.
TypeOK ==
    /\ memory \in Seq(Messages) /\ spoken \in Seq(Messages) /\ asked \in Seq(Nat)
    /\ pending \in Seq(Nat) /\ callMap \subseteq Nat /\ ledger \in [size : Nat, id : Nat]
    /\ step \in Nat /\ status \in {"active", "complete", "failed"} /\ finalOnly \in BOOLEAN
    /\ last.tokens \in Nat \cup {None} /\ last.attempt \in Nat \cup {None} /\ last.step <= step
    /\ pc \in {"idle", "settle", "observe", "measure", "summarize", "send", "decide"}
    /\ loc.attempts \in 0..MaxAttempts /\ loc.pass \in 0..MaxPasses

\* With the results still to come, the history always splits into complete
\* interactions: whatever the runs, their ends, the compactions and the user's
\* messages in between (interaction_groups; the next request needs it).
HistoryIsGrouped == Grouped(memory \o [n \in DOMAIN pending |-> Result(pending[n])])

\* The three functions that read the history agree with what a grouping is, on
\* complete histories (compact) and on batches that are still being settled,
\* which must be refused (interaction_groups, split_history, single_call_wire).
GroupingIsRight ==
    pc \in {"measure", "settle"} =>
        CutIsRight(memory) /\ SplitIsRight(memory, RawTurns) /\ PairsAreRight(memory)

\* No call id is scheduled twice in the life of a session, also not one whose
\* messages compaction has removed from the memory (agent_session_calls).
IdsAreUnique == Distinct(asked)

\* Compaction takes messages from the front only and leaves the newest ones,
\* at least raw_turns_to_keep of them.
NewestAreKept ==
    /\ Len(memory) <= Len(spoken)
    /\ memory = SubSeq(spoken, Len(spoken) - Len(memory) + 1, Len(spoken))
    /\ Len(memory) >= IF Len(spoken) < RawTurns THEN Len(spoken) ELSE RawTurns

\* A new ledger makes the whole request smaller, with the ledger it replaces
\* and its own size counted.
SummaryShrinksRequest ==
    [][ledger' # ledger =>
         RequestSize(memory', ledger'.size) < RequestSize(memory, ledger.size)]_vars

\* compact comes to an end: with a request that is sent, or with a failed task.
CompactEnds == pc \in {"measure", "summarize", "send"} ~> pc \in {"decide", "idle"}

\* "Later pass summarizes a distinct, smaller complete source prefix"
\* (engine.rs, at the end of a pass that gave up).
LaterPassIsSmaller ==
    [][pc = "measure" /\ loc.shrunk > 0 /\ loc.pass < MaxPasses =>
         pc' = "summarize" /\ loc'.groups <= loc.shrunk]_vars
=============================================================================
