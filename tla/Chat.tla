-------------------------------- MODULE Chat --------------------------------
(***************************************************************************)
(* The chat with the agent: the endpoint and its background task           *)
(* (api/chat_routes.py), the agent's loop over tool calls                  *)
(* (agents/chat_agent.py, agents/nemoclaw_runtime.py) and the fallback     *)
(* provider (agents/chat_fallback.py).                                     *)
(*                                                                         *)
(* A TURN is one message and the work on its answer.  Turns run at the     *)
(* same time; they share the table chat_messages, the module variable      *)
(* _runtime, the cached answer of the availability check and the kill      *)
(* switch.  What the agent says is data: how many tool calls, whether it   *)
(* describes findings, whether it is a report.                             *)
(***************************************************************************)
EXTENDS Integers, Sequences, SequencesExt

CONSTANTS
    Turns,        \* the messages that are sent
    ToolMax,      \* MAX_TOOL_CALLS_PER_TURN
    BatchMax,     \* bound: tool calls in one answer of the agent
    HistoryLimit, \* MAX_HISTORY_MESSAGES, the LIMIT of the history query
    ScanOf,       \* ScanOf[t]: the scan_id sent with t, or NoScan
    NoScan,
    StoredScans,  \* the scans with a row in scan_jobs
    MaxEvents     \* bound: clears of the history, kills, changes of the
                  \* gateway and deaths of the process, together

ASSUME ChatAssumption ==
    /\ ToolMax \in Nat \ {0} /\ BatchMax \in Nat \ {0} /\ HistoryLimit \in Nat \ {0}
    /\ MaxEvents \in Nat /\ NoScan \notin StoredScans

VARIABLES
    turnStep,     \* turnStep[t]: where the work on t is
    chat,         \* chat_messages, oldest first: <<role, turn>>; only the
                  \* newest HistoryLimit rows, no task reads an older one
    conversation, \* conversation[t]: the list messages of ask_agent
    iteration,    \* iteration[t]: rounds of the tool loop begun
    called,       \* called[t]: total_tool_calls
    pending,      \* pending[t]: calls of the agent's last answer yet to execute
    findingRows,  \* the turns whose answer's findings have rows
    runtime,      \* _runtime is set
    probe,        \* _availability_cache: "none", "up" or "down"
    gateway,      \* the OpenShell gateway is reachable
    stopped,      \* the kill switch is active
    provider,     \* a fallback provider can be had
    executed,     \* history: executed[t]: tool calls of t dealt with
    behind,       \* history: behind[t]: messages saved after that of t
                  \* before its history was read, -1 when it had no row there
    events        \* how many of these have happened

localVars == <<conversation, iteration, called, pending, executed, behind>>
chatVars == <<turnStep, chat, localVars, findingRows, runtime, probe, gateway,
              stopped, provider, events>>

Answering == {"accepted", "asking", "round", "call", "running", "tools",
            "degrade", "fallback", "save", "extract", "push"}

\* What a conversation holds: rows of the chat, answers, tool results.
Item == {"user", "agent"} \X Turns \cup {"said", "results"} \X Turns \X (1 .. ToolMax + 1)

ChatTypeOK ==
    /\ turnStep \in [Turns -> Answering \cup {"new", "blocked", "done", "dead"}]
    /\ chat \in Seq({"user", "agent"} \X Turns)
    /\ conversation \in [Turns -> Seq(Item)]
    /\ iteration \in [Turns -> 0 .. ToolMax + 1]
    /\ called \in [Turns -> 0 .. ToolMax]
    /\ pending \in [Turns -> 0 .. BatchMax]
    /\ findingRows \subseteq Turns
    /\ {runtime, gateway, stopped, provider} \subseteq BOOLEAN
    /\ probe \in {"none", "up", "down"}
    /\ executed \in [Turns -> Nat]
    /\ behind \in [Turns -> Nat \cup {-1}]
    /\ events \in 0 .. MaxEvents

ChatInit ==
    /\ turnStep = [t \in Turns |-> "new"]
    /\ chat = <<>>
    /\ conversation = [t \in Turns |-> <<>>]
    /\ iteration = [t \in Turns |-> 0]
    /\ called = [t \in Turns |-> 0]
    /\ pending = [t \in Turns |-> 0]
    /\ findingRows = {}
    /\ runtime = FALSE /\ probe = "none" /\ gateway = TRUE /\ stopped = FALSE
    /\ provider \in BOOLEAN
    /\ executed = [t \in Turns |-> 0]
    /\ behind = [t \in Turns |-> -1]
    /\ events = 0

worldVars == <<findingRows, runtime, probe, gateway, stopped, provider, events>>

At(t, step, next) == turnStep[t] = step /\ turnStep' = [turnStep EXCEPT ![t] = next]

\* ask_agent of the turns T is over, and its locals are gone.
Leave(T) ==
    /\ conversation' = [t \in Turns |-> IF t \in T THEN <<>> ELSE conversation[t]]
    /\ iteration' = [t \in Turns |-> IF t \in T THEN 0 ELSE iteration[t]]
    /\ called' = [t \in Turns |-> IF t \in T THEN 0 ELSE called[t]]
    /\ pending' = [t \in Turns |-> IF t \in T THEN 0 ELSE pending[t]]
    /\ executed' = [t \in Turns |-> IF t \in T THEN 0 ELSE executed[t]]
    /\ behind' = [t \in Turns |-> IF t \in T THEN -1 ELSE behind[t]]

\* It returns or raises: the text is all the rest of the task needs.
Answered(t, step) == At(t, step, "save") /\ Leave({t})

-----------------------------------------------------------------------------
(* The endpoint and the frame of the background task.                      *)

\* A row is saved: every turn that still waits to read the history is one
\* further behind.
SaveRow(role, t) ==
    /\ chat' = Append(IF Len(chat) < HistoryLimit THEN chat ELSE Tail(chat), <<role, t>>)
    /\ behind' = [u \in Turns |->
           IF role = "user" /\ u = t THEN 0
           ELSE IF turnStep[u] = "accepted" /\ behind[u] >= 0 THEN behind[u] + 1
           ELSE behind[u]]

\* send_chat_message: not while a security layer is missing.
Send(t) ==
    /\ \/ /\ ~stopped /\ gateway
          /\ At(t, "new", "accepted")
          /\ SaveRow("user", t) \/ UNCHANGED <<chat, behind>>
       \/ /\ stopped \/ ~gateway
          /\ At(t, "new", "blocked")
          /\ UNCHANGED <<chat, behind>>
    /\ UNCHANGED <<conversation, iteration, called, pending, executed, worldVars>>

\* Mutant: the query asks for one role.
OnlyAnswers(rows) == SelectSeq(rows, LAMBDA row : row[1] = "agent")

\* _load_history_for_agent: the newest rows of both roles, oldest first.
LoadedRows(rows) == rows

\* Mutant: a history that cannot be read ends the task.
HistoryLost(t) ==
    /\ At(t, "accepted", "blocked")
    /\ UNCHANGED <<conversation, behind>>

\* The history cannot be read: the agent starts without one.
HistoryFails(t) ==
    /\ At(t, "accepted", "asking")
    /\ conversation' = [conversation EXCEPT ![t] = <<<<"user", t>>>>]
    /\ behind' = [behind EXCEPT ![t] = -1]

\* _run_agent_background reads the history and ask_agent adds the message.
ReadHistory(t) ==
    /\ \/ /\ At(t, "accepted", "asking")
          /\ conversation' = [conversation EXCEPT
                 ![t] = Append(LoadedRows(chat), <<"user", t>>)]
          /\ UNCHANGED behind
       \/ HistoryFails(t)
    /\ UNCHANGED <<chat, iteration, called, pending, executed, worldVars>>

\* ask_agent: check_availability answers from its cache, or asks the gateway;
\* try_init_nemoclaw returns no runtime when it is not available.
TryNemoclaw(t) ==
    LET found == IF probe # "none" THEN probe ELSE IF gateway THEN "up" ELSE "down" IN
    /\ At(t, "asking", IF found = "up" THEN "round" ELSE "degrade")
    /\ probe' = found
    /\ runtime' = (found = "up")
    /\ UNCHANGED <<chat, localVars, findingRows, gateway, stopped, provider, events>>

\* The answer is saved; a failure is logged.
SaveAnswer(t) ==
    /\ At(t, "save", "extract")
    /\ SaveRow("agent", t) \/ UNCHANGED <<chat, behind>>
    /\ UNCHANGED <<conversation, iteration, called, pending, executed, worldVars>>

\* persist_chat_findings: without a scan the findings get a scan id of their
\* own, which the table's foreign key refuses.  Failures are swallowed.
StoreFindings(t) ==
    /\ At(t, "extract", "push")
    /\ \/ UNCHANGED findingRows
       \/ ScanOf[t] \in StoredScans /\ findingRows' = findingRows \cup {t}
    /\ UNCHANGED <<chat, localVars, runtime, probe, gateway, stopped, provider, events>>

PushAnswer(t) ==
    /\ At(t, "push", "done")
    /\ UNCHANGED <<chat, localVars, worldVars>>

-----------------------------------------------------------------------------
(* _run_tool_loop.                                                         *)

\* The start of a round: the kill switch is read, then "thinking" is pushed.
BeginRound(t) ==
    /\ \/ stopped /\ Answered(t, "round")
       \/ /\ ~stopped
          /\ At(t, "round", "call")
          /\ iteration' = [iteration EXCEPT ![t] = @ + 1]
          /\ UNCHANGED <<conversation, called, pending, executed, behind>>
    /\ UNCHANGED <<chat, worldVars>>

\* run_agent is called on whatever _runtime is by now.  None has no such
\* method: that error is not a RuntimeError and ends ask_agent.
CallAgent(t) ==
    /\ \/ ~runtime /\ Answered(t, "call")
       \/ /\ runtime
          /\ At(t, "call", IF stopped THEN "degrade" ELSE "running")
          /\ UNCHANGED localVars
    /\ UNCHANGED <<chat, worldVars>>

\* build_user_message: run_agent got no user_message, so the prompt is the
\* list without its last element.
Prompt(t) == Front(conversation[t])

\* Mutant: the limit is checked before the new calls are counted.
OverLimitBefore(t, n) == called[t] > ToolMax

OverLimit(t, n) == called[t] + n > ToolMax

\* The agent answers with n tool calls.  None, or too many: that is the
\* answer, saved in agent_reports if it looks like a report.
AgentAnswers(t) ==
    /\ \E n \in 0 .. BatchMax :
           \/ n = 0 /\ Answered(t, "running")
           \/ OverLimit(t, n) /\ Answered(t, "running")
           \/ /\ n > 0 /\ ~OverLimit(t, n)
              /\ At(t, "running", "tools")
              /\ pending' = [pending EXCEPT ![t] = n]
              /\ conversation' = [conversation EXCEPT ![t] = Append(@, <<"said", t, iteration[t]>>)]
              /\ UNCHANGED <<iteration, called, executed, behind>>
    /\ UNCHANGED <<chat, worldVars>>

\* Timeout, no output, exit code: RuntimeError.  A process that cannot be
\* started: another exception.
AgentFails(t) ==
    /\ \/ At(t, "running", "degrade") /\ UNCHANGED localVars
       \/ Answered(t, "running")
    /\ UNCHANGED <<chat, worldVars>>

\* _execute_tools, one call: rejected, failed or done, it is dealt with.  The
\* kill switch is not read.
ExecuteTool(t) ==
    /\ turnStep[t] = "tools" /\ executed[t] < called[t] + pending[t]
    /\ executed' = [executed EXCEPT ![t] = @ + 1]
    /\ UNCHANGED <<turnStep, conversation, iteration, called, pending, behind, chat, worldVars>>

\* The results are appended and the next round begins.
ToolsDone(t) ==
    /\ executed[t] = called[t] + pending[t]
    /\ At(t, "tools", "round")
    /\ called' = [called EXCEPT ![t] = @ + pending[t]]
    /\ pending' = [pending EXCEPT ![t] = 0]
    /\ conversation' = [conversation EXCEPT ![t] = Append(@, <<"results", t, iteration[t]>>)]
    /\ UNCHANGED <<iteration, executed, behind, chat, worldVars>>

-----------------------------------------------------------------------------
(* _handle_fallback.                                                       *)

\* Without a provider that is the answer; with one the degradation is
\* audited, whose failure is logged.
Degrade(t) ==
    /\ \/ ~provider /\ Answered(t, "degrade")
       \/ provider /\ At(t, "degrade", "fallback") /\ UNCHANGED localVars
    /\ UNCHANGED <<chat, worldVars>>

\* The provider answers or fails.
FallbackAnswers(t) ==
    /\ Answered(t, "fallback")
    /\ UNCHANGED <<chat, worldVars>>

-----------------------------------------------------------------------------
(* What happens around the turns.                                          *)

Event == events < MaxEvents /\ events' = events + 1

\* clear_chat_history deletes every row.
ClearHistory ==
    /\ Event
    /\ chat' = <<>>
    /\ behind' = [t \in Turns |-> IF turnStep[t] = "accepted" THEN -1 ELSE behind[t]]
    /\ UNCHANGED <<turnStep, conversation, iteration, called, pending, executed, findingRows,
                   runtime, probe, gateway, stopped, provider>>

ProbeExpires ==
    /\ probe # "none" /\ probe' = "none"
    /\ UNCHANGED <<turnStep, chat, localVars, findingRows, runtime, gateway, stopped,
                   provider, events>>

GatewayChanges ==
    /\ Event
    /\ gateway' = ~gateway
    /\ UNCHANGED <<turnStep, chat, localVars, findingRows, runtime, probe, stopped,
                   provider>>

Kill ==
    /\ Event
    /\ ~stopped /\ stopped' = TRUE
    /\ UNCHANGED <<turnStep, chat, localVars, findingRows, runtime, probe, gateway,
                   provider>>

\* The process dies with its tasks, its module variables and its flag.
Die ==
    /\ Event
    /\ turnStep' = [t \in Turns |-> IF turnStep[t] \in Answering THEN "dead" ELSE turnStep[t]]
    /\ Leave(Turns)
    /\ runtime' = FALSE /\ probe' = "none" /\ stopped' = FALSE
    /\ UNCHANGED <<chat, findingRows, gateway, provider>>

Work(t) ==
    \/ ReadHistory(t) \/ TryNemoclaw(t) \/ BeginRound(t) \/ CallAgent(t)
    \/ AgentAnswers(t) \/ AgentFails(t) \/ ExecuteTool(t) \/ ToolsDone(t)
    \/ Degrade(t) \/ FallbackAnswers(t)
    \/ SaveAnswer(t) \/ StoreFindings(t) \/ PushAnswer(t)

ChatNext ==
    \/ \E t \in Turns : Send(t) \/ Work(t)
    \/ ClearHistory \/ ProbeExpires \/ GatewayChanges \/ Kill \/ Die

\* The event loop runs every task that can run, and every external call the
\* tasks await has a timeout.
ChatFairness == \A t \in Turns : WF_chatVars(Work(t))

ChatSpec == ChatInit /\ [][ChatNext]_chatVars /\ ChatFairness

-----------------------------------------------------------------------------
(* Properties.                                                             *)

\* A turn deals with no more than ToolMax tool calls however the agent
\* spreads them over its answers, and the loop's own bound on rounds is never
\* what ends it (_run_tool_loop).
ToolsBounded ==
    \A t \in Turns : executed[t] <= ToolMax /\ iteration[t] <= ToolMax + 1

\* The message a turn is for is in every prompt of the turn, as long as its
\* row was saved, was not cleared and was among the newest when the history
\* was read: the copy in the history is the only one the prompt has
\* (_load_history_for_agent, _build_messages, build_user_message).
MessageInPrompt ==
    \A t \in Turns :
        turnStep[t] = "running" /\ behind[t] \in 0 .. HistoryLimit - 1 =>
            <<"user", t>> \in ToSet(Prompt(t))

\* Whatever single step of a turn fails, and whatever other turns do, an
\* accepted message gets an answer that is pushed, unless the process dies
\* (_run_agent_background).
EveryMessageAnswered ==
    \A t \in Turns : turnStep[t] = "accepted" ~> turnStep[t] \in {"done", "dead"}

\* What the docstring of _format_tool_results promises: the results of a
\* batch of tools are in the prompt of the next call.
ResultsReachAgent ==
    \A t \in Turns :
        turnStep[t] = "running" /\ iteration[t] > 1 =>
            <<"results", t, iteration[t] - 1>> \in ToSet(Prompt(t))
=============================================================================
