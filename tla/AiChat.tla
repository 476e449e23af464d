------------------------------- MODULE AiChat -------------------------------
(***************************************************************************)
(* The assistant: the chat panel (ChatPanel.tsx) and the tool loop behind  *)
(* it (ai_service.py).  A message is abstracted to the question it asks or *)
(* answers; the panel's status dot, its opening and its scrolling are left *)
(* out.                                                                    *)
(***************************************************************************)
EXTENDS Naturals, Sequences

CONSTANTS
    MaxQuestions,       \* bound: questions asked
    MaxContext,         \* messages sent with a question, itself included (10)
    MaxToolIterations,  \* MAX_TOOL_ITERATIONS (5)
    MaxCalls            \* bound: tool calls in one answer of the model

ASSUME ChatAssumption ==
    MaxContext \in Nat \ {0} /\ MaxToolIterations \in Nat /\ MaxCalls \in Nat

VARIABLES
    messages,  \* the conversation on the page
    loading,
    chats,     \* requests under way, each with where the tool loop is
    asked,     \* questions asked so far
    first      \* the first question of the conversation, as Clear left it

chatVars == <<messages, loading, chats, asked, first>>

Message(role, question) == [role |-> role, question |-> question]

Welcome == Message("assistant", 0)

ChatInit ==
    /\ messages = <<Welcome>>
    /\ loading  = FALSE
    /\ chats    = {}
    /\ asked    = 0
    /\ first    = 1

\* apiMessages: the last messages but the welcome, then the question.
Context(question) ==
    LET start == IF Len(messages) < MaxContext THEN 2 ELSE Len(messages) - MaxContext + 2
    IN  Append(SubSeq(messages, start, Len(messages)), question)

Chat(question) ==
    [question |-> question, first |-> first, sent |-> Context(Message("user", question)),
     tools |-> TRUE, rounds |-> 0, calls |-> 0]
-----------------------------------------------------------------------------
(* Slips: what a definition would be after a plausible mistake in its code. *)

\* Clear makes the input usable at once.
ClearAndUnlock ==
    /\ messages' = <<Welcome>>
    /\ first'    = asked + 1
    /\ loading'  = FALSE
    /\ UNCHANGED <<chats, asked>>

\* A refusal is answered by another try, with or without tools.
AlwaysRetries(c) == TRUE
-----------------------------------------------------------------------------
(* The panel *)

\* sendMessage: an empty input, or one while an answer is awaited, does nothing.
SendMessage ==
    /\ ~loading /\ asked < MaxQuestions
    /\ asked'    = asked + 1
    /\ chats'    = chats \cup {Chat(asked + 1)}
    /\ messages' = Append(messages, Message("user", asked + 1))
    /\ loading'  = TRUE
    /\ UNCHANGED first

\* clearChat: an answer that is awaited still comes.
ClearChat ==
    /\ messages' = <<Welcome>>
    /\ first'    = asked + 1
    /\ UNCHANGED <<loading, chats, asked>>

\* The reply, or the text of a failure, goes under the conversation that is
\* there by then.
Reply(c) ==
    /\ chats'    = chats \ {c}
    /\ messages' = Append(messages, Message("assistant", c.question))
    /\ loading'  = FALSE
    /\ UNCHANGED <<asked, first>>

\* The backend cannot be reached, or its answer is no JSON.
BackendLost(c) == c \in chats /\ Reply(c)
-----------------------------------------------------------------------------
(* AIService.chat and _run_conversation *)

Posting(c) == c.calls = 0 /\ c.rounds < MaxToolIterations

Become(c, next) ==
    /\ chats' = (chats \ {c}) \cup {next}
    /\ UNCHANGED <<messages, loading, asked, first>>

\* The model wants tools run, also one that was not offered any.
ModelCalls(c, n) ==
    /\ c \in chats /\ Posting(c)
    /\ Become(c, [c EXCEPT !.rounds = @ + 1, !.calls = n])

\* _execute_tool: a failure is a result too.
RunTool(c) ==
    /\ c \in chats /\ c.calls > 0
    /\ Become(c, [c EXCEPT !.calls = @ - 1])

\* Only a request with tools is tried again.
Retries(c) == c.tools

\* The provider refuses the payload (400, 404, 422): once more, from the messages
\* of the browser and without tools.
ProviderRefuses(c) ==
    /\ c \in chats /\ Posting(c)
    /\ Retries(c)
    /\ Become(c, [c EXCEPT !.tools = FALSE, !.rounds = 0])

\* The model answers, the provider fails or times out, the cap is reached, or the
\* assistant is not configured.
Answer(c) ==
    /\ c \in chats /\ c.calls = 0
    /\ Reply(c)

ServerStep(c) ==
    \/ \E n \in 1..MaxCalls : ModelCalls(c, n)
    \/ RunTool(c)
    \/ ProviderRefuses(c)
    \/ Answer(c)

ChatNext ==
    \/ SendMessage
    \/ ClearChat
    \/ \E c \in chats : ServerStep(c) \/ BackendLost(c)

\* Every request to the provider ends after 30 s, and every tool returns.
ChatFairness == WF_chatVars(\E c \in chats : ServerStep(c))

ChatSpec == ChatInit /\ [][ChatNext]_chatVars /\ ChatFairness
-----------------------------------------------------------------------------
\* However often the conversation is cleared while an answer is on its way, what
\* is sent with a question belongs to the conversation the user sees: at most one
\* message does not, the late answer to the question before Clear, and it is the
\* first.  Never more than MaxContext messages are sent, the question last.
ContextIsThisConversation ==
    \A c \in chats :
        /\ Len(c.sent) <= MaxContext
        /\ c.sent[Len(c.sent)] = Message("user", c.question)
        /\ \A i \in DOMAIN c.sent :
              c.sent[i].question >= c.first \/ (i = 1 /\ c.sent[i].role = "assistant")

\* The panel does not wait for ever: the tool loop is cut off, and a refused
\* payload is tried again once.
EveryQuestionIsAnswered == loading ~> ~loading
=============================================================================
