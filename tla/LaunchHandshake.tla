--------------------------- MODULE LaunchHandshake ---------------------------
(***************************************************************************)
(* The start of a "deepdbg" debug session (deepDebug.ts:454-552): VS Code  *)
(* sends initialize, and then launch and configurationDone in either       *)
(* order, since it sends the one on the answer to initialize and the other *)
(* on the initialized event, after the breakpoints.                        *)
(*                                                                         *)
(* launchRequest waits on the Subject _configurationDone for at most       *)
(* 1000 ms, which configurationDoneRequest notifies.  A Subject (package   *)
(* await-notify) keeps nothing: notify() wakes the waiter there is, and is *)
(* lost when there is none.                                                *)
(*                                                                         *)
(* Adapters of several sessions run in one thread of the extension, each   *)
(* action below from one await to the next.                                *)
(***************************************************************************)
EXTENDS Naturals, Sequences

CONSTANT Sessions

VARIABLES
    mail,        \* requests VS Code has sent and the adapter not yet handled
    sent,        \* requests VS Code has sent
    adapter,     \* "idle", "waiting", "resumed" or "launched"
    handled,     \* launch and configurationDone, in the order handled
    answers      \* what the adapter has sent, in order

handshakeVars == <<mail, sent, adapter, handled, answers>>

Asks == {"initialize", "launch", "configurationDone"}

IsIn(m, seq) == \E i \in 1..Len(seq) : seq[i] = m

AdapterGoes(s, from, to) ==
    adapter[s] = from /\ adapter' = [adapter EXCEPT ![s] = to]

SendAnswers(s, new) == answers' = [answers EXCEPT ![s] = @ \o new]

Take(s, ask) ==
    /\ mail[s] # <<>>
    /\ Head(mail[s]) = ask
    /\ mail' = [mail EXCEPT ![s] = Tail(@)]

-----------------------------------------------------------------------------
\* VS Code.  It may never send configurationDone, for instance when the session
\* was terminated before.
Ask(s, ask) ==
    /\ ask \notin sent[s]
    /\ ask = "launch" => IsIn("initializeResponse", answers[s])
    /\ ask = "configurationDone" => IsIn("initialized", answers[s])
    /\ sent' = [sent EXCEPT ![s] = @ \cup {ask}]
    /\ mail' = [mail EXCEPT ![s] = Append(@, ask)]
    /\ UNCHANGED <<adapter, handled, answers>>

InitializeRequest(s) ==
    /\ Take(s, "initialize")
    /\ SendAnswers(s, <<"initializeResponse", "initialized">>)
    /\ UNCHANGED <<sent, adapter, handled>>

\* notify() wakes the waiter there is, if there is one.
ConfigurationDoneRequest(s) ==
    /\ Take(s, "configurationDone")
    /\ SendAnswers(s, <<"configurationDoneResponse">>)
    /\ handled' = [handled EXCEPT ![s] = Append(@, "configurationDone")]
    /\ adapter' = [adapter EXCEPT
                     ![s] = IF @ = "waiting" THEN "resumed" ELSE @]
    /\ UNCHANGED sent

\* launchRequest, up to the await.
LaunchRequest(s) ==
    /\ Take(s, "launch")
    /\ AdapterGoes(s, "idle", "waiting")
    /\ handled' = [handled EXCEPT ![s] = Append(@, "launch")]
    /\ UNCHANGED <<sent, answers>>

\* Mutant of Timeout: the timer runs only when nothing was configured yet.
TimeoutUnlessConfigured(s) ==
    /\ ~IsIn("configurationDone", handled[s])
    /\ AdapterGoes(s, "waiting", "resumed")
    /\ UNCHANGED <<mail, sent, handled, answers>>

\* The 1000 ms are over.  The result of the wait is not looked at.
Timeout(s) ==
    /\ AdapterGoes(s, "waiting", "resumed")
    /\ UNCHANGED <<mail, sent, handled, answers>>

\* launchDebugeeConfig, which sends TerminatedEvent whether it started anything
\* or caught an exception, and then the response to launch.
LaunchDebuggee(s) ==
    /\ AdapterGoes(s, "resumed", "launched")
    /\ SendAnswers(s, <<"terminated", "launchResponse">>)
    /\ UNCHANGED <<mail, sent, handled>>

-----------------------------------------------------------------------------
HandshakeInit ==
    /\ mail = [s \in Sessions |-> <<>>]
    /\ sent = [s \in Sessions |-> {}]
    /\ adapter = [s \in Sessions |-> "idle"]
    /\ handled = [s \in Sessions |-> <<>>]
    /\ answers = [s \in Sessions |-> <<>>]

Adapt(s) ==
    \/ InitializeRequest(s) \/ ConfigurationDoneRequest(s) \/ LaunchRequest(s)
    \/ Timeout(s) \/ LaunchDebuggee(s)

HandshakeNext == \E s \in Sessions : Adapt(s) \/ \E ask \in Asks : Ask(s, ask)

HandshakeSpec == HandshakeInit /\ [][HandshakeNext]_handshakeVars

-----------------------------------------------------------------------------
\* The comment of launchRequest: "wait until configuration has finished (and
\* configurationDoneRequest has been called)" (deepDebug.ts:545).
LaunchedConfigured ==
    \A s \in Sessions :
        adapter[s] = "launched" => IsIn("configurationDone", handled[s])

\* A lost notification costs a second, not the session: whatever the order,
\* every launch request comes to a launch and is answered, even that of a
\* session stopped during the wait (deepDebug.ts:540-552).
LaunchAnswered ==
    \A s \in Sessions :
        "launch" \in sent[s] ~> IsIn("launchResponse", answers[s])
=============================================================================
