-------------------------------- MODULE ChatTurn --------------------------------
(***************************************************************************)
(* One turn of the chat assistant: api/chat.py send, erpnext/orchestrator  *)
(* run_turn, confirmation tokens, quotas and the tool pipeline.  The model *)
(* decides what a turn asks for; a tool that writes runs only from a token *)
(* that was issued when the user was asked.  Tokens and Stop flags live in *)
(* the cache and are not rolled back.  send turns every error into an      *)
(* answer, so that the end of the request commits what the turn had        *)
(* written; a background job is rolled back.  A tool's handler writes      *)
(* everything or fails without having written.                             *)
(***************************************************************************)
EXTENDS Backend

CONSTANTS
  ChatUsers,
  ChatManagers,  \* Chat AI Managers: they may open any conversation
  Chats,         \* AI Chat Sessions
  OwnerOf,       \* their user
  Tokens,        \* confirmation tokens
  Cap,           \* max_messages_per_user_per_day
  MaxQueue,      \* bound on queued turns
  DoubleClicks   \* the client may send a token again before it has an answer

ASSUME ChatAssumption ==
  /\ ChatManagers \subseteq ChatUsers
  /\ OwnerOf \in [Chats -> ChatUsers]
  /\ Cap \in Nat \ {0}
  /\ None \notin Tokens /\ Chats \cap ChatUsers = {}

VARIABLES
  token,   \* what a token was issued for, and whether it is in the cache
  ran,     \* ran[k]: runs of the tool asked for under k that were committed
  usage,   \* request_count of the day, per user
  stopped, \* conversations with a Stop flag
  queue    \* turns waiting for a background worker

chatVars == <<token, ran, usage, stopped, queue>>

TokenDoc == [chat : Chats, user : ChatUsers, kind : {"tool", "plan"}, live : BOOLEAN]
TurnDoc == [user : ChatUsers, chat : Chats, tok : Tokens \cup {None}]

ASSUME TokenAssumption == None \notin TokenDoc

ChatTypeOK ==
  /\ token \in [Tokens -> TokenDoc \cup {None}]
  /\ ran \in [Tokens -> Nat]
  /\ usage \in [ChatUsers -> Nat]
  /\ stopped \in SUBSET Chats
  /\ queue \in SUBSET TurnDoc

ChatInit ==
  /\ token = [k \in Tokens |-> None]
  /\ ran = [k \in Tokens |-> 0]
  /\ usage = [u \in ChatUsers |-> 0]
  /\ stopped = {}
  /\ queue = {}

-----------------------------------------------------------------------------
(* Arrival.                                                                *)

MayOpen(u, s) == u = OwnerOf[s] \/ u \in ChatManagers

\* enforce: the day's messages, as far as they are committed.
WithinQuota(u) == usage[u] < Cap

Carried == {call[q].turn.tok : q \in {r \in Requests : call[r] # Idle}}
             \cup {t.tok : t \in queue}

\* A turn begins: the conversation is loaded and its Stop flag cleared.
\* row: the user's AI Usage Daily of the day is in the snapshot.
BeginCall(turn, job) ==
  [op |-> "begin", turn |-> turn, job |-> job, did |-> FALSE,
   row |-> usage[turn.user] > 0]

Send(r, u, s, k) ==
  /\ MayOpen(u, s) /\ WithinQuota(u)
  /\ k # None => token[k] # None /\ (DoubleClicks \/ k \notin Carried)
  /\ LET turn == [user |-> u, chat |-> s, tok |-> k]
     IN \/ /\ Load(r, BeginCall(turn, FALSE))
           /\ stopped' = stopped \ {s}
           /\ UNCHANGED queue
        \/ /\ call[r] = Idle   \* should_run_background
           /\ Cardinality(queue) < MaxQueue /\ turn \notin queue
           /\ queue' = queue \cup {turn}
           /\ UNCHANGED <<call, stale, stopped>>
  /\ UNCHANGED <<token, ran, usage>>

\* execute_turn: nothing is checked again but the owner.
TakeTurn(r) ==
  /\ \E turn \in queue :
       /\ Load(r, BeginCall(turn, TRUE))
       /\ queue' = queue \ {turn}
       /\ stopped' = stopped \ {turn.chat}
  /\ UNCHANGED <<token, ran, usage>>

-----------------------------------------------------------------------------
(* Confirmation.                                                           *)

Valid(turn, kind) ==
  LET t == token[turn.tok]
  IN t.live /\ t.chat = turn.chat /\ t.user = turn.user /\ t.kind = kind

Step(r, op) == call' = [call EXCEPT ![r].op = op] /\ UNCHANGED stale

\* consume_token reads the entry ...
ReadToken(r) ==
  /\ call[r].op = "begin"
  /\ LET turn == call[r].turn
     IN Step(r, IF turn.tok # None /\ Valid(turn, "tool") THEN "spend tool"
                ELSE IF turn.tok # None /\ Valid(turn, "plan") THEN "spend plan"
                ELSE "plan")
  /\ UNCHANGED <<token, ran, usage, stopped, queue>>

\* Faulty: the token is left to expire.
SpendTokenNot(r) ==
  /\ call[r].op \in {"spend tool", "spend plan"}
  /\ Step(r, IF call[r].op = "spend tool" THEN "run" ELSE "approved")
  /\ UNCHANGED <<token, ran, usage, stopped, queue>>

\* ... and deletes it.
SpendToken(r) ==
  /\ call[r].op \in {"spend tool", "spend plan"}
  /\ token' = [token EXCEPT ![call[r].turn.tok].live = FALSE]
  /\ Step(r, IF call[r].op = "spend tool" THEN "run" ELSE "approved")
  /\ UNCHANGED <<ran, usage, stopped, queue>>

\* The confirmed tool, unless Stop was pressed or its handler fails.
RunTool(r) ==
  /\ call[r].op = "run"
  /\ \E did \in {FALSE, call[r].turn.chat \notin stopped} :
       call' = [call EXCEPT ![r].op = "persist", ![r].did = did]
  /\ UNCHANGED <<stale, token, ran, usage, stopped, queue>>

-----------------------------------------------------------------------------
(* Planner and rounds.                                                     *)

\* The model answers, from read tools or none.
AnswerTurn(r) ==
  /\ call[r].op \in {"plan", "approved"}
  /\ Step(r, "persist")
  /\ UNCHANGED <<token, ran, usage, stopped, queue>>

\* It wants a plan approved, once, or a tool that writes confirmed.
Ask(r, k, kind) ==
  /\ call[r].op = "plan" \/ (call[r].op = "approved" /\ kind = "tool")
  /\ token[k] = None
  /\ token' = [token EXCEPT ![k] =
       [chat |-> call[r].turn.chat, user |-> call[r].turn.user, kind |-> kind,
        live |-> TRUE]]
  /\ Step(r, "persist")
  /\ UNCHANGED <<ran, usage, stopped, queue>>

-----------------------------------------------------------------------------
(* The end of a turn.                                                      *)

Ran(r) == IF call[r].did THEN [ran EXCEPT ![call[r].turn.tok] = @ + 1] ELSE ran

\* _persist saves messages and conversation, _record_usage counts the turn.
\* An error of the latter is swallowed; with SnapshotIsolation it has rolled
\* the transaction back.
Persist(r) ==
  /\ call[r].op = "persist"
  /\ LET u == call[r].turn.user
         s == call[r].turn.chat
     IN /\ Fresh(r, s)
        /\ IF SnapshotIsolation /\ call[r].row /\ ~Fresh(r, u)
             THEN UNCHANGED <<ran, usage>> /\ Done(r, {})
             ELSE /\ ran' = Ran(r)
                  /\ usage' = [usage EXCEPT ![u] = @ + 1]
                  /\ Done(r, {s, u})
  /\ UNCHANGED <<token, stopped, queue>>

\* The conversation was saved meanwhile, or the provider fails: send answers
\* with an error, and the request commits.
FailTurn(r) ==
  /\ call[r] # Idle
  /\ ran' = IF call[r].job THEN ran ELSE Ran(r)
  /\ Done(r, {})
  /\ UNCHANGED <<token, usage, stopped, queue>>

\* The worker dies.
KillTurn(r) ==
  /\ call[r] # Idle
  /\ Done(r, {})
  /\ UNCHANGED <<token, ran, usage, stopped, queue>>

-----------------------------------------------------------------------------
(* Other calls.                                                            *)

Cancel(s) ==
  /\ stopped' = stopped \cup {s}
  /\ UNCHANGED <<call, stale, token, ran, usage, queue>>

\* Entries of the cache live 300 and 600 seconds.
ExpireStop(s) ==
  /\ s \in stopped
  /\ stopped' = stopped \ {s}
  /\ UNCHANGED <<call, stale, token, ran, usage, queue>>

ExpireToken(k) ==
  /\ token[k] # None
  /\ token' = [token EXCEPT ![k].live = FALSE]
  /\ UNCHANGED <<call, stale, ran, usage, stopped, queue>>

\* rename, pin, archive, set_mode, set_language: load and save in one request.
EditChat(s) ==
  /\ stale' = [q \in Requests |-> IF call[q] = Idle THEN {} ELSE stale[q] \cup {s}]
  /\ UNCHANGED <<call, token, ran, usage, stopped, queue>>

ChatNext ==
  \/ \E r \in Requests :
       \/ TakeTurn(r) \/ ReadToken(r) \/ SpendToken(r) \/ RunTool(r)
       \/ AnswerTurn(r) \/ Persist(r) \/ FailTurn(r) \/ KillTurn(r)
       \/ \E u \in ChatUsers, s \in Chats, k \in Tokens \cup {None} : Send(r, u, s, k)
       \/ \E k \in Tokens, kind \in {"tool", "plan"} : Ask(r, k, kind)
  \/ \E s \in Chats : Cancel(s) \/ ExpireStop(s) \/ EditChat(s)
  \/ \E k \in Tokens : ExpireToken(k)

ChatSpec == BackendInit /\ ChatInit /\ [][ChatNext]_<<backendVars, chatVars>>

-----------------------------------------------------------------------------
(* Properties.                                                             *)

\* A tool that writes runs at most once for one confirmation, whatever is
\* stopped, retried, queued or killed, and then for the user and in the
\* conversation that were asked and never from an approved plan, if the client
\* waits for each answer (consume_token, test_token_is_random_and_single_use).
TokenOnce ==
  [][\A k \in Tokens : ran'[k] > ran[k] =>
       /\ ran[k] = 0 /\ token[k].kind = "tool"
       /\ \E r \in Requests : /\ call[r] # Idle
                              /\ call[r].turn.tok = k
                              /\ call[r].turn.user = token[k].user
                              /\ call[r].turn.chat = token[k].chat]_ran
=============================================================================
