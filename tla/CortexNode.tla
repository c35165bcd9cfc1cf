----------------------------- MODULE CortexNode -----------------------------
(***************************************************************************)
(* The Cortex node (cortex-v3/node/src): the OAuth server that issues      *)
(* codes and tokens, the MCP server that opens an event stream for a       *)
(* token's holder and runs tool calls posted to it, and the store.         *)
(*                                                                         *)
(* Everything the node keeps is a row of one table: memories, auto-saved   *)
(* facts, budgets, authorization codes and tokens differ in their keys     *)
(* only.  The memory tools and /ingest take the key from the caller and    *)
(* check nothing about it, so a memory may be written over any row, also   *)
(* under the key of a token nobody issued, and delete_memory may delete    *)
(* any row.  A code or token is identified by the number of its key.       *)
(*                                                                         *)
(* Statements on the store are synchronous, so a handler is one step from  *)
(* one await to the next.  The awaits that matter: reading the body of a   *)
(* message (the session is looked up before it and used after it), and the *)
(* embedder, an external service that may answer in any order or fail.     *)
(* upsertMemory, /ingest and the auto-save engine all put the record,      *)
(* start the embedder and put the embedding when it answers.               *)
(*                                                                         *)
(* introspects says whether CORTEX_OAUTH_INTROSPECT_URL is set.  The OAuth *)
(* server names no user and the server hands its own store to every call,  *)
(* so every holder acts on the one store; requests to the node that name   *)
(* an owner in a header use a file of their own and are left out.  An      *)
(* embedding is represented by the text it was made from.  The budget is   *)
(* that of one user_id, in whole units.  Requests that are refused and     *)
(* requests that only read change nothing and need no action; what         *)
(* prove_capability stores is read by nothing that is modelled.            *)
(***************************************************************************)
EXTENDS Integers, FiniteSets

CONSTANTS Clients,        \* OAuth clients
          Ids,            \* keys that are none of the ones below
          Texts,          \* memory texts
          Facts,          \* statements that extractFacts finds in a turn
          BudgetKey,      \* budget:<user_id>
          category,       \* what classifyCategory makes of each fact
          flagged,        \* facts on which runImmunology raises a flag
          salient,        \* facts whose scoreSalience reaches the threshold
          InitialBudget,  \* CORTEX_INITIAL_BUDGET
          ChosenKeys,     \* bound: keys that callers choose
          MaxIds,         \* bound: codes, tokens, posted calls and embedder calls
                          \* ever made
          MaxOpen,        \* bound: sessions and posted calls open
          MaxEmbedding    \* bound: embedder calls open

Categories == {"calendar", "fact", "preference", "task", "contact",
               "medical", "credentials", "legal", "financial", "unknown"}

CodeKey(n) == <<"code", n>>
TokenKey(n) == <<"token", n>>
Numbers == 1..MaxIds
OAuthKeys == {"code", "token"} \X Numbers

\* A fact is kept under a key made from its text.
Keys == Ids \cup Facts \cup {BudgetKey} \cup OAuthKeys

NoText == "none"

\* A budget key starts with budget:, an OAuth key with oauth:.
ASSUME NodeAssumption == /\ InitialBudget \in Nat
                         /\ MaxIds \in Nat
                         /\ MaxOpen \in Nat
                         /\ MaxEmbedding \in Nat
                         /\ category \in [Facts -> Categories]
                         /\ NoText \notin Texts \cup Facts
                         /\ BudgetKey \notin OAuthKeys
                         /\ ChosenKeys \subseteq Keys

\* The scopes of the tools modelled; memory:read and capability:grant are those
\* of the ones left out.
ALLOWED_SCOPES == {"memory:write", "budget:spend"}

Contents == Texts \cup Facts

VARIABLES records,     \* the row under each key, or NoRow
          embeddings,  \* what each key is found by, or NoText
          embedding,   \* embedder calls that have not answered
          sessions,    \* open event streams: the token and the scopes read for it
          calls,       \* posted tool calls that have not run
          introspects, \* the MCP server asks the OAuth server about tokens
          consents,    \* authorizations ever given
          issued,      \* tokens ever issued
          performed,   \* tool calls that have run
          overtaken,   \* keys written while their embedder call was open or
                       \* without one, or whose embedder call failed
          nextId       \* the next code, token, posted call or embedder call

vars == <<records, embeddings, embedding, sessions, calls, introspects,
          consents, issued, performed, overtaken, nextId>>

index == <<embeddings, embedding>>
history == <<consents, issued>>

NoRow == [type |-> "none"]
CodeRow == [type : {"code"}, clientId : Clients, scope : SUBSET ALLOWED_SCOPES, expired : BOOLEAN]
TokenRow == [type : {"token"}, clientId : Clients, scope : SUBSET ALLOWED_SCOPES, expired : BOOLEAN]
BudgetRow == [type : {"budget"}, balance : Nat, spent : Nat]
\* A memory under the budget's key gets a balance when it is spent from.
MemoryRow == [type : {"memory"}, text : Contents, savedBy : {"caller", "engine"}, consent : BOOLEAN,
              balance : {"undefined", "null"}]
Row == {NoRow} \cup CodeRow \cup TokenRow \cup BudgetRow \cup MemoryRow

Consent == [id : Numbers, clientId : Clients, scope : SUBSET ALLOWED_SCOPES]
Issue == [id : Numbers, code : Numbers, clientId : Clients]
Session == [token : Numbers, scope : SUBSET ALLOWED_SCOPES]
Call == [token : Numbers, scope : SUBSET ALLOWED_SCOPES, tool : ALLOWED_SCOPES]

TypeOK == /\ records \in [Keys -> Row]
          /\ embeddings \in [Keys -> Contents \cup {NoText}]
          /\ embedding \subseteq [n : Numbers, key : Keys, text : Contents]
          /\ sessions \subseteq Session
          /\ calls \subseteq Call
          /\ introspects \in BOOLEAN
          /\ consents \subseteq Consent
          /\ issued \subseteq Issue
          /\ performed \subseteq [token : Numbers, tool : ALLOWED_SCOPES]
          /\ overtaken \subseteq Keys
          /\ nextId \in 1..MaxIds + 1

Init == /\ records = [k \in Keys |-> NoRow]
        /\ embeddings = [k \in Keys |-> NoText]
        /\ embedding = {}
        /\ sessions = {} /\ calls = {}
        /\ introspects \in BOOLEAN
        /\ consents = {} /\ issued = {} /\ performed = {} /\ overtaken = {}
        /\ nextId = 1

-----------------------------------------------------------------------------
(* The table.                                                              *)

Awaited(key) == \E e \in embedding : e.key = key

\* store.put and store.delete leave the embeddings alone.
put(key, row) == /\ records' = [records EXCEPT ![key] = row]
                 /\ overtaken' = overtaken \cup {key}

memory(text, savedBy, consent) ==
    [type |-> "memory", text |-> text, savedBy |-> savedBy, consent |-> consent, balance |-> "undefined"]

\* The record now, its embedding when the embedder answers.
upsertMemory(key, row) ==
    /\ nextId =< MaxIds /\ Cardinality(embedding) < MaxEmbedding
    /\ records' = [records EXCEPT ![key] = row]
    /\ embedding' = embedding \cup {[n |-> nextId, key |-> key, text |-> row.text]}
    /\ overtaken' = IF Awaited(key) THEN overtaken \cup {key} ELSE overtaken \ {key}
    /\ nextId' = nextId + 1
    /\ UNCHANGED embeddings

\* The two statements of deleteMemory.
deleteMemory(key) == /\ records' = [records EXCEPT ![key] = NoRow]
                     /\ embeddings' = [embeddings EXCEPT ![key] = NoText]
                     /\ overtaken' = IF Awaited(key) THEN overtaken \cup {key} ELSE overtaken \ {key}
                     /\ UNCHANGED embedding

\* An embedding replaces the one that is there.
putEmbeddingOnce(e) == /\ e \in embedding
                       /\ embeddings' = [embeddings EXCEPT ![e.key] = IF @ = NoText THEN e.text ELSE @]
                       /\ embedding' = embedding \ {e}
                       /\ UNCHANGED <<records, sessions, calls, introspects, history, performed, overtaken, nextId>>

putEmbedding(e) == /\ e \in embedding
                   /\ embeddings' = [embeddings EXCEPT ![e.key] = e.text]
                   /\ embedding' = embedding \ {e}
                   /\ UNCHANGED <<records, sessions, calls, introspects, history, performed, overtaken, nextId>>

EmbedderFails(e) == /\ e \in embedding
                    /\ embedding' = embedding \ {e}
                    /\ overtaken' = overtaken \cup {e.key}
                    /\ UNCHANGED <<records, embeddings, sessions, calls, introspects, history, performed, nextId>>

-----------------------------------------------------------------------------
(* The OAuth server.                                                       *)

oauthOnly == <<index, sessions, calls, introspects, performed>>

handleAuthorize(c, scope) ==
    /\ nextId =< MaxIds
    /\ put(CodeKey(nextId), [type |-> "code", clientId |-> c, scope |-> scope, expired |-> FALSE])
    /\ consents' = consents \cup {[id |-> nextId, clientId |-> c, scope |-> scope]}
    /\ nextId' = nextId + 1
    /\ UNCHANGED <<oauthOnly, issued>>

\* The code is deleted before anything else is looked at (and not only when the
\* request is refused, as in the first form).
spentCodeKept(n) == records
spentCode(n) == [records EXCEPT ![CodeKey(n)] = NoRow]

\* The token carries the client and the scopes of the code.
handleToken(n) ==
    LET code == records[CodeKey(n)]
        token == [type |-> "token", clientId |-> code.clientId, scope |-> code.scope, expired |-> FALSE]
    IN /\ code.type = "code" /\ ~code.expired /\ nextId =< MaxIds
       /\ records' = [spentCode(n) EXCEPT ![TokenKey(nextId)] = token]
       /\ overtaken' = overtaken \cup {CodeKey(n), TokenKey(nextId)}
       /\ issued' = issued \cup {[id |-> nextId, code |-> n, clientId |-> code.clientId]}
       /\ nextId' = nextId + 1
       /\ UNCHANGED <<oauthOnly, consents>>

\* The code has expired, the redirect, the client or the verifier is wrong, or
\* the row is a memory and has no redirect.
handleTokenRefused(n) == /\ records[CodeKey(n)] # NoRow
                         /\ put(CodeKey(n), NoRow)
                         /\ UNCHANGED <<oauthOnly, history, nextId>>

\* Time passes the expiresAt of a code or a token.
Expires(key) == /\ records[key].type \in {"code", "token"} /\ ~records[key].expired
                /\ records' = [records EXCEPT ![key].expired = TRUE]
                /\ UNCHANGED <<oauthOnly, history, overtaken, nextId>>

\* A row without expiresAt does not expire.
handleIntrospect(n) == /\ records[TokenKey(n)] # NoRow
                       /\ records[TokenKey(n)].type \in {"code", "token"} => ~records[TokenKey(n)].expired

-----------------------------------------------------------------------------
(* The MCP server.                                                         *)

\* What the bearer of a token may do: everything without introspection, else
\* the scopes of the token's row, and nothing when the row has none.
verifyTokenWide(n) ==
    IF introspects /\ records[TokenKey(n)].type = "token" THEN records[TokenKey(n)].scope ELSE ALLOWED_SCOPES

verifyToken(n) ==
    IF ~introspects THEN ALLOWED_SCOPES
    ELSE IF records[TokenKey(n)].type = "token" THEN records[TokenKey(n)].scope ELSE {}

OpenStream(n) == /\ introspects => handleIntrospect(n)
                 /\ Cardinality(sessions) < MaxOpen
                 /\ sessions' = sessions \cup {[token |-> n, scope |-> verifyToken(n)]}
                 /\ UNCHANGED <<records, index, calls, introspects, history, performed, overtaken, nextId>>

CloseStream(s) == /\ s \in sessions
                  /\ sessions' = sessions \ {s}
                  /\ UNCHANGED <<records, index, calls, introspects, history, performed, overtaken, nextId>>

\* A message is accepted for an open stream; its calls run once its body has
\* been read, also when the stream or the token is gone by then.
PostMessage(s, tool) == /\ s \in sessions /\ Cardinality(calls) < MaxOpen /\ nextId =< MaxIds
                        /\ calls' = calls \cup {[token |-> s.token, scope |-> s.scope, tool |-> tool]}
                        /\ nextId' = nextId + 1
                        /\ UNCHANGED <<records, index, sessions, introspects, history, performed, overtaken>>

authorizeTool(call) == call.tool \in call.scope

Refused(call) == /\ call \in calls /\ ~authorizeTool(call)
                 /\ calls' = calls \ {call}
                 /\ UNCHANGED <<records, index, sessions, introspects, history, performed, overtaken, nextId>>

Performs(call, tool) == /\ call \in calls /\ call.tool = tool /\ authorizeTool(call)
                        /\ calls' = calls \ {call}
                        /\ performed' = performed \cup {[token |-> call.token, tool |-> tool]}

\* add_memory and update_memory.
AddMemory(call, key, text) == /\ Performs(call, "memory:write")
                              /\ upsertMemory(key, memory(text, "caller", FALSE))
                              /\ UNCHANGED <<sessions, introspects, history>>

\* store_memory puts the record and no embedding.
StoreMemory(call, key, text) == /\ Performs(call, "memory:write")
                                /\ put(key, memory(text, "caller", FALSE))
                                /\ UNCHANGED <<index, sessions, introspects, history, nextId>>

DeleteMemory(call, key) == /\ Performs(call, "memory:write")
                           /\ deleteMemory(key)
                           /\ UNCHANGED <<sessions, introspects, history, nextId>>

getBudget == IF records[BudgetKey] = NoRow THEN [type |-> "budget", balance |-> InitialBudget, spent |-> 0]
             ELSE records[BudgetKey]

spendUnchecked(call, amount) ==
    /\ Performs(call, "budget:spend")
    /\ getBudget.type = "budget"
    /\ put(BudgetKey, [type |-> "budget", balance |-> getBudget.balance - amount, spent |-> getBudget.spent + amount])
    /\ UNCHANGED <<index, sessions, introspects, history, nextId>>

spendBudget(call, amount) ==
    /\ Performs(call, "budget:spend")
    /\ getBudget.type = "budget" /\ amount =< getBudget.balance
    /\ put(BudgetKey, [type |-> "budget", balance |-> getBudget.balance - amount, spent |-> getBudget.spent + amount])
    /\ UNCHANGED <<index, sessions, introspects, history, nextId>>

\* No amount is greater than an undefined balance; what is left of it is not a
\* number and is stored as null.
SpendFromMemory(call) ==
    /\ Performs(call, "budget:spend")
    /\ records[BudgetKey].type = "memory" /\ records[BudgetKey].balance = "undefined"
    /\ put(BudgetKey, [records[BudgetKey] EXCEPT !.balance = "null"])
    /\ UNCHANGED <<index, sessions, introspects, history, nextId>>

\* "insufficient budget", as every amount is when the balance is null, or an
\* amount that is not a positive number.
SpendRefused(call) == /\ call \in calls /\ call.tool = "budget:spend" /\ authorizeTool(call)
                      /\ calls' = calls \ {call}
                      /\ UNCHANGED <<records, index, sessions, introspects, history, performed, overtaken, nextId>>

\* /ingest asks for no token.
Ingest(key, text) == /\ upsertMemory(key, memory(text, "caller", FALSE))
                     /\ UNCHANGED <<sessions, calls, introspects, history, performed>>

-----------------------------------------------------------------------------
(* The auto-save engine.                                                   *)

categoryPolicy(c) == CASE c \in {"medical", "credentials"} -> "block"
                       [] c \in {"legal", "financial", "unknown"} -> "quarantine"
                       [] OTHER -> "auto"

overrideableByTag == {"medical", "credentials", "legal", "financial"}

\* Quarantine forgotten.
applyBlocksOnly(c, consent) ==
    IF categoryPolicy(c) = "block" /\ ~(c \in overrideableByTag /\ consent) THEN "block" ELSE "auto"

applyCategoryPolicy(c, consent) ==
    LET blocked == categoryPolicy(c) = "block" /\ ~(c \in overrideableByTag /\ consent)
        held == categoryPolicy(c) = "quarantine" /\ ~consent
    IN IF blocked THEN "block" ELSE IF held THEN "quarantine" ELSE "auto"

evaluate(f, consent) ==
    IF f \in flagged THEN "block"
    ELSE IF applyCategoryPolicy(category[f], consent) # "auto" THEN applyCategoryPolicy(category[f], consent)
    ELSE IF f \in salient THEN "auto" ELSE "quarantine"

\* One fact of a turn; the turn's tags, which say whether the user consented,
\* are kept with the record.  The next fact waits for addMemory's embedder
\* call, and other requests may come in between.
processTurn(f, consent) ==
    /\ evaluate(f, consent) = "auto"
    /\ upsertMemory(f, memory(f, "engine", consent))
    /\ UNCHANGED <<sessions, calls, introspects, history, performed>>

-----------------------------------------------------------------------------

OAuthNext == \/ \E c \in Clients, scope \in SUBSET ALLOWED_SCOPES : handleAuthorize(c, scope)
             \/ \E n \in Numbers : handleToken(n) \/ handleTokenRefused(n)
             \/ \E key \in OAuthKeys : Expires(key)

McpNext == \/ \E n \in Numbers : OpenStream(n)
           \/ \E s \in sessions : CloseStream(s) \/ \E tool \in ALLOWED_SCOPES : PostMessage(s, tool)
           \/ \E call \in calls :
                 \/ Refused(call) \/ SpendRefused(call) \/ SpendFromMemory(call)
                 \/ \E key \in ChosenKeys, text \in Texts : AddMemory(call, key, text) \/ StoreMemory(call, key, text)
                 \/ \E key \in ChosenKeys : DeleteMemory(call, key)
                 \/ \E amount \in 1..InitialBudget + 1 : spendBudget(call, amount)

StoreNext == \/ \E key \in ChosenKeys, text \in Texts : Ingest(key, text)
             \/ \E e \in embedding : putEmbedding(e) \/ EmbedderFails(e)
             \/ \E f \in Facts, consent \in BOOLEAN : processTurn(f, consent)

Next == OAuthNext \/ McpNext \/ StoreNext

Spec == Init /\ [][Next]_vars

-----------------------------------------------------------------------------
(* Properties.                                                             *)

\* handleToken: one authorization code never yields two tokens, whatever the
\* order of requests and expiries and whatever is written over its row.
CodeSpentOnce == \A t1, t2 \in issued : t1.code = t2.code => t1 = t2

\* Where the MCP server introspects tokens: a tool call that ran carried a token
\* that was issued for an authorization of the token's client, and was within
\* the scopes that authorization gave.  Neither verifyToken, the stream, nor a
\* row that somebody wrote under the key of a token widens them.
ActsWithinConsent == introspects => \A call \in performed : \E t \in issued, c \in consents :
    /\ t.id = call.token
    /\ t.code = c.id /\ t.clientId = c.clientId
    /\ call.tool \in c.scope

textOf(row) == IF row.type = "memory" THEN row.text ELSE NoText

\* A memory is found by its text once the embedder has answered, and not at all
\* once it is deleted, unless its last write overlapped an embedder call of the
\* same key, had none, or its embedder call failed; the next write that does
\* none of this repairs the index (upsertMemory, deleteMemory, addMemory).
IndexExact == \A key \in Keys : ~Awaited(key) /\ key \notin overtaken => embeddings[key] = textOf(records[key])

\* "fail-closed for sensitive categories" (auto-save.mjs): of what the engine
\* saved, wherever it lies and whatever was written around it, the table holds
\* no fact that was flagged or below the salience threshold, and none of a
\* sensitive or unknown category whose turn carried no consent tag.
SensitiveNeedsConsent == \A key \in Keys :
    LET row == records[key]
    IN row.type = "memory" /\ row.savedBy = "engine" =>
          /\ row.text \in salient \ flagged
          /\ row.consent \/ category[row.text] \in {"calendar", "fact", "preference", "task", "contact"}
=============================================================================
