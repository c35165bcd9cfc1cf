-------------------------- MODULE CortexNodeProofs --------------------------
(***************************************************************************)
(* Theorems of CortexNode, for every set of clients, keys, texts and facts *)
(* and any number of requests, with and without introspection.             *)
(*                                                                         *)
(* The three Steps lemmas say what a step may do to the rows of the table, *)
(* to streams and calls, and to the index, whatever else it does; each     *)
(* invariant is proved against them.                                       *)
(***************************************************************************)
EXTENDS CortexNode, TLAPS

-----------------------------------------------------------------------------
(* Keys and rows.                                                          *)

\* The keys of codes and tokens are keys of the table, apart from each other.
LEMMA KeyFacts ==
    /\ BudgetKey \in Keys /\ ChosenKeys \subseteq Keys /\ Facts \subseteq Keys /\ OAuthKeys \subseteq Keys
    /\ \A n \in Numbers : CodeKey(n) \in Keys /\ TokenKey(n) \in Keys
    /\ \A m, n \in Numbers : CodeKey(m) # TokenKey(n)
    /\ \A m, n \in Numbers : CodeKey(m) = CodeKey(n) => m = n
    /\ \A m, n \in Numbers : TokenKey(m) = TokenKey(n) => m = n
BY NodeAssumption DEF Keys, OAuthKeys, CodeKey, TokenKey

\* A row's type says which kind of row it is.
LEMMA RowKinds == ASSUME NEW r \in Row
                  PROVE  /\ r.type \in {"none", "code", "token", "budget", "memory"}
                         /\ r.type = "none" => r = NoRow
                         /\ r.type = "code" => r \in CodeRow
                         /\ r.type = "token" => r \in TokenRow
                         /\ r.type = "budget" => r \in BudgetRow
                         /\ r.type = "memory" => r \in MemoryRow
<1>1. CASE r = NoRow
  BY <1>1 DEF NoRow
<1>2. CASE r \in CodeRow
  BY <1>2 DEF CodeRow
<1>3. CASE r \in TokenRow
  BY <1>3 DEF TokenRow
<1>4. CASE r \in BudgetRow
  BY <1>4 DEF BudgetRow
<1>5. CASE r \in MemoryRow
  BY <1>5 DEF MemoryRow
<1>. QED  BY <1>1, <1>2, <1>3, <1>4, <1>5 DEF Row

\* Expiry changes neither the kind nor the rights of a row.
LEMMA ExpiredRow == ASSUME NEW r \in Row, r.type \in {"code", "token"}
                    PROVE  LET x == [r EXCEPT !.expired = TRUE]
                           IN x \in Row /\ x.type = r.type /\ x.clientId = r.clientId /\ x.scope = r.scope
<1>1. CASE r.type = "code"
  <2>1. r \in CodeRow
    BY <1>1, RowKinds
  <2>. QED  BY <2>1 DEF CodeRow, Row
<1>2. CASE r.type = "token"
  <2>1. r \in TokenRow
    BY <1>2, RowKinds
  <2>. QED  BY <2>1 DEF TokenRow, Row
<1>. QED  BY <1>1, <1>2

\* A memory is a row.
LEMMA MemoryIsRow == ASSUME NEW text \in Contents, NEW by \in {"caller", "engine"}, NEW consent \in BOOLEAN
                     PROVE  LET m == memory(text, by, consent)
                            IN m \in Row /\ m \in MemoryRow /\ m.type = "memory" /\ m.text = text
                               /\ m.savedBy = by /\ m.consent = consent
BY DEF memory, MemoryRow, Row

\* A row that the auto-save engine may have left.
Justified(row) == row.type = "memory" /\ row.savedBy = "engine" =>
    /\ row.text \in salient \ flagged
    /\ row.consent \/ category[row.text] \in {"calendar", "fact", "preference", "task", "contact"}

\* What the auto-save engine saves.
LEMMA AutoSaved ==
    ASSUME NEW f \in Facts, NEW consent \in BOOLEAN, evaluate(f, consent) = "auto"
    PROVE  f \in salient \ flagged /\ (consent \/ category[f] \in {"calendar", "fact", "preference", "task", "contact"})
<1>1. f \notin flagged /\ f \in salient
  BY DEF evaluate
<1>2. applyCategoryPolicy(category[f], consent) = "auto"
  BY <1>1 DEF evaluate
<1>3. category[f] \in Categories
  BY NodeAssumption
<1>4. ASSUME ~consent PROVE categoryPolicy(category[f]) = "auto" \/ categoryPolicy(category[f]) \notin {"block", "quarantine"}
  BY <1>2, <1>4 DEF applyCategoryPolicy
<1>5. ASSUME category[f] \in {"medical", "credentials", "legal", "financial", "unknown"}
      PROVE  categoryPolicy(category[f]) \in {"block", "quarantine"}
  BY <1>5 DEF categoryPolicy
<1>. QED  BY <1>1, <1>3, <1>4, <1>5 DEF Categories

-----------------------------------------------------------------------------
(* What a step may do.                                                     *)

Advances == nextId' = nextId \/ (nextId' = nextId + 1 /\ nextId =< MaxIds)

\* A row that carries no rights is written or deleted.
WritesPlain == \E key \in Keys, row \in Row :
    /\ row.type \notin {"code", "token"} /\ (Justified(records[key]) => Justified(row))
    /\ records' = [records EXCEPT ![key] = row]
    /\ UNCHANGED history /\ Advances

Authorizes == \E c \in Clients, scope \in SUBSET ALLOWED_SCOPES :
    /\ nextId \in Numbers
    /\ records' = [records EXCEPT ![CodeKey(nextId)] = [type |-> "code", clientId |-> c, scope |-> scope, expired |-> FALSE]]
    /\ consents' = consents \cup {[id |-> nextId, clientId |-> c, scope |-> scope]}
    /\ nextId' = nextId + 1
    /\ UNCHANGED issued

Issues == \E n \in Numbers :
    /\ nextId \in Numbers /\ records[CodeKey(n)].type = "code"
    /\ records' = [records EXCEPT ![CodeKey(n)] = NoRow,
                                  ![TokenKey(nextId)] = [type |-> "token", clientId |-> records[CodeKey(n)].clientId,
                                                         scope |-> records[CodeKey(n)].scope, expired |-> FALSE]]
    /\ issued' = issued \cup {[id |-> nextId, code |-> n, clientId |-> records[CodeKey(n)].clientId]}
    /\ nextId' = nextId + 1
    /\ UNCHANGED consents

Ages == \E key \in Keys :
    /\ records[key].type \in {"code", "token"}
    /\ records' = [records EXCEPT ![key].expired = TRUE]
    /\ UNCHANGED <<history, nextId>>

RowStep == \/ UNCHANGED <<records, history>> /\ Advances
           \/ WritesPlain \/ Authorizes \/ Issues \/ Ages

\* What a step may do to streams and calls.
AccessStep ==
    /\ introspects' = introspects
    /\ \A s \in sessions' : s \in sessions \/ \E n \in Numbers : s = [token |-> n, scope |-> verifyToken(n)]
    /\ \A c \in calls' : c \in calls \/ \E s \in sessions, tool \in ALLOWED_SCOPES :
          c = [token |-> s.token, scope |-> s.scope, tool |-> tool]
    /\ \A p \in performed' : p \in performed \/ \E c \in calls : authorizeTool(c) /\ p = [token |-> c.token, tool |-> c.tool]

\* What a step may do to the index.
Unindexed == \E some \in SUBSET Keys :
    /\ overtaken' = overtaken \cup some /\ UNCHANGED index
    /\ \A key \in Keys \ some : textOf(records'[key]) = textOf(records[key])

Upserts == \E key \in Keys, text \in Contents, by \in {"caller", "engine"}, consent \in BOOLEAN :
    upsertMemory(key, memory(text, by, consent))

Deletes == \E key \in Keys : deleteMemory(key)

Answers == \E e \in embedding :
    /\ embeddings' = [embeddings EXCEPT ![e.key] = e.text] /\ embedding' = embedding \ {e}
    /\ UNCHANGED <<records, overtaken>>

Fails == \E e \in embedding :
    /\ embedding' = embedding \ {e} /\ overtaken' = overtaken \cup {e.key}
    /\ UNCHANGED <<records, embeddings>>

Leaves == /\ UNCHANGED <<index, overtaken>>
          /\ \A key \in Keys : textOf(records'[key]) = textOf(records[key])

IndexStep == Leaves \/ Unindexed \/ Upserts \/ Deletes \/ Answers \/ Fails

\* Every step treats streams and calls in one of these ways.
LEMMA AccessSteps == ASSUME TypeOK, [Next]_vars PROVE AccessStep
<1>1. ASSUME NEW c \in Clients, NEW scope \in SUBSET ALLOWED_SCOPES, handleAuthorize(c, scope) PROVE AccessStep
  BY <1>1 DEF handleAuthorize, oauthOnly, AccessStep
<1>2. ASSUME NEW n \in Numbers, handleToken(n) PROVE AccessStep
  BY <1>2 DEF handleToken, oauthOnly, AccessStep
<1>3. ASSUME NEW n \in Numbers, handleTokenRefused(n) PROVE AccessStep
  BY <1>3 DEF handleTokenRefused, oauthOnly, AccessStep
<1>4. ASSUME NEW key \in OAuthKeys, Expires(key) PROVE AccessStep
  BY <1>4 DEF Expires, oauthOnly, AccessStep
<1>5. ASSUME NEW n \in Numbers, OpenStream(n) PROVE AccessStep
  BY <1>5 DEF OpenStream, oauthOnly, AccessStep
<1>6. ASSUME NEW s \in sessions, CloseStream(s) PROVE AccessStep
  BY <1>6 DEF CloseStream, oauthOnly, AccessStep
<1>7. ASSUME NEW s \in sessions, NEW tool \in ALLOWED_SCOPES, PostMessage(s, tool) PROVE AccessStep
  BY <1>7 DEF PostMessage, oauthOnly, AccessStep
<1>8. ASSUME NEW call \in calls, Refused(call) PROVE AccessStep
  BY <1>8 DEF Refused, oauthOnly, AccessStep
<1>9. ASSUME NEW call \in calls, SpendRefused(call) PROVE AccessStep
  BY <1>9 DEF SpendRefused, oauthOnly, AccessStep
<1>10. ASSUME NEW call \in calls, SpendFromMemory(call) PROVE AccessStep
  BY <1>10 DEF SpendFromMemory, Performs, oauthOnly, AccessStep
<1>11. ASSUME NEW call \in calls, NEW key \in ChosenKeys, NEW text \in Texts, AddMemory(call, key, text) PROVE AccessStep
  BY <1>11 DEF AddMemory, Performs, oauthOnly, AccessStep
<1>12. ASSUME NEW call \in calls, NEW key \in ChosenKeys, NEW text \in Texts, StoreMemory(call, key, text) PROVE AccessStep
  BY <1>12 DEF StoreMemory, Performs, oauthOnly, AccessStep
<1>13. ASSUME NEW call \in calls, NEW key \in ChosenKeys, DeleteMemory(call, key) PROVE AccessStep
  BY <1>13 DEF DeleteMemory, Performs, oauthOnly, AccessStep
<1>14. ASSUME NEW call \in calls, NEW amount \in 1..InitialBudget + 1, spendBudget(call, amount) PROVE AccessStep
  BY <1>14 DEF spendBudget, Performs, oauthOnly, AccessStep
<1>15. ASSUME NEW key \in ChosenKeys, NEW text \in Texts, Ingest(key, text) PROVE AccessStep
  BY <1>15 DEF Ingest, oauthOnly, AccessStep
<1>16. ASSUME NEW e \in embedding, putEmbedding(e) PROVE AccessStep
  BY <1>16 DEF putEmbedding, oauthOnly, AccessStep
<1>17. ASSUME NEW e \in embedding, EmbedderFails(e) PROVE AccessStep
  BY <1>17 DEF EmbedderFails, oauthOnly, AccessStep
<1>18. ASSUME NEW f \in Facts, NEW consent \in BOOLEAN, processTurn(f, consent) PROVE AccessStep
  BY <1>18 DEF processTurn, oauthOnly, AccessStep
<1>19. CASE UNCHANGED vars
  BY <1>19 DEF vars, oauthOnly, AccessStep
<1>. QED  BY <1>1, <1>2, <1>3, <1>4, <1>5, <1>6, <1>7, <1>8, <1>9, <1>10, <1>11, <1>12, <1>13, <1>14, <1>15, <1>16, <1>17, <1>18, <1>19 DEF Next, OAuthNext, McpNext, StoreNext

\* Every step treats the rows in one of these ways.
LEMMA RowSteps == ASSUME TypeOK, [Next]_vars PROVE RowStep
<1>0. nextId =< MaxIds => nextId \in Numbers
  BY NodeAssumption DEF TypeOK, Numbers
<1>1. ASSUME NEW c \in Clients, NEW scope \in SUBSET ALLOWED_SCOPES, handleAuthorize(c, scope) PROVE RowStep
  BY <1>1, <1>0 DEF handleAuthorize, put, RowStep, Authorizes
<1>2. ASSUME NEW n \in Numbers, handleToken(n) PROVE RowStep
  BY <1>2, <1>0 DEF handleToken, spentCode, RowStep, Issues
<1>3. ASSUME NEW n \in Numbers, handleTokenRefused(n) PROVE RowStep
  <2>1. NoRow \in Row /\ NoRow.type = "none" /\ Justified(NoRow)
    BY DEF Row, NoRow, Justified
  <2>. QED  BY <1>3, <2>1, KeyFacts DEF handleTokenRefused, put, RowStep, WritesPlain, Advances
<1>4. ASSUME NEW key \in OAuthKeys, Expires(key) PROVE RowStep
  BY <1>4, KeyFacts DEF Expires, RowStep, Ages
<1>5. ASSUME NEW n \in Numbers, OpenStream(n) PROVE RowStep
  BY <1>5 DEF OpenStream, history, RowStep, Advances
<1>6. ASSUME NEW s \in sessions, CloseStream(s) PROVE RowStep
  BY <1>6 DEF CloseStream, history, RowStep, Advances
<1>7. ASSUME NEW s \in sessions, NEW tool \in ALLOWED_SCOPES, PostMessage(s, tool) PROVE RowStep
  BY <1>7 DEF PostMessage, history, RowStep, Advances
<1>8. ASSUME NEW call \in calls, Refused(call) PROVE RowStep
  BY <1>8 DEF Refused, history, RowStep, Advances
<1>9. ASSUME NEW call \in calls, SpendRefused(call) PROVE RowStep
  BY <1>9 DEF SpendRefused, history, RowStep, Advances
<1>10. ASSUME NEW call \in calls, SpendFromMemory(call) PROVE RowStep
  <2>. DEFINE old == records[BudgetKey]
              new == [old EXCEPT !.balance = "null"]
  <2>1. old \in MemoryRow
    BY <1>10, KeyFacts, RowKinds DEF SpendFromMemory, TypeOK
  <2>2. new \in Row /\ new.type = "memory" /\ new.savedBy = old.savedBy /\ new.text = old.text /\ new.consent = old.consent
    BY <2>1 DEF MemoryRow, Row
  <2>3. records' = [records EXCEPT ![BudgetKey] = new] /\ UNCHANGED <<history, nextId>>
    BY <1>10 DEF SpendFromMemory, put
  <2>4. old.type = "memory"
    BY <2>1 DEF MemoryRow
  <2>. HIDE DEF old, new
  <2>5. Justified(old) => Justified(new)
    BY <2>2, <2>4 DEF Justified
  <2>. QED  BY <2>2, <2>3, <2>5, KeyFacts DEF RowStep, WritesPlain, Advances, old
<1>11. ASSUME NEW call \in calls, NEW key \in ChosenKeys, NEW text \in Texts, AddMemory(call, key, text) PROVE RowStep
  <2>. DEFINE m == memory(text, "caller", FALSE)
  <2>1. m \in Row /\ m.type = "memory" /\ m.text = text /\ m.savedBy = "caller" /\ m.consent = FALSE
    BY MemoryIsRow DEF Contents
  <2>2. Justified(m)
    BY <2>1 DEF Justified
  <2>3. records' = [records EXCEPT ![key] = m] /\ UNCHANGED history /\ Advances
    BY <1>11 DEF AddMemory, upsertMemory, Advances
  <2>. HIDE DEF m
  <2>. QED  BY <2>1, <2>2, <2>3, KeyFacts DEF RowStep, WritesPlain
<1>12. ASSUME NEW call \in calls, NEW key \in ChosenKeys, NEW text \in Texts, StoreMemory(call, key, text) PROVE RowStep
  <2>. DEFINE m == memory(text, "caller", FALSE)
  <2>1. m \in Row /\ m.type = "memory" /\ m.text = text /\ m.savedBy = "caller" /\ m.consent = FALSE
    BY MemoryIsRow DEF Contents
  <2>2. Justified(m)
    BY <2>1 DEF Justified
  <2>3. records' = [records EXCEPT ![key] = m] /\ UNCHANGED history /\ Advances
    BY <1>12 DEF StoreMemory, put, Advances
  <2>. HIDE DEF m
  <2>. QED  BY <2>1, <2>2, <2>3, KeyFacts DEF RowStep, WritesPlain
<1>13. ASSUME NEW call \in calls, NEW key \in ChosenKeys, DeleteMemory(call, key) PROVE RowStep
  <2>1. NoRow \in Row /\ NoRow.type = "none" /\ Justified(NoRow)
    BY DEF Row, NoRow, Justified
  <2>. QED  BY <1>13, <2>1, KeyFacts DEF DeleteMemory, deleteMemory, RowStep, WritesPlain, Advances
<1>14. ASSUME NEW call \in calls, NEW amount \in 1..InitialBudget + 1, spendBudget(call, amount) PROVE RowStep
  <2>. DEFINE new == [type |-> "budget", balance |-> getBudget.balance - amount, spent |-> getBudget.spent + amount]
  <2>1. getBudget \in BudgetRow /\ amount =< getBudget.balance
    <3>1. CASE records[BudgetKey] = NoRow
      BY <1>14, <3>1, NodeAssumption DEF getBudget, BudgetRow, spendBudget
    <3>2. CASE records[BudgetKey] # NoRow
      BY <1>14, <3>2, KeyFacts, RowKinds DEF getBudget, spendBudget, TypeOK
    <3>. QED  BY <3>1, <3>2
  <2>2. new \in BudgetRow
    <3>1. getBudget.balance - amount \in Nat /\ getBudget.spent + amount \in Nat
      BY <2>1 DEF BudgetRow
    <3>. QED  BY <3>1 DEF BudgetRow
  <2>3. new \in Row /\ new.type = "budget"
    BY <2>2 DEF BudgetRow, Row
  <2>4. records' = [records EXCEPT ![BudgetKey] = new] /\ UNCHANGED <<history, nextId>>
    BY <1>14 DEF spendBudget, put
  <2>. HIDE DEF new
  <2>. QED  BY <2>3, <2>4, KeyFacts DEF RowStep, WritesPlain, Advances, Justified
<1>15. ASSUME NEW key \in ChosenKeys, NEW text \in Texts, Ingest(key, text) PROVE RowStep
  <2>. DEFINE m == memory(text, "caller", FALSE)
  <2>1. m \in Row /\ m.type = "memory" /\ m.text = text /\ m.savedBy = "caller" /\ m.consent = FALSE
    BY MemoryIsRow DEF Contents
  <2>2. Justified(m)
    BY <2>1 DEF Justified
  <2>3. records' = [records EXCEPT ![key] = m] /\ UNCHANGED history /\ Advances
    BY <1>15 DEF Ingest, upsertMemory, Advances
  <2>. HIDE DEF m
  <2>. QED  BY <2>1, <2>2, <2>3, KeyFacts DEF RowStep, WritesPlain
<1>16. ASSUME NEW e \in embedding, putEmbedding(e) PROVE RowStep
  BY <1>16 DEF putEmbedding, history, RowStep, Advances
<1>17. ASSUME NEW e \in embedding, EmbedderFails(e) PROVE RowStep
  BY <1>17 DEF EmbedderFails, history, RowStep, Advances
<1>18. ASSUME NEW f \in Facts, NEW consent \in BOOLEAN, processTurn(f, consent) PROVE RowStep
  <2>. DEFINE m == memory(f, "engine", consent)
  <2>1. m \in Row /\ m.type = "memory" /\ m.text = f /\ m.savedBy = "engine" /\ m.consent = consent
    BY MemoryIsRow DEF Contents
  <2>2. Justified(m)
    BY <1>18, <2>1, AutoSaved DEF Justified, processTurn
  <2>3. records' = [records EXCEPT ![f] = m] /\ UNCHANGED history /\ Advances
    BY <1>18 DEF processTurn, upsertMemory, Advances
  <2>. HIDE DEF m
  <2>. QED  BY <2>1, <2>2, <2>3, KeyFacts DEF RowStep, WritesPlain
<1>19. CASE UNCHANGED vars
  BY <1>19 DEF vars, history, RowStep, Advances
<1>. QED  BY <1>1, <1>2, <1>3, <1>4, <1>5, <1>6, <1>7, <1>8, <1>9, <1>10, <1>11, <1>12, <1>13, <1>14, <1>15, <1>16, <1>17, <1>18, <1>19 DEF Next, OAuthNext, McpNext, StoreNext

\* Every step treats the index in one of these ways.
LEMMA IndexSteps == ASSUME TypeOK, [Next]_vars PROVE IndexStep
<1>0. nextId =< MaxIds => nextId \in Numbers
  BY NodeAssumption DEF TypeOK, Numbers
<1>1. ASSUME NEW c \in Clients, NEW scope \in SUBSET ALLOWED_SCOPES, handleAuthorize(c, scope) PROVE IndexStep
  <2>1. PICK row : records' = [records EXCEPT ![CodeKey(nextId)] = row]
    BY <1>1 DEF handleAuthorize, put
  <2>2. UNCHANGED index /\ overtaken' = overtaken \cup {CodeKey(nextId)} /\ {CodeKey(nextId)} \in SUBSET Keys
    BY <1>1, <1>0, KeyFacts DEF handleAuthorize, put, oauthOnly, index
  <2>3. \A k \in Keys \ {CodeKey(nextId)} : textOf(records'[k]) = textOf(records[k])
    BY <2>1 DEF TypeOK
  <2>. QED  BY <2>2, <2>3 DEF IndexStep, Unindexed
<1>2. ASSUME NEW n \in Numbers, handleToken(n) PROVE IndexStep
  <2>. DEFINE some == {CodeKey(n), TokenKey(nextId)}
  <2>1. UNCHANGED index /\ overtaken' = overtaken \cup some /\ some \in SUBSET Keys
    BY <1>2, <1>0, KeyFacts DEF handleToken, oauthOnly, index
  <2>2. \A k \in Keys \ some : records'[k] = records[k]
    BY <1>2 DEF handleToken, spentCode, TypeOK
  <2>. QED  BY <2>1, <2>2 DEF IndexStep, Unindexed
<1>3. ASSUME NEW n \in Numbers, handleTokenRefused(n) PROVE IndexStep
  <2>1. PICK row : records' = [records EXCEPT ![CodeKey(n)] = row]
    BY <1>3 DEF handleTokenRefused, put
  <2>2. UNCHANGED index /\ overtaken' = overtaken \cup {CodeKey(n)} /\ {CodeKey(n)} \in SUBSET Keys
    BY <1>3, <1>0, KeyFacts DEF handleTokenRefused, put, oauthOnly, index
  <2>3. \A k \in Keys \ {CodeKey(n)} : textOf(records'[k]) = textOf(records[k])
    BY <2>1 DEF TypeOK
  <2>. QED  BY <2>2, <2>3 DEF IndexStep, Unindexed
<1>4. ASSUME NEW key \in OAuthKeys, Expires(key) PROVE IndexStep
  <2>1. UNCHANGED index /\ UNCHANGED overtaken /\ key \in Keys
    BY <1>4, KeyFacts DEF Expires, oauthOnly, index
  <2>2. textOf(records'[key]) = textOf(records[key])
    BY <1>4, <2>1, ExpiredRow DEF Expires, textOf, TypeOK
  <2>3. \A k \in Keys \ {key} : records'[k] = records[k]
    BY <1>4 DEF Expires, TypeOK
  <2>. QED  BY <2>1, <2>2, <2>3 DEF IndexStep, Leaves
<1>5. ASSUME NEW n \in Numbers, OpenStream(n) PROVE IndexStep
  <2>1. UNCHANGED <<records, index>> /\ UNCHANGED overtaken
    BY <1>5 DEF OpenStream, index
  <2>. QED  BY <2>1 DEF IndexStep, Leaves
<1>6. ASSUME NEW s \in sessions, CloseStream(s) PROVE IndexStep
  <2>1. UNCHANGED <<records, index>> /\ UNCHANGED overtaken
    BY <1>6 DEF CloseStream, index
  <2>. QED  BY <2>1 DEF IndexStep, Leaves
<1>7. ASSUME NEW s \in sessions, NEW tool \in ALLOWED_SCOPES, PostMessage(s, tool) PROVE IndexStep
  <2>1. UNCHANGED <<records, index>> /\ UNCHANGED overtaken
    BY <1>7 DEF PostMessage, index
  <2>. QED  BY <2>1 DEF IndexStep, Leaves
<1>8. ASSUME NEW call \in calls, Refused(call) PROVE IndexStep
  <2>1. UNCHANGED <<records, index>> /\ UNCHANGED overtaken
    BY <1>8 DEF Refused, index
  <2>. QED  BY <2>1 DEF IndexStep, Leaves
<1>9. ASSUME NEW call \in calls, SpendRefused(call) PROVE IndexStep
  <2>1. UNCHANGED <<records, index>> /\ UNCHANGED overtaken
    BY <1>9 DEF SpendRefused, index
  <2>. QED  BY <2>1 DEF IndexStep, Leaves
<1>10. ASSUME NEW call \in calls, SpendFromMemory(call) PROVE IndexStep
  <2>1. PICK row : records' = [records EXCEPT ![BudgetKey] = row]
    BY <1>10 DEF SpendFromMemory, Performs, put
  <2>2. UNCHANGED index /\ overtaken' = overtaken \cup {BudgetKey} /\ {BudgetKey} \in SUBSET Keys
    BY <1>10, <1>0, KeyFacts DEF SpendFromMemory, Performs, put, oauthOnly, index
  <2>3. \A k \in Keys \ {BudgetKey} : textOf(records'[k]) = textOf(records[k])
    BY <2>1 DEF TypeOK
  <2>. QED  BY <2>2, <2>3 DEF IndexStep, Unindexed
<1>11. ASSUME NEW call \in calls, NEW key \in ChosenKeys, NEW text \in Texts, AddMemory(call, key, text) PROVE IndexStep
  <2>1. upsertMemory(key, memory(text, "caller", FALSE)) /\ key \in Keys /\ text \in Contents
    BY <1>11, KeyFacts DEF AddMemory, Contents
  <2>. QED  BY <2>1 DEF IndexStep, Upserts
<1>12. ASSUME NEW call \in calls, NEW key \in ChosenKeys, NEW text \in Texts, StoreMemory(call, key, text) PROVE IndexStep
  <2>1. PICK row : records' = [records EXCEPT ![key] = row]
    BY <1>12 DEF StoreMemory, Performs, put
  <2>2. UNCHANGED index /\ overtaken' = overtaken \cup {key} /\ {key} \in SUBSET Keys
    BY <1>12, <1>0, KeyFacts DEF StoreMemory, Performs, put, oauthOnly, index
  <2>3. \A k \in Keys \ {key} : textOf(records'[k]) = textOf(records[k])
    BY <2>1 DEF TypeOK
  <2>. QED  BY <2>2, <2>3 DEF IndexStep, Unindexed
<1>13. ASSUME NEW call \in calls, NEW key \in ChosenKeys, DeleteMemory(call, key) PROVE IndexStep
  BY <1>13, KeyFacts DEF DeleteMemory, IndexStep, Deletes
<1>14. ASSUME NEW call \in calls, NEW amount \in 1..InitialBudget + 1, spendBudget(call, amount) PROVE IndexStep
  <2>1. PICK row : records' = [records EXCEPT ![BudgetKey] = row]
    BY <1>14 DEF spendBudget, Performs, put
  <2>2. UNCHANGED index /\ overtaken' = overtaken \cup {BudgetKey} /\ {BudgetKey} \in SUBSET Keys
    BY <1>14, <1>0, KeyFacts DEF spendBudget, Performs, put, oauthOnly, index
  <2>3. \A k \in Keys \ {BudgetKey} : textOf(records'[k]) = textOf(records[k])
    BY <2>1 DEF TypeOK
  <2>. QED  BY <2>2, <2>3 DEF IndexStep, Unindexed
<1>15. ASSUME NEW key \in ChosenKeys, NEW text \in Texts, Ingest(key, text) PROVE IndexStep
  <2>1. upsertMemory(key, memory(text, "caller", FALSE)) /\ key \in Keys /\ text \in Contents
    BY <1>15, KeyFacts DEF Ingest, Contents
  <2>. QED  BY <2>1 DEF IndexStep, Upserts
<1>16. ASSUME NEW e \in embedding, putEmbedding(e) PROVE IndexStep
  BY <1>16 DEF putEmbedding, IndexStep, Answers
<1>17. ASSUME NEW e \in embedding, EmbedderFails(e) PROVE IndexStep
  BY <1>17 DEF EmbedderFails, IndexStep, Fails
<1>18. ASSUME NEW f \in Facts, NEW consent \in BOOLEAN, processTurn(f, consent) PROVE IndexStep
  <2>1. upsertMemory(f, memory(f, "engine", consent)) /\ f \in Keys /\ f \in Contents
    BY <1>18, KeyFacts DEF processTurn, Contents
  <2>. QED  BY <2>1 DEF IndexStep, Upserts
<1>19. CASE UNCHANGED vars
  <2>1. UNCHANGED <<records, index>> /\ UNCHANGED overtaken
    BY <1>19 DEF vars, index
  <2>. QED  BY <2>1 DEF IndexStep, Leaves
<1>. QED  BY <1>1, <1>2, <1>3, <1>4, <1>5, <1>6, <1>7, <1>8, <1>9, <1>10, <1>11, <1>12, <1>13, <1>14, <1>15, <1>16, <1>17, <1>18, <1>19 DEF Next, OAuthNext, McpNext, StoreNext

-----------------------------------------------------------------------------
(* Types.                                                                  *)

\* The node starts with an empty table.
LEMMA NodeTypeInit == Init => TypeOK
<1>. SUFFICES ASSUME Init PROVE TypeOK
  OBVIOUS
<1>1. records \in [Keys -> Row] /\ embeddings \in [Keys -> Contents \cup {NoText}]
  BY DEF Init, Row
<1>2. nextId \in 1..MaxIds + 1
  BY NodeAssumption DEF Init
<1>. QED  BY <1>1, <1>2 DEF Init, TypeOK

\* The rows and the history of authority keep their types.
LEMMA RowTypeStep ==
    ASSUME TypeOK, RowStep
    PROVE  /\ records' \in [Keys -> Row] /\ nextId' \in 1..MaxIds + 1
           /\ consents' \subseteq Consent /\ issued' \subseteq Issue
<1>. records \in [Keys -> Row] /\ nextId \in 1..MaxIds + 1 /\ consents \subseteq Consent /\ issued \subseteq Issue
  BY DEF TypeOK
<1>. MaxIds \in Nat
  BY NodeAssumption
<1>1. CASE UNCHANGED <<records, history>> /\ Advances
  BY <1>1 DEF history, Advances
<1>2. CASE WritesPlain
  BY <1>2 DEF WritesPlain, history, Advances
<1>3. CASE Authorizes
  <2>1. \A c \in Clients, scope \in SUBSET ALLOWED_SCOPES :
           /\ [type |-> "code", clientId |-> c, scope |-> scope, expired |-> FALSE] \in Row
           /\ nextId \in Numbers => [id |-> nextId, clientId |-> c, scope |-> scope] \in Consent
    BY DEF Row, CodeRow, Consent
  <2>2. PICK c \in Clients, scope \in SUBSET ALLOWED_SCOPES :
           /\ nextId \in Numbers
           /\ records' = [records EXCEPT ![CodeKey(nextId)] = [type |-> "code", clientId |-> c, scope |-> scope, expired |-> FALSE]]
           /\ consents' = consents \cup {[id |-> nextId, clientId |-> c, scope |-> scope]}
           /\ nextId' = nextId + 1
           /\ UNCHANGED issued
    BY <1>3 DEF Authorizes
  <2>3. nextId' \in 1..MaxIds + 1
    BY <2>2 DEF Numbers
  <2>. DEFINE row == [type |-> "code", clientId |-> c, scope |-> scope, expired |-> FALSE]
              consent == [id |-> nextId, clientId |-> c, scope |-> scope]
  <2>4. /\ row \in Row /\ consent \in Consent
        /\ records' = [records EXCEPT ![CodeKey(nextId)] = row] /\ consents' = consents \cup {consent}
    BY <2>1, <2>2
  <2>. HIDE DEF row, consent
  <2>. QED  BY <2>2, <2>3, <2>4
<1>4. CASE Issues
  <2>1. PICK n \in Numbers :
           /\ nextId \in Numbers /\ records[CodeKey(n)].type = "code"
           /\ records' = [records EXCEPT ![CodeKey(n)] = NoRow,
                                         ![TokenKey(nextId)] = [type |-> "token", clientId |-> records[CodeKey(n)].clientId,
                                                                scope |-> records[CodeKey(n)].scope, expired |-> FALSE]]
           /\ issued' = issued \cup {[id |-> nextId, code |-> n, clientId |-> records[CodeKey(n)].clientId]}
           /\ nextId' = nextId + 1
           /\ UNCHANGED consents
    BY <1>4 DEF Issues
  <2>2. records[CodeKey(n)] \in CodeRow
    BY <2>1, KeyFacts, RowKinds
  <2>3. /\ [type |-> "token", clientId |-> records[CodeKey(n)].clientId,
            scope |-> records[CodeKey(n)].scope, expired |-> FALSE] \in Row
        /\ [id |-> nextId, code |-> n, clientId |-> records[CodeKey(n)].clientId] \in Issue
    BY <2>1, <2>2 DEF CodeRow, TokenRow, Row, Issue
  <2>4. NoRow \in Row
    BY DEF Row
  <2>5. nextId' \in 1..MaxIds + 1
    BY <2>1 DEF Numbers
  <2>. DEFINE row == [type |-> "token", clientId |-> records[CodeKey(n)].clientId,
                      scope |-> records[CodeKey(n)].scope, expired |-> FALSE]
              new == [id |-> nextId, code |-> n, clientId |-> records[CodeKey(n)].clientId]
  <2>6. /\ row \in Row /\ new \in Issue /\ issued' = issued \cup {new} /\ consents' = consents
        /\ records' = [records EXCEPT ![CodeKey(n)] = NoRow, ![TokenKey(nextId)] = row]
    BY <2>1, <2>3
  <2>. HIDE DEF row, new
  <2>. QED  BY <2>4, <2>5, <2>6
<1>5. CASE Ages
  BY <1>5, ExpiredRow DEF Ages, history
<1>. QED  BY <1>1, <1>2, <1>3, <1>4, <1>5 DEF RowStep

\* A token's scopes are scopes of the node.
LEMMA VerifiedScope == ASSUME TypeOK, NEW n \in Numbers PROVE verifyToken(n) \in SUBSET ALLOWED_SCOPES
<1>1. ASSUME records[TokenKey(n)].type = "token" PROVE records[TokenKey(n)].scope \in SUBSET ALLOWED_SCOPES
  <2>1. records[TokenKey(n)] \in TokenRow
    BY <1>1, KeyFacts, RowKinds DEF TypeOK
  <2>. QED  BY <2>1 DEF TokenRow
<1>. QED  BY <1>1 DEF verifyToken

\* Streams and calls keep their types.
LEMMA AccessTypeStep ==
    ASSUME TypeOK, AccessStep
    PROVE  /\ sessions' \subseteq Session /\ calls' \subseteq Call /\ introspects' \in BOOLEAN
           /\ performed' \subseteq [token : Numbers, tool : ALLOWED_SCOPES]
<1>. sessions \subseteq Session /\ calls \subseteq Call /\ performed \subseteq [token : Numbers, tool : ALLOWED_SCOPES]
  BY DEF TypeOK
<1>1. sessions' \subseteq Session
  BY VerifiedScope DEF AccessStep, Session
<1>2. calls' \subseteq Call
  BY DEF AccessStep, Session, Call
<1>3. performed' \subseteq [token : Numbers, tool : ALLOWED_SCOPES]
  BY DEF AccessStep, Call
<1>. QED  BY <1>1, <1>2, <1>3 DEF AccessStep, TypeOK

\* The index keeps its type.
LEMMA IndexTypeStep ==
    ASSUME TypeOK, IndexStep
    PROVE  /\ embeddings' \in [Keys -> Contents \cup {NoText}]
           /\ embedding' \subseteq [n : Numbers, key : Keys, text : Contents]
           /\ overtaken' \subseteq Keys
<1>. embedding \subseteq [n : Numbers, key : Keys, text : Contents] /\ embeddings \in [Keys -> Contents \cup {NoText}]
     /\ overtaken \subseteq Keys
  BY DEF TypeOK
<1>1. CASE Leaves \/ Unindexed
  BY <1>1 DEF Leaves, Unindexed, index
<1>2. CASE Upserts
  <2>1. PICK key \in Keys, text \in Contents, by \in {"caller", "engine"}, consent \in BOOLEAN :
           upsertMemory(key, memory(text, by, consent))
    BY <1>2 DEF Upserts
  <2>2. memory(text, by, consent).text = text
    BY MemoryIsRow
  <2>3. nextId \in Numbers
    BY <2>1, NodeAssumption DEF upsertMemory, TypeOK, Numbers
  <2>. QED  BY <2>1, <2>2, <2>3 DEF upsertMemory
<1>3. CASE Deletes
  BY <1>3 DEF Deletes, deleteMemory
<1>4. CASE Answers \/ Fails
  BY <1>4 DEF Answers, Fails
<1>. QED  BY <1>1, <1>2, <1>3, <1>4 DEF IndexStep

\* Every step keeps the node's type.
LEMMA NodeTypeStep == TypeOK /\ [Next]_vars => TypeOK'
<1>. SUFFICES ASSUME TypeOK, [Next]_vars PROVE TypeOK'
  OBVIOUS
<1>1. RowStep /\ AccessStep /\ IndexStep
  BY RowSteps, AccessSteps, IndexSteps
<1>. QED  BY <1>1, RowTypeStep, AccessTypeStep, IndexTypeStep DEF TypeOK

-----------------------------------------------------------------------------
(* Authority.                                                              *)

\* A code that is in the table has given no token.
CodesUnspent ==
    /\ \A n \in Numbers : records[CodeKey(n)].type = "code" => n < nextId /\ \A t \in issued : t.code # n
    /\ \A t \in issued : t.code < nextId

\* Some token with this number was issued for an authorization of these scopes.
Gives(n, scope) == \E t \in issued, c \in consents :
    t.id = n /\ t.code = c.id /\ t.clientId = c.clientId /\ c.scope = scope

\* Everything that carries rights goes back to an authorization that was given.
RightsGiven ==
    /\ \A n \in Numbers : records[CodeKey(n)].type = "code" =>
          \E c \in consents : c.id = n /\ c.clientId = records[CodeKey(n)].clientId /\ c.scope = records[CodeKey(n)].scope
    /\ \A n \in Numbers : records[TokenKey(n)].type = "token" => Gives(n, records[TokenKey(n)].scope)
    /\ introspects => \A s \in sessions \cup calls : s.scope = {} \/ Gives(s.token, s.scope)

\* The types of the rows a step writes.
LEMMA PlainRows ==
    ASSUME TypeOK, WritesPlain, NEW k \in Keys, records'[k].type \in {"code", "token"}
    PROVE  records'[k] = records[k]
BY DEF WritesPlain, TypeOK

\* A code in the table has given no token, step by step.
LEMMA CodesUnspentStep ==
    ASSUME TypeOK, CodesUnspent, CodeSpentOnce, RowStep
    PROVE  CodesUnspent' /\ CodeSpentOnce'
<1>. nextId \in Nat /\ records \in [Keys -> Row] /\ issued \subseteq Issue /\ (\A t \in issued : t.code \in Nat)
  BY NodeAssumption DEF TypeOK, Issue, Numbers
<1>. \A n \in Numbers : n \in Nat
  BY NodeAssumption DEF Numbers
<1>1. CASE UNCHANGED <<records, history>> /\ Advances
  BY <1>1 DEF CodesUnspent, CodeSpentOnce, history, Advances
<1>2. CASE WritesPlain
  <2>1. UNCHANGED issued /\ nextId' \in {nextId, nextId + 1}
    BY <1>2 DEF WritesPlain, history, Advances
  <2>2. \A n \in Numbers : records'[CodeKey(n)].type = "code" => records[CodeKey(n)].type = "code"
    BY <1>2, PlainRows, KeyFacts
  <2>. QED  BY <2>1, <2>2 DEF CodesUnspent, CodeSpentOnce
<1>3. CASE Authorizes
  <2>1. UNCHANGED issued /\ nextId' = nextId + 1 /\ nextId \in Numbers
    BY <1>3 DEF Authorizes
  <2>2. \A n \in Numbers : n # nextId => records'[CodeKey(n)] = records[CodeKey(n)]
    BY <1>3, <2>1, KeyFacts DEF Authorizes
  <2>. QED  BY <2>1, <2>2 DEF CodesUnspent, CodeSpentOnce
<1>4. CASE Issues
  <2>1. PICK n \in Numbers :
           /\ nextId \in Numbers /\ records[CodeKey(n)].type = "code"
           /\ records' = [records EXCEPT ![CodeKey(n)] = NoRow,
                                         ![TokenKey(nextId)] = [type |-> "token", clientId |-> records[CodeKey(n)].clientId,
                                                                scope |-> records[CodeKey(n)].scope, expired |-> FALSE]]
           /\ issued' = issued \cup {[id |-> nextId, code |-> n, clientId |-> records[CodeKey(n)].clientId]}
           /\ nextId' = nextId + 1
    BY <1>4 DEF Issues
  <2>2. \A m \in Numbers : m # n => records'[CodeKey(m)] = records[CodeKey(m)]
    BY <2>1, KeyFacts
  <2>3. records'[CodeKey(n)].type = "none"
    BY <2>1, KeyFacts DEF NoRow
  <2>. DEFINE new == [id |-> nextId, code |-> n, clientId |-> records[CodeKey(n)].clientId]
  <2>4. issued' = issued \cup {new} /\ new.code = n
    BY <2>1
  <2>. HIDE DEF new
  <2>5. n < nextId /\ \A t \in issued : t.code # n
    BY <2>1 DEF CodesUnspent
  <2>6. CodesUnspent'
    <3>1. nextId' = nextId + 1
      BY <2>1
    <3>2. ASSUME NEW m \in Numbers, records'[CodeKey(m)].type = "code" PROVE m < nextId' /\ \A t \in issued' : t.code # m
      <4>1. m # n /\ records[CodeKey(m)].type = "code"
        BY <2>2, <2>3, <3>2
      <4>. QED  BY <2>4, <3>1, <4>1 DEF CodesUnspent
    <3>3. \A t \in issued' : t.code < nextId'
      BY <2>4, <2>5, <3>1 DEF CodesUnspent
    <3>. QED  BY <3>2, <3>3 DEF CodesUnspent
  <2>7. CodeSpentOnce'
    BY <2>4, <2>5 DEF CodeSpentOnce
  <2>. QED  BY <2>6, <2>7
<1>5. CASE Ages
  <2>1. UNCHANGED <<issued, nextId>>
    BY <1>5 DEF Ages, history
  <2>2. \A k \in Keys : records'[k].type = records[k].type
    BY <1>5, ExpiredRow DEF Ages
  <2>. QED  BY <2>1, <2>2, KeyFacts DEF CodesUnspent, CodeSpentOnce
<1>. QED  BY <1>1, <1>2, <1>3, <1>4, <1>5 DEF RowStep

\* No step gives a row, a stream or a call rights that no authorization gave.
LEMMA RightsGivenStep == ASSUME TypeOK, RightsGiven, RowStep, AccessStep PROVE RightsGiven'
<1>. records \in [Keys -> Row]
  BY DEF TypeOK
<1>. DEFINE New(n, scope) == \E t \in issued', c \in consents' :
               t.id = n /\ t.code = c.id /\ t.clientId = c.clientId /\ c.scope = scope
            OldCode(r, n) == \E c \in consents : c.id = n /\ c.clientId = r.clientId /\ c.scope = r.scope
            NewCode(r, n) == \E c \in consents' : c.id = n /\ c.clientId = r.clientId /\ c.scope = r.scope
<1>1. consents \subseteq consents' /\ issued \subseteq issued'
  BY DEF RowStep, WritesPlain, Authorizes, Issues, Ages, history
<1>2. \A n, scope : Gives(n, scope) => New(n, scope)
  BY <1>1 DEF Gives
<1>3. \A r, n : OldCode(r, n) => NewCode(r, n)
  BY <1>1
<1>4. ASSUME introspects' PROVE \A s \in sessions' \cup calls' : s.scope = {} \/ New(s.token, s.scope)
  <2>0. introspects
    BY <1>4 DEF AccessStep
  <2>. HIDE DEF New
  <2>1. \A s \in sessions \cup calls : s.scope = {} \/ New(s.token, s.scope)
    BY <1>2, <2>0 DEF RightsGiven
  <2>2. \A n \in Numbers : verifyToken(n) = {} \/ New(n, verifyToken(n))
    BY <1>2, <2>0 DEF RightsGiven, verifyToken
  <2>3. ASSUME NEW s \in sessions' PROVE s.scope = {} \/ New(s.token, s.scope)
    BY <2>1, <2>2 DEF AccessStep
  <2>4. ASSUME NEW c \in calls' PROVE c.scope = {} \/ New(c.token, c.scope)
    BY <2>1 DEF AccessStep
  <2>. QED  BY <2>3, <2>4
<1>. DEFINE Rows == /\ \A n \in Numbers : records'[CodeKey(n)].type = "code" => NewCode(records'[CodeKey(n)], n)
                    /\ \A n \in Numbers : records'[TokenKey(n)].type = "token" => New(n, records'[TokenKey(n)].scope)
<1>5. /\ \A n \in Numbers : records[CodeKey(n)].type = "code" => NewCode(records[CodeKey(n)], n)
      /\ \A n \in Numbers : records[TokenKey(n)].type = "token" => New(n, records[TokenKey(n)].scope)
  BY <1>2, <1>3 DEF RightsGiven
<1>6. Rows
  <2>1. CASE UNCHANGED <<records, history>> /\ Advances
    BY <1>5, <2>1
  <2>2. CASE WritesPlain
    <3>. HIDE DEF New, NewCode
    <3>. QED  BY <1>5, <2>2, PlainRows, KeyFacts
  <2>3. CASE Authorizes
    <3>1. PICK c \in Clients, scope \in SUBSET ALLOWED_SCOPES :
             /\ nextId \in Numbers
             /\ records' = [records EXCEPT ![CodeKey(nextId)] = [type |-> "code", clientId |-> c, scope |-> scope, expired |-> FALSE]]
             /\ consents' = consents \cup {[id |-> nextId, clientId |-> c, scope |-> scope]}
      BY <2>3 DEF Authorizes
    <3>2. NewCode([type |-> "code", clientId |-> c, scope |-> scope, expired |-> FALSE], nextId)
      <4>. DEFINE k == [id |-> nextId, clientId |-> c, scope |-> scope]
      <4>1. k \in consents' /\ k.id = nextId /\ k.clientId = c /\ k.scope = scope
        BY <3>1
      <4>. HIDE DEF k
      <4>. QED  BY <4>1
    <3>3. records'[CodeKey(nextId)] = [type |-> "code", clientId |-> c, scope |-> scope, expired |-> FALSE]
      BY <3>1, KeyFacts
    <3>4. \A n \in Numbers : n # nextId => records'[CodeKey(n)] = records[CodeKey(n)]
      BY <3>1, KeyFacts
    <3>5. \A n \in Numbers : records'[TokenKey(n)] = records[TokenKey(n)]
      BY <3>1, KeyFacts
    <3>. HIDE DEF New, NewCode
    <3>. QED  BY <1>5, <3>2, <3>3, <3>4, <3>5
  <2>4. CASE Issues
    <3>1. PICK n \in Numbers :
             /\ nextId \in Numbers /\ records[CodeKey(n)].type = "code"
             /\ records' = [records EXCEPT ![CodeKey(n)] = NoRow,
                                           ![TokenKey(nextId)] = [type |-> "token", clientId |-> records[CodeKey(n)].clientId,
                                                                  scope |-> records[CodeKey(n)].scope, expired |-> FALSE]]
             /\ issued' = issued \cup {[id |-> nextId, code |-> n, clientId |-> records[CodeKey(n)].clientId]}
      BY <2>4 DEF Issues
    <3>2. New(nextId, records[CodeKey(n)].scope)
      <4>1. PICK c \in consents' : c.id = n /\ c.clientId = records[CodeKey(n)].clientId /\ c.scope = records[CodeKey(n)].scope
        BY <1>5, <3>1
      <4>. DEFINE t == [id |-> nextId, code |-> n, clientId |-> records[CodeKey(n)].clientId]
      <4>2. t \in issued' /\ t.id = nextId /\ t.code = n /\ t.clientId = records[CodeKey(n)].clientId
        BY <3>1
      <4>. HIDE DEF t
      <4>. QED  BY <4>1, <4>2
    <3>3. records'[TokenKey(nextId)].scope = records[CodeKey(n)].scope
      BY <3>1, KeyFacts
    <3>4. \A m \in Numbers : m # nextId => records'[TokenKey(m)] = records[TokenKey(m)]
      BY <3>1, KeyFacts
    <3>5. \A m \in Numbers : m # n => records'[CodeKey(m)] = records[CodeKey(m)]
      BY <3>1, KeyFacts
    <3>6. records'[CodeKey(n)].type = "none"
      BY <3>1, KeyFacts DEF NoRow
    <3>. HIDE DEF New, NewCode
    <3>. QED  BY <1>5, <3>2, <3>3, <3>4, <3>5, <3>6
  <2>5. CASE Ages
    <3>1. PICK key \in Keys : records[key].type \in {"code", "token"} /\ records' = [records EXCEPT ![key].expired = TRUE]
      BY <2>5 DEF Ages
    <3>2. LET x == records'[key] IN x.type = records[key].type /\ x.clientId = records[key].clientId /\ x.scope = records[key].scope
      BY <3>1, ExpiredRow
    <3>3. \A k \in Keys : /\ k # key => records'[k] = records[k]
                          /\ records'[k].type = records[k].type
                          /\ records[k].type \in {"code", "token"} =>
                                records'[k].clientId = records[k].clientId /\ records'[k].scope = records[k].scope
      BY <3>1, <3>2
    <3>4. \A n \in Numbers : NewCode(records[CodeKey(n)], n) /\ records[CodeKey(n)].type = "code" => NewCode(records'[CodeKey(n)], n)
      BY <3>3, KeyFacts
    <3>. HIDE DEF New, NewCode
    <3>. QED  BY <1>5, <3>3, <3>4, KeyFacts
  <2>. HIDE DEF Rows
  <2>. QED  BY <2>1, <2>2, <2>3, <2>4, <2>5 DEF RowStep
<1>. QED  BY <1>4, <1>6 DEF RightsGiven, Gives

\* A tool call runs with the scopes read for its token, so it stays within
\* consent.
LEMMA ActsStep == ASSUME RightsGiven, ActsWithinConsent, RowStep, AccessStep PROVE ActsWithinConsent'
<1>1. consents \subseteq consents' /\ issued \subseteq issued'
  BY DEF RowStep, WritesPlain, Authorizes, Issues, Ages, history
<1>2. ASSUME introspects, NEW p \in performed'
      PROVE  \E t \in issued, c \in consents : /\ t.id = p.token
                                               /\ t.code = c.id /\ t.clientId = c.clientId
                                               /\ p.tool \in c.scope
  <2>1. CASE p \in performed
    BY <1>2, <2>1 DEF ActsWithinConsent
  <2>2. ASSUME NEW call \in calls, authorizeTool(call), p = [token |-> call.token, tool |-> call.tool]
        PROVE  \E t \in issued, c \in consents : /\ t.id = p.token
                                                 /\ t.code = c.id /\ t.clientId = c.clientId
                                                 /\ p.tool \in c.scope
    <3>1. call.scope # {} /\ call.tool \in call.scope
      BY <2>2 DEF authorizeTool
    <3>2. Gives(call.token, call.scope)
      BY <1>2, <3>1 DEF RightsGiven
    <3>. QED  BY <2>2, <3>1, <3>2 DEF Gives
  <2>. QED  BY <2>1, <2>2 DEF AccessStep
<1>. QED  BY <1>1, <1>2 DEF ActsWithinConsent, AccessStep

-----------------------------------------------------------------------------
(* The index and the auto-saved facts.                                     *)

\* A memory that was not overtaken has at most one embedder call, made for its
\* text, and without one its embedding is current.
IndexCurrent == \A key \in Keys : key \notin overtaken =>
    /\ \A e \in embedding : e.key = key => e.text = textOf(records[key]) /\ \A d \in embedding : d.key = key => d = e
    /\ ~Awaited(key) => embeddings[key] = textOf(records[key])

\* A write leaves every other memory's index entry as it was.
LEMMA IndexUpsert ==
    ASSUME TypeOK, IndexCurrent, NEW key \in Keys, NEW row, row.type = "memory", upsertMemory(key, row)
    PROVE  IndexCurrent'
<1>. DEFINE new == [n |-> nextId, key |-> key, text |-> row.text]
<1>1. /\ embedding' = embedding \cup {new} /\ new.key = key /\ new.text = row.text
      /\ records' = [records EXCEPT ![key] = row] /\ embeddings' = embeddings
      /\ overtaken' = IF Awaited(key) THEN overtaken \cup {key} ELSE overtaken \ {key}
  BY DEF upsertMemory
<1>. HIDE DEF new
<1>. records \in [Keys -> Row]
  BY DEF TypeOK
<1>. SUFFICES ASSUME NEW m \in Keys, m \notin overtaken'
              PROVE  /\ \A e \in embedding' : e.key = m => e.text = textOf(records'[m]) /\ \A d \in embedding' : d.key = m => d = e
                     /\ ~(\E e \in embedding' : e.key = m) => embeddings'[m] = textOf(records'[m])
  BY DEF IndexCurrent, Awaited
<1>2. CASE m = key
  BY <1>1, <1>2 DEF Awaited, textOf
<1>3. CASE m # key
  BY <1>1, <1>3 DEF IndexCurrent, Awaited
<1>. QED  BY <1>2, <1>3

\* Every step keeps the index current.
LEMMA IndexCurrentStep == ASSUME TypeOK, IndexCurrent, IndexStep PROVE IndexCurrent'
<1>. records \in [Keys -> Row] /\ embeddings \in [Keys -> Contents \cup {NoText}]
  BY DEF TypeOK
<1>1. CASE Leaves
  BY <1>1 DEF Leaves, index, IndexCurrent, Awaited
<1>2. CASE Unindexed
  BY <1>2 DEF Unindexed, index, IndexCurrent, Awaited
<1>3. CASE Upserts
  <2>1. PICK key \in Keys, text \in Contents, by \in {"caller", "engine"}, consent \in BOOLEAN :
           upsertMemory(key, memory(text, by, consent))
    BY <1>3 DEF Upserts
  <2>2. memory(text, by, consent).type = "memory"
    BY MemoryIsRow
  <2>. QED  BY <2>1, <2>2, IndexUpsert
<1>4. ASSUME NEW key \in Keys, deleteMemory(key) PROVE IndexCurrent'
  <2>0. textOf(NoRow) = NoText
    BY DEF textOf, NoRow
  <2>1. /\ embedding' = embedding
        /\ records' = [records EXCEPT ![key] = NoRow]
        /\ embeddings' = [embeddings EXCEPT ![key] = NoText]
        /\ overtaken' = IF Awaited(key) THEN overtaken \cup {key} ELSE overtaken \ {key}
    BY <1>4 DEF deleteMemory
  <2>2. CASE Awaited(key)
    BY <2>1, <2>2 DEF IndexCurrent, Awaited
  <2>3. CASE ~Awaited(key)
    BY <2>0, <2>1, <2>3 DEF IndexCurrent, Awaited
  <2>. QED  BY <2>2, <2>3
<1>5. ASSUME NEW e \in embedding, embeddings' = [embeddings EXCEPT ![e.key] = e.text], embedding' = embedding \ {e},
             UNCHANGED <<records, overtaken>>
      PROVE  IndexCurrent'
  <2>1. e.key \in Keys
    BY DEF TypeOK
  <2>. QED  BY <1>5, <2>1 DEF IndexCurrent, Awaited
<1>6. ASSUME NEW e \in embedding, embedding' = embedding \ {e}, overtaken' = overtaken \cup {e.key},
             UNCHANGED <<records, embeddings>>
      PROVE  IndexCurrent'
  BY <1>6 DEF IndexCurrent, Awaited
<1>. QED  BY <1>1, <1>2, <1>3, <1>4, <1>5, <1>6 DEF IndexStep, Deletes, Answers, Fails

\* No step leaves a row of the engine's that its policy does not justify.
LEMMA SensitiveStep == ASSUME TypeOK, SensitiveNeedsConsent, RowStep PROVE SensitiveNeedsConsent'
<1>. records \in [Keys -> Row]
  BY DEF TypeOK
<1>1. \A key \in Keys : Justified(records[key])
  BY DEF SensitiveNeedsConsent, Justified
<1>2. ASSUME NEW key \in Keys PROVE Justified(records'[key])
  <2>1. CASE UNCHANGED <<records, history>> /\ Advances
    BY <1>1, <2>1
  <2>2. CASE WritesPlain
    <3>1. PICK k \in Keys, row \in Row :
             (Justified(records[k]) => Justified(row)) /\ records' = [records EXCEPT ![k] = row]
      BY <2>2 DEF WritesPlain
    <3>. QED  BY <1>1, <3>1
  <2>3. CASE Authorizes
    <3>1. PICK c \in Clients, scope \in SUBSET ALLOWED_SCOPES : records' =
             [records EXCEPT ![CodeKey(nextId)] = [type |-> "code", clientId |-> c, scope |-> scope, expired |-> FALSE]]
      BY <2>3 DEF Authorizes
    <3>2. Justified([type |-> "code", clientId |-> c, scope |-> scope, expired |-> FALSE])
      BY DEF Justified
    <3>. QED  BY <1>1, <3>1, <3>2
  <2>4. CASE Issues
    <3>1. PICK n \in Numbers : records' =
             [records EXCEPT ![CodeKey(n)] = NoRow,
                             ![TokenKey(nextId)] = [type |-> "token", clientId |-> records[CodeKey(n)].clientId,
                                                    scope |-> records[CodeKey(n)].scope, expired |-> FALSE]]
      BY <2>4 DEF Issues
    <3>2. \/ records'[key] = records[key] \/ records'[key] = NoRow
          \/ records'[key] = [type |-> "token", clientId |-> records[CodeKey(n)].clientId,
                              scope |-> records[CodeKey(n)].scope, expired |-> FALSE]
      BY <3>1
    <3>. QED  BY <1>1, <3>2 DEF Justified, NoRow
  <2>5. CASE Ages
    <3>1. \/ records'[key] = records[key] \/ records'[key].type \in {"code", "token"}
      BY <2>5, ExpiredRow DEF Ages
    <3>. QED  BY <1>1, <3>1 DEF Justified
  <2>. QED  BY <2>1, <2>2, <2>3, <2>4, <2>5 DEF RowStep
<1>. QED  BY <1>2 DEF SensitiveNeedsConsent, Justified

-----------------------------------------------------------------------------
(* Theorems.                                                               *)

NodeInv == /\ TypeOK
           /\ CodesUnspent /\ CodeSpentOnce
           /\ RightsGiven /\ ActsWithinConsent
           /\ IndexCurrent
           /\ SensitiveNeedsConsent

\* The conjunction is inductive.
LEMMA NodeInvariant == Spec => []NodeInv
<1>1. Init => NodeInv
  <2>. SUFFICES ASSUME Init PROVE NodeInv
    OBVIOUS
  <2>1. TypeOK
    BY NodeTypeInit
  <2>2. \A key \in Keys : records[key] = NoRow /\ NoRow.type = "none"
    BY DEF Init, NoRow
  <2>3. CodesUnspent /\ CodeSpentOnce /\ RightsGiven /\ ActsWithinConsent
    BY <2>2, KeyFacts DEF Init, CodesUnspent, CodeSpentOnce, RightsGiven, ActsWithinConsent
  <2>4. IndexCurrent
    BY <2>2 DEF Init, IndexCurrent, textOf
  <2>5. SensitiveNeedsConsent
    BY <2>2 DEF SensitiveNeedsConsent
  <2>. QED  BY <2>1, <2>3, <2>4, <2>5 DEF NodeInv
<1>2. NodeInv /\ [Next]_vars => NodeInv'
  BY NodeTypeStep, RowSteps, AccessSteps, IndexSteps, CodesUnspentStep, RightsGivenStep, ActsStep, IndexCurrentStep, SensitiveStep
     DEF NodeInv
<1>. QED  BY <1>1, <1>2, PTL DEF Spec

\* The node's rows are those its handlers write, whatever keys callers choose;
\* a budget that spendBudget keeps never goes below zero.
THEOREM NodeTypeCorrect == Spec => []TypeOK
BY NodeInvariant, PTL DEF NodeInv

\* handleToken: a code yields at most one token, also when memories are written
\* over codes.
THEOREM NodeCodeSpentOnce == Spec => []CodeSpentOnce
BY NodeInvariant, PTL DEF NodeInv

\* From handleAuthorize to authorizeTool: with introspection, no call that ran
\* went beyond what one authorization gave to the token's client, for any order
\* of requests, streams and expiries and any rows written by callers.
THEOREM NodeActsWithinConsent == Spec => []ActsWithinConsent
BY NodeInvariant, PTL DEF NodeInv

\* upsertMemory and deleteMemory: the index is exact for every key whose last
\* write did not overlap its embedder calls.
THEOREM NodeIndexExact == Spec => []IndexExact
<1>1. NodeInv => IndexExact
  BY DEF NodeInv, IndexCurrent, IndexExact
<1>. QED  BY <1>1, NodeInvariant, PTL

\* processTurn: of what the engine saved, nothing flagged or not salient is in
\* the table, and nothing sensitive without consent, whatever keys callers
\* choose.
THEOREM NodeSensitiveNeedsConsent == Spec => []SensitiveNeedsConsent
BY NodeInvariant, PTL DEF NodeInv
=============================================================================
