-------------------------- MODULE AuthTokensProofs ----------------------------
(* What AuthTokens guarantees for any users, requests, links and failures.   *)
EXTENDS AuthTokens, FiniteSetTheorems, TLAPS

Token == [user : Users, type : Types, used : BOOLEAN, expired : BOOLEAN, uses : Nat]

\* Every initial state has the types.
LEMMA InitType == Init => TypeOK
  BY TokenAssumption DEF Init, TypeOK, Steps

\* The row of one token is rewritten.
LEMMA RewriteType ==
  ASSUME tokens \in Seq(Token), NEW t \in DOMAIN tokens, NEW new \in Token,
         tokens' = [tokens EXCEPT ![t] = new]
  PROVE  /\ tokens' \in Seq(Token) /\ DOMAIN tokens' = DOMAIN tokens
         /\ Len(tokens') = Len(tokens)
         /\ tokens'[t] = new
         /\ \A s \in DOMAIN tokens \ {t} : tokens'[s] = tokens[s]
  OBVIOUS

\* What becomes of a row, whatever the step: it keeps its user and its type, and
\* is not used less than before.
Onward == /\ tokens' \in Seq(Token)
          /\ DOMAIN tokens \subseteq DOMAIN tokens' /\ Len(tokens) <= Len(tokens')
          /\ \A t \in DOMAIN tokens :
                /\ tokens'[t].user = tokens[t].user /\ tokens'[t].type = tokens[t].type
                /\ tokens[t].used => tokens'[t].used

\* The rows as a function on their numbers.
LEMMA Tokens ==
  ASSUME TypeOK
  PROVE  /\ tokens \in Seq(Token) /\ DOMAIN tokens = 1..Len(tokens) /\ Len(tokens) \in Nat
         /\ \A t \in DOMAIN tokens : tokens[t] \in Token
<1>1. tokens \in Seq(Token)
  BY DEF TypeOK, Token
<1> QED BY <1>1

\* Rows that stay as they are.
LEMMA SameOnward == ASSUME TypeOK, UNCHANGED tokens PROVE Onward
  BY Tokens DEF Onward

LEMMA RetireOnward ==
  ASSUME TypeOK, NEW r \in Requests, RetireTokens(r)
  PROVE  /\ Onward /\ Len(tokens') = Len(tokens)
         /\ \A t \in DOMAIN tokens :
               /\ tokens'[t].uses = tokens[t].uses
               /\ Matches(t, user[r], type[r]) => tokens'[t].used
               /\ ~Matches(t, user[r], type[r]) => tokens'[t] = tokens[t]
<1> DEFINE new(t) == IF Matches(t, user[r], type[r]) THEN [tokens[t] EXCEPT !.used = TRUE]
                     ELSE tokens[t]
<1>1. ASSUME NEW t \in DOMAIN tokens
      PROVE  /\ new(t) \in Token /\ new(t).user = tokens[t].user
             /\ new(t).type = tokens[t].type /\ new(t).uses = tokens[t].uses
             /\ tokens[t].used => new(t).used
             /\ Matches(t, user[r], type[r]) => new(t).used
             /\ ~Matches(t, user[r], type[r]) => new(t) = tokens[t]
  <2>1. tokens[t] \in Token
    BY Tokens
  <2>2. CASE Matches(t, user[r], type[r])
    BY <2>1, <2>2 DEF Token
  <2>3. CASE ~Matches(t, user[r], type[r])
    BY <2>1, <2>3
  <2> QED BY <2>2, <2>3
<1>2. tokens' = [t \in DOMAIN tokens |-> new(t)]
  BY DEF RetireTokens
<1> HIDE DEF new
<1>3. tokens' \in Seq(Token) /\ Len(tokens') = Len(tokens) /\ DOMAIN tokens' = DOMAIN tokens
  BY <1>1, <1>2, Tokens
<1> QED BY <1>1, <1>2, <1>3, Tokens DEF Onward

\* The new row is the last one, and unused.
LEMMA InsertOnward ==
  ASSUME TypeOK, NEW r \in Requests, InsertToken(r)
  PROVE  /\ Onward /\ Len(tokens') = Len(tokens) + 1
         /\ DOMAIN tokens' = DOMAIN tokens \cup {Len(tokens')}
         /\ Len(tokens') \notin DOMAIN tokens
         /\ \A t \in DOMAIN tokens : tokens'[t] = tokens[t]
         /\ tokens'[Len(tokens')].user = user[r] /\ tokens'[Len(tokens')].type = type[r]
         /\ ~tokens'[Len(tokens')].used /\ tokens'[Len(tokens')].uses = 0
<1> DEFINE new == [user |-> user[r], type |-> type[r], used |-> FALSE,
                   expired |-> FALSE, uses |-> 0]
<1>1. new \in Token /\ new.user = user[r] /\ new.type = type[r] /\ new.uses = 0
  BY DEF InsertToken, TypeOK, Token
<1>2. ~new.used
  OBVIOUS
<1>3. tokens' = Append(tokens, new)
  BY DEF InsertToken
<1> HIDE DEF new
<1>4. /\ tokens' \in Seq(Token) /\ Len(tokens') = Len(tokens) + 1
      /\ DOMAIN tokens' = 1..(Len(tokens) + 1)
      /\ \A t \in DOMAIN tokens : tokens'[t] = tokens[t]
      /\ tokens'[Len(tokens')] = new
  BY <1>1, <1>3, Tokens
<1> QED BY <1>1, <1>2, <1>4, Tokens DEF Onward

LEMMA ExpireOnward ==
  ASSUME TypeOK, NEW t \in DOMAIN tokens, Expire(t)
  PROVE  /\ Onward /\ Len(tokens') = Len(tokens)
         /\ \A s \in DOMAIN tokens : /\ tokens'[s].uses = tokens[s].uses
                                     /\ tokens'[s].used = tokens[s].used
<1> DEFINE new == [tokens[t] EXCEPT !.expired = TRUE]
<1>1. tokens[t] \in Token
  BY Tokens
<1>2. /\ new \in Token /\ new.user = tokens[t].user /\ new.type = tokens[t].type
      /\ new.uses = tokens[t].uses /\ new.used = tokens[t].used
  BY <1>1 DEF Token
<1>3. tokens' = [tokens EXCEPT ![t] = new]
  BY DEF Expire
<1> HIDE DEF new
<1> QED BY <1>2, <1>3, RewriteType, Tokens DEF Onward

\* A use is counted for the token of the request.
LEMMA WriteOnward ==
  ASSUME TypeOK, NEW r \in Requests, WriteUser(r)
  PROVE  /\ Onward /\ Len(tokens') = Len(tokens)
         /\ token[r] \in DOMAIN tokens
         /\ tokens'[token[r]].uses = tokens[token[r]].uses + 1
         /\ \A s \in DOMAIN tokens : /\ tokens'[s].used = tokens[s].used
                                     /\ s # token[r] => tokens'[s] = tokens[s]
<1> DEFINE new == [tokens[token[r]] EXCEPT !.uses = @ + 1]
<1>1. token[r] \in DOMAIN tokens
  BY DEF WriteUser, TypeOK
<1>2. tokens[token[r]] \in Token
  BY <1>1, Tokens
<1>3. /\ new \in Token /\ new.user = tokens[token[r]].user
      /\ new.type = tokens[token[r]].type
      /\ new.uses = tokens[token[r]].uses + 1 /\ new.used = tokens[token[r]].used
  BY <1>2 DEF Token
<1>4. tokens' = [tokens EXCEPT ![token[r]] = new]
  BY DEF WriteUser
<1> HIDE DEF new
<1> QED BY <1>1, <1>3, <1>4, RewriteType, Tokens DEF Onward

LEMMA MarkOnward ==
  ASSUME TypeOK, NEW r \in Requests, Mark(r)
  PROVE  /\ Onward /\ Len(tokens') = Len(tokens)
         /\ token[r] \in DOMAIN tokens /\ tokens'[token[r]].used
         /\ tokens'[token[r]].uses = tokens[token[r]].uses
         /\ \A s \in DOMAIN tokens : s # token[r] => tokens'[s] = tokens[s]
<1> DEFINE new == [tokens[token[r]] EXCEPT !.used = TRUE]
<1>1. token[r] \in DOMAIN tokens
  BY DEF Mark, TypeOK
<1>2. tokens[token[r]] \in Token
  BY <1>1, Tokens
<1>3. /\ new \in Token /\ new.user = tokens[token[r]].user
      /\ new.type = tokens[token[r]].type /\ new.uses = tokens[token[r]].uses
      /\ new.used
  BY <1>2 DEF Token
<1>4. tokens' = [tokens EXCEPT ![token[r]] = new]
  BY DEF Mark
<1> HIDE DEF new
<1> QED BY <1>1, <1>3, <1>4, RewriteType, Tokens DEF Onward

-----------------------------------------------------------------------------
\* What TypeOK says of the locals of one request, after a step.
LocalsOf(q) ==
    /\ pc[q] \in Steps /\ user[q] \in Users \cup {NoUser}
    /\ type[q] \in Types \cup {NoType} /\ token[q] \in 0..Len(tokens)
    /\ pc[q] # "idle" => user[q] \in Users /\ type[q] \in Types
    /\ pc[q] \in {"mail", "write", "mark"} =>
          token[q] # 0 /\ Matches(token[q], user[q], type[q])

\* Only the locals of one request change.
OnlyLocalsOf(r) ==
    /\ pc' = [pc EXCEPT ![r] = pc'[r]] /\ user' = [user EXCEPT ![r] = user'[r]]
    /\ type' = [type EXCEPT ![r] = type'[r]] /\ token' = [token EXCEPT ![r] = token'[r]]

\* The locals of a request stay right while the rows go on.
LEMMA LocalsKept ==
  ASSUME TypeOK, Onward, NEW q \in Requests,
         pc'[q] = pc[q], user'[q] = user[q], type'[q] = type[q], token'[q] = token[q]
  PROVE  LocalsOf(q)'
<1>1. LocalsOf(q) /\ (token[q] # 0 => token[q] \in DOMAIN tokens) /\ Len(tokens) \in Nat
  BY DEF TypeOK, LocalsOf
<1>2. Len(tokens') \in Nat
  BY DEF Onward
<1> QED BY <1>1, <1>2 DEF Onward, LocalsOf, Matches

LEMMA LocalsStep ==
  ASSUME TypeOK, Onward, NEW r \in Requests, OnlyLocalsOf(r), LocalsOf(r)'
  PROVE  /\ pc' \in [Requests -> Steps] /\ user' \in [Requests -> Users \cup {NoUser}]
         /\ type' \in [Requests -> Types \cup {NoType}]
         /\ token' \in [Requests -> 0..Len(tokens')]
         /\ \A q \in Requests : LocalsOf(q)'
<1>1. /\ DOMAIN pc' = Requests /\ DOMAIN user' = Requests /\ DOMAIN type' = Requests
      /\ DOMAIN token' = Requests
  BY DEF TypeOK, OnlyLocalsOf
<1>2. ASSUME NEW q \in Requests PROVE LocalsOf(q)'
  <2>1. CASE q = r
    BY <2>1
  <2>2. CASE q # r
    <3>1. /\ pc'[q] = pc[q] /\ user'[q] = user[q] /\ type'[q] = type[q]
          /\ token'[q] = token[q]
      BY <2>2 DEF OnlyLocalsOf, TypeOK
    <3> QED BY <3>1, LocalsKept
  <2> QED BY <2>1, <2>2
<1>3. \A q \in Requests : /\ pc'[q] \in Steps /\ user'[q] \in Users \cup {NoUser}
                          /\ type'[q] \in Types \cup {NoType}
                          /\ token'[q] \in 0..Len(tokens')
  BY <1>2 DEF LocalsOf
<1>4. /\ pc' = [q \in Requests |-> pc'[q]] /\ user' = [q \in Requests |-> user'[q]]
      /\ type' = [q \in Requests |-> type'[q]] /\ token' = [q \in Requests |-> token'[q]]
  BY <1>1 DEF TypeOK, OnlyLocalsOf
<1> QED BY <1>2, <1>3, <1>4

\* A request that is answered has no locals.
LEMMA AnswerLocals ==
  ASSUME TypeOK, Onward, NEW r \in Requests, Answer(r)
  PROVE  OnlyLocalsOf(r) /\ LocalsOf(r)' /\ pc'[r] = "idle"
<1>1. Len(tokens') \in Nat
  BY DEF Onward
<1>2. pc'[r] = "idle" /\ user'[r] = NoUser /\ type'[r] = NoType /\ token'[r] = 0
  BY DEF Answer, Goto, TypeOK
<1>3. OnlyLocalsOf(r)
  BY <1>2 DEF Answer, Goto, OnlyLocalsOf
<1> QED BY <1>1, <1>2, <1>3 DEF LocalsOf, Steps

\* The types of a step of one request.
LEMMA StepType ==
  ASSUME TypeOK, Onward, NEW r \in Requests, OnlyLocalsOf(r), LocalsOf(r)',
         account' \in [Users -> {"none", "unverified", "verified"}],
         mailed' \subseteq DOMAIN tokens', failed' \in 0..MaxFailed, lost' \subseteq Users
  PROVE  TypeOK'
<1>1. tokens' \in Seq(Token)
  BY DEF Onward
<1> QED BY <1>1, LocalsStep DEF TypeOK, LocalsOf, Token

\* Every step keeps the types, and the rows go on.
LEMMA NextType == TypeOK /\ [Next]_vars => TypeOK' /\ Onward
<1> SUFFICES ASSUME TypeOK, [Next]_vars PROVE TypeOK' /\ Onward
  OBVIOUS
<1> USE DEF rows, locals
<1>0. /\ mailed \subseteq DOMAIN tokens /\ failed \in 0..MaxFailed /\ lost \subseteq Users
      /\ account \in [Users -> {"none", "unverified", "verified"}]
      /\ Len(tokens) \in Nat
  BY DEF TypeOK
<1>1. ASSUME NEW r \in Requests, NEW u \in Users, NEW ty \in Types,
             Begin(r, "user", u, ty) \/ Begin(r, "retire", u, ty)
      PROVE  TypeOK' /\ Onward
  <2>1. Onward
    BY <1>1, SameOnward DEF Begin
  <2>2. /\ pc'[r] \in {"user", "retire"} /\ user'[r] = u /\ type'[r] = ty
        /\ token'[r] = token[r] /\ tokens' = tokens
    BY <1>1 DEF Begin, Goto, TypeOK
  <2>3. OnlyLocalsOf(r)
    BY <1>1, <2>2 DEF Begin, Goto, OnlyLocalsOf, TypeOK
  <2>4. LocalsOf(r)'
    BY <2>2 DEF LocalsOf, Steps, TypeOK
  <2>5. UNCHANGED <<account, mailed, failed, lost, tokens>>
    BY <1>1 DEF Begin
  <2> QED BY <1>0, <2>1, <2>3, <2>4, <2>5, StepType
<1>2. ASSUME NEW r \in Requests, CreateUser(r) PROVE TypeOK' /\ Onward
  <2>1. Onward
    BY <1>2, SameOnward DEF CreateUser
  <2>2. /\ pc[r] = "user" /\ pc'[r] = "retire" /\ user'[r] = user[r] /\ type'[r] = type[r]
        /\ token'[r] = token[r] /\ tokens' = tokens
    BY <1>2 DEF CreateUser, InsertUser, Goto, TypeOK
  <2>3. OnlyLocalsOf(r)
    BY <1>2, <2>2 DEF CreateUser, Goto, OnlyLocalsOf, TypeOK
  <2>4. LocalsOf(r)'
    BY <2>2 DEF LocalsOf, Steps, TypeOK
  <2>5. /\ account' \in [Users -> {"none", "unverified", "verified"}]
        /\ UNCHANGED <<mailed, failed, lost, tokens>>
    BY <1>0, <1>2 DEF CreateUser, InsertUser
  <2> QED BY <1>0, <2>1, <2>3, <2>4, <2>5, StepType
<1>3. ASSUME NEW r \in Requests, RefuseUser(r) PROVE TypeOK' /\ Onward
  <2>1. Onward /\ Answer(r) /\ UNCHANGED <<account, mailed, failed, lost, tokens>>
    BY <1>3, SameOnward DEF RefuseUser
  <2> QED BY <1>0, <2>1, AnswerLocals, StepType
<1>4. ASSUME NEW r \in Requests, Retire(r) PROVE TypeOK' /\ Onward
  <2>1. Onward /\ Len(tokens') = Len(tokens)
    BY <1>4, RetireOnward DEF Retire
  <2>2. /\ pc[r] = "retire" /\ pc'[r] = "insert" /\ user'[r] = user[r] /\ type'[r] = type[r]
        /\ token'[r] = token[r]
    BY <1>4 DEF Retire, RetireTokens, Goto, TypeOK
  <2>3. OnlyLocalsOf(r)
    BY <1>4, <2>2 DEF Retire, Goto, OnlyLocalsOf, TypeOK
  <2>4. LocalsOf(r)'
    BY <2>1, <2>2 DEF LocalsOf, Steps, TypeOK
  <2>5. UNCHANGED <<account, mailed, failed, lost>>
    BY <1>4 DEF Retire
  <2>6. mailed' \subseteq DOMAIN tokens'
    BY <1>0, <2>1, <2>5 DEF Onward
  <2> QED BY <1>0, <2>1, <2>3, <2>4, <2>5, <2>6, StepType
<1>5. ASSUME NEW r \in Requests, Insert(r) PROVE TypeOK' /\ Onward
  <2>1. /\ Onward /\ Len(tokens') = Len(tokens) + 1
        /\ tokens'[Len(tokens')].user = user[r] /\ tokens'[Len(tokens')].type = type[r]
    BY <1>5, InsertOnward DEF Insert
  <2>2. /\ pc[r] = "insert" /\ pc'[r] = "mail" /\ user'[r] = user[r] /\ type'[r] = type[r]
        /\ token'[r] = Len(tokens')
    BY <1>5 DEF Insert, InsertToken, Goto, TypeOK
  <2>3. OnlyLocalsOf(r)
    BY <1>5, <2>2 DEF Insert, Goto, OnlyLocalsOf, TypeOK
  <2>4. LocalsOf(r)'
    <3>1. user[r] \in Users /\ type[r] \in Types
      BY <2>2 DEF TypeOK
    <3> QED BY <1>0, <2>1, <2>2, <3>1 DEF LocalsOf, Steps, Matches
  <2>5. UNCHANGED <<account, mailed, failed, lost>>
    BY <1>5 DEF Insert
  <2>6. mailed' \subseteq DOMAIN tokens'
    BY <1>0, <2>1, <2>5 DEF Onward
  <2> QED BY <1>0, <2>1, <2>3, <2>4, <2>5, <2>6, StepType
<1>6. ASSUME NEW r \in Requests, SendMail(r) PROVE TypeOK' /\ Onward
  <2>1. Onward /\ Answer(r) /\ UNCHANGED <<account, failed, lost, tokens>>
    BY <1>6, SameOnward DEF SendMail
  <2>2. mailed' \subseteq DOMAIN tokens'
    BY <1>6, <2>1 DEF SendMail, TypeOK
  <2> QED BY <1>0, <2>1, <2>2, AnswerLocals, StepType
<1>7. ASSUME NEW r \in Requests, NEW t \in mailed, NEW ty \in Types, Open(r, t, ty)
      PROVE  TypeOK' /\ Onward
  <2>1. Onward /\ tokens' = tokens
    BY <1>7, SameOnward DEF Open
  <2>2. /\ pc'[r] = "write" /\ user'[r] = tokens[t].user /\ type'[r] = ty
        /\ token'[r] = t /\ tokens[t].type = ty
    BY <1>7 DEF Open, FindValid, Goto, TypeOK
  <2>3. OnlyLocalsOf(r)
    BY <1>7, <2>2 DEF Open, Goto, OnlyLocalsOf, TypeOK
  <2>4. LocalsOf(r)'
    <3>1. t \in DOMAIN tokens
      BY <1>0
    <3>2. t \in 1..Len(tokens) /\ tokens[t].user \in Users
      BY <3>1, Tokens DEF Token
    <3> QED BY <2>1, <2>2, <3>2 DEF LocalsOf, Steps, Matches
  <2>5. UNCHANGED <<account, mailed, failed, lost>>
    BY <1>7 DEF Open
  <2> QED BY <1>0, <2>1, <2>3, <2>4, <2>5, StepType
<1>8. ASSUME NEW r \in Requests, WriteUser(r)
      PROVE  /\ account' \in [Users -> {"none", "unverified", "verified"}]
             /\ Onward /\ Len(tokens') = Len(tokens)
  BY <1>0, <1>8, WriteOnward DEF WriteUser
<1>9. ASSUME NEW r \in Requests, Write(r) PROVE TypeOK' /\ Onward
  <2>1. /\ account' \in [Users -> {"none", "unverified", "verified"}]
        /\ Onward /\ Len(tokens') = Len(tokens)
    BY <1>8, <1>9 DEF Write
  <2>2. /\ pc[r] = "write" /\ pc'[r] = "mark" /\ user'[r] = user[r] /\ type'[r] = type[r]
        /\ token'[r] = token[r]
    BY <1>9 DEF Write, WriteUser, Goto, TypeOK
  <2>3. OnlyLocalsOf(r)
    BY <1>9, <2>2 DEF Write, Goto, OnlyLocalsOf, TypeOK
  <2>4. LocalsOf(r)'
    <3>1. /\ token[r] # 0 /\ token[r] \in DOMAIN tokens /\ user[r] \in Users
          /\ type[r] \in Types /\ Matches(token[r], user[r], type[r])
          /\ token[r] \in 0..Len(tokens)
      BY <2>2 DEF TypeOK
    <3> QED BY <2>1, <2>2, <3>1 DEF LocalsOf, Steps, Matches, Onward
  <2>5. UNCHANGED <<mailed, failed, lost>>
    BY <1>9 DEF Write
  <2>6. mailed' \subseteq DOMAIN tokens'
    BY <1>0, <2>1, <2>5 DEF Onward
  <2> QED BY <1>0, <2>1, <2>3, <2>4, <2>5, <2>6, StepType
<1>10. ASSUME NEW r \in Requests, Mark(r) PROVE TypeOK' /\ Onward
  <2>1. Onward /\ Answer(r) /\ UNCHANGED <<account, mailed, failed, lost>>
    BY <1>10, MarkOnward DEF Mark
  <2>2. mailed' \subseteq DOMAIN tokens'
    BY <1>0, <2>1 DEF Onward
  <2> QED BY <1>0, <2>1, <2>2, AnswerLocals, StepType
<1>11. ASSUME NEW r \in Requests, Fail(r) PROVE TypeOK' /\ Onward
  <2>1. /\ account' \in [Users -> {"none", "unverified", "verified"}]
        /\ Onward /\ mailed' \subseteq DOMAIN tokens'
    <3>1. CASE UNCHANGED rows
      BY <1>0, <3>1, SameOnward
    <3>2. CASE InsertUser(r) /\ UNCHANGED <<tokens, mailed>>
      BY <1>0, <3>2, SameOnward DEF InsertUser
    <3>3. CASE InsertToken(r) /\ UNCHANGED <<account, mailed>>
      BY <1>0, <3>3, InsertOnward DEF Onward
    <3>4. CASE WriteUser(r) /\ UNCHANGED mailed
      BY <1>0, <3>4, <1>8 DEF Onward
    <3>5. CASE /\ pc[r] = "mail" /\ mailed' = mailed \cup {token[r]}
               /\ UNCHANGED <<account, tokens>>
      <4>1. token[r] \in DOMAIN tokens
        BY <3>5 DEF TypeOK
      <4> QED BY <1>0, <3>5, <4>1, SameOnward
    <3> QED BY <1>11, <3>1, <3>2, <3>3, <3>4, <3>5 DEF Fail
  <2>2. failed' \in 0..MaxFailed
    BY <1>0, <1>11, TokenAssumption DEF Fail
  <2>3. lost' \subseteq Users
    <3>1. user[r] \in Users
      BY <1>11 DEF Fail, TypeOK
    <3> QED BY <1>0, <1>11, <3>1 DEF Fail
  <2>4. Answer(r)
    BY <1>11 DEF Fail
  <2> QED BY <2>1, <2>2, <2>3, <2>4, AnswerLocals, StepType
<1>12. ASSUME NEW t \in DOMAIN tokens, Expire(t) PROVE TypeOK' /\ Onward
  <2>1. Onward /\ UNCHANGED <<account, mailed, locals, failed, lost>>
    BY <1>12, ExpireOnward DEF Expire
  <2>2. \A q \in Requests : LocalsOf(q)'
    BY <2>1, LocalsKept
  <2>3. tokens' \in Seq(Token) /\ mailed' \subseteq DOMAIN tokens' /\ Len(tokens') = Len(tokens)
    BY <1>0, <1>12, <2>1, ExpireOnward DEF Onward
  <2> QED BY <2>1, <2>2, <2>3 DEF TypeOK, LocalsOf, Token
<1>13. CASE Crash
  <2>1. Onward /\ UNCHANGED rows
    BY <1>13, SameOnward DEF Crash
  <2>2. /\ pc' = [r \in Requests |-> "idle"] /\ user' = [r \in Requests |-> NoUser]
        /\ type' = [r \in Requests |-> NoType] /\ token' = [r \in Requests |-> 0]
    BY <1>13 DEF Crash
  <2>3. failed' \in 0..MaxFailed
    <3> DEFINE busy == {r \in Requests : pc[r] # "idle"}
    <3>1. Cardinality(busy) \in Nat
      BY TokenAssumption, FS_Subset, FS_CardinalityType
    <3>2. failed + Cardinality(busy) <= MaxFailed /\ failed' = failed + Cardinality(busy)
      BY <1>13 DEF Crash
    <3> HIDE DEF busy
    <3> QED BY <1>0, <3>1, <3>2, TokenAssumption
  <2>4. lost' \subseteq Users
    <3>1. \A r \in Stranded : user[r] \in Users
      BY DEF Stranded, TypeOK
    <3> QED BY <1>0, <1>13, <3>1 DEF Crash
  <2> QED BY <1>0, <2>1, <2>2, <2>3, <2>4 DEF TypeOK, Steps
<1>14. CASE UNCHANGED vars
  BY <1>14, SameOnward DEF TypeOK, vars, Matches
<1> QED
  <2>1. ASSUME NEW r \in Requests, NEW u \in Users, Register(r, u) \/ RequestReset(r, u)
        PROVE  TypeOK' /\ Onward
    BY <1>1, <2>1 DEF Register, RequestReset, Types
  <2> QED BY <1>2, <1>3, <1>4, <1>5, <1>6, <1>7, <1>9, <1>10, <1>11, <1>12, <1>13, <1>14,
             <2>1 DEF Next

-----------------------------------------------------------------------------
\* The sets that UnusedBound counts are finite.
LEMMA Finite ==
  ASSUME TypeOK, NEW u, NEW ty
  PROVE  /\ IsFiniteSet(Unused(u, ty)) /\ Cardinality(Unused(u, ty)) \in Nat
         /\ IsFiniteSet(Inserting(u, ty)) /\ Cardinality(Inserting(u, ty)) \in Nat
         /\ Cardinality(Inserting(u, ty)) <= Cardinality(Requests)
         /\ Cardinality(Requests) \in Nat
<1>1. DOMAIN tokens = 1..Len(tokens) /\ Len(tokens) \in Int
  BY Tokens
<1>2. IsFiniteSet(DOMAIN tokens)
  BY <1>1, FS_Interval
<1>3. IsFiniteSet(Unused(u, ty))
  BY <1>2, FS_Subset DEF Unused
<1>4. IsFiniteSet(Inserting(u, ty)) /\ Cardinality(Inserting(u, ty)) <= Cardinality(Requests)
  BY TokenAssumption, FS_Subset DEF Inserting
<1> QED BY <1>3, <1>4, TokenAssumption, FS_CardinalityType

\* What UnusedBound says of one user and one type.
UnusedBoundOf(u, ty) ==
    Cardinality(Unused(u, ty)) + Cardinality(Inserting(u, ty)) <= Cardinality(Requests)

\* A step that adds no unused link and no request that inserts one.
LEMMA UnusedLess ==
  ASSUME TypeOK, TypeOK', NEW u, NEW ty, UnusedBoundOf(u, ty),
         Unused(u, ty)' \subseteq Unused(u, ty), Inserting(u, ty)' \subseteq Inserting(u, ty)
  PROVE  UnusedBoundOf(u, ty)'
<1>1. /\ Cardinality(Unused(u, ty)') <= Cardinality(Unused(u, ty))
      /\ Cardinality(Inserting(u, ty)') <= Cardinality(Inserting(u, ty))
  BY Finite, FS_Subset
<1>2. Cardinality(Unused(u, ty)') \in Nat /\ Cardinality(Inserting(u, ty)') \in Nat
  BY Finite, FS_Subset, FS_CardinalityType
<1> QED BY <1>1, <1>2, Finite DEF UnusedBoundOf

\* Links that were there and are used stay so.
LEMMA UnusedSame ==
  ASSUME TypeOK, Onward, Len(tokens') = Len(tokens), NEW u, NEW ty
  PROVE  Unused(u, ty)' \subseteq Unused(u, ty)
<1>1. DOMAIN tokens' = DOMAIN tokens
  BY Tokens DEF Onward
<1> QED BY <1>1 DEF Unused, Onward, Matches

\* The insert trades a request that has still to insert for an unused link.
LEMMA InsertTrades ==
  ASSUME TypeOK, NEW r \in Requests, InsertToken(r), NEW u, NEW ty, UnusedBoundOf(u, ty),
         OnlyLocalsOf(r), pc'[r] # "insert"
  PROVE  UnusedBoundOf(u, ty)'
<1>1. pc[r] = "insert"
  BY DEF InsertToken
<1>2. Inserting(u, ty)' = Inserting(u, ty) \ {r}
  BY DEF Inserting, OnlyLocalsOf, TypeOK
<1>3. CASE user[r] = u /\ type[r] = ty
  <2>1. /\ Unused(u, ty)' = Unused(u, ty) \cup {Len(tokens')}
        /\ Len(tokens') \notin Unused(u, ty)
    BY <1>3, InsertOnward DEF Unused, Matches
  <2>2. r \in Inserting(u, ty)
    BY <1>1, <1>3 DEF Inserting
  <2>3. Cardinality(Inserting(u, ty)') = Cardinality(Inserting(u, ty)) - 1
    BY <1>2, <2>2, Finite, FS_RemoveElement
  <2>4. Cardinality(Unused(u, ty)') = Cardinality(Unused(u, ty)) + 1
    BY <2>1, Finite, FS_AddElement
  <2> QED BY <2>3, <2>4, Finite DEF UnusedBoundOf
<1>4. CASE ~(user[r] = u /\ type[r] = ty)
  <2>1. Unused(u, ty)' = Unused(u, ty)
    BY <1>4, InsertOnward DEF Unused, Matches
  <2>2. Inserting(u, ty)' = Inserting(u, ty)
    BY <1>2, <1>4 DEF Inserting
  <2> QED BY <2>1, <2>2 DEF UnusedBoundOf
<1> QED BY <1>3, <1>4

\* Every step keeps the bound on unused links.
LEMMA NextUnused == TypeOK /\ UnusedBound /\ [Next]_vars => UnusedBound'
<1> SUFFICES ASSUME TypeOK, UnusedBound, [Next]_vars, NEW u \in Users, NEW ty \in Types
             PROVE  UnusedBoundOf(u, ty)'
  BY DEF UnusedBound, UnusedBoundOf
<1> USE DEF rows, locals
<1>1. TypeOK' /\ Onward /\ UnusedBoundOf(u, ty)
  BY NextType DEF UnusedBound, UnusedBoundOf
<1>2. ASSUME Inserting(u, ty)' \subseteq Inserting(u, ty), Len(tokens') = Len(tokens)
      PROVE  UnusedBoundOf(u, ty)'
  BY <1>1, <1>2, UnusedSame, UnusedLess
<1>3. ASSUME NEW r \in Requests, Answer(r) PROVE Inserting(u, ty)' \subseteq Inserting(u, ty)
  BY <1>3 DEF Answer, Goto, Inserting, TypeOK
<1>4. ASSUME NEW r \in Requests, Insert(r) \/ (Fail(r) /\ InsertToken(r))
      PROVE  UnusedBoundOf(u, ty)'
  <2>1. InsertToken(r) /\ (Answer(r) \/ (Goto(r, "mail") /\ UNCHANGED <<user, type>>
                                      /\ token' = [token EXCEPT ![r] = Len(tokens')]))
    BY <1>4 DEF Insert, Fail
  <2>2. OnlyLocalsOf(r) /\ pc'[r] # "insert"
    BY <2>1 DEF Answer, Goto, OnlyLocalsOf, TypeOK
  <2> QED BY <1>1, <2>1, <2>2, InsertTrades
<1>5. ASSUME NEW r \in Requests, Retire(r) PROVE UnusedBoundOf(u, ty)'
  <2>1. /\ Len(tokens') = Len(tokens) /\ pc[r] = "retire"
        /\ Inserting(u, ty)' \subseteq Inserting(u, ty) \cup {r}
    BY <1>5, RetireOnward DEF Retire, RetireTokens, Goto, Inserting, TypeOK
  <2>2. CASE user[r] = u /\ type[r] = ty
    <3>1. DOMAIN tokens' = DOMAIN tokens
      BY <1>1, <2>1, Tokens DEF Onward
    <3>2. Unused(u, ty)' = {}
      BY <1>1, <1>5, <2>2, <3>1, RetireOnward DEF Retire, Unused, Matches, Onward
    <3>3. /\ Cardinality(Unused(u, ty)') = 0
          /\ Cardinality(Inserting(u, ty)') <= Cardinality(Requests)
          /\ Cardinality(Inserting(u, ty)') \in Nat /\ Cardinality(Requests) \in Nat
      <4>1. Inserting(u, ty)' \subseteq Requests
        BY DEF Inserting
      <4> QED BY <3>2, <4>1, TokenAssumption, FS_EmptySet, FS_Subset, FS_CardinalityType
    <3> QED BY <3>3 DEF UnusedBoundOf
  <2>3. CASE ~(user[r] = u /\ type[r] = ty)
    <3>1. Inserting(u, ty)' \subseteq Inserting(u, ty)
      BY <1>5, <2>1, <2>3 DEF Retire, Inserting
    <3> QED BY <1>2, <2>1, <3>1
  <2> QED BY <2>2, <2>3
<1>6. ASSUME NEW r \in Requests,
             \/ \E v \in Users : Register(r, v) \/ RequestReset(r, v)
             \/ CreateUser(r)
             \/ \E t \in mailed, tt \in Types : Open(r, t, tt)
      PROVE  UnusedBoundOf(u, ty)'
  <2>1. tokens' = tokens /\ pc' \in {[pc EXCEPT ![r] = p] : p \in {"user", "retire", "write"}}
    BY <1>6 DEF Register, RequestReset, Begin, CreateUser, Open, Goto
  <2>2. \A q \in Requests : pc'[q] = "insert" =>
                               pc[q] = "insert" /\ user'[q] = user[q] /\ type'[q] = type[q]
    BY <1>6 DEF Register, RequestReset, Begin, CreateUser, Open, Goto, TypeOK
  <2> QED BY <1>2, <2>1, <2>2 DEF Inserting
<1>7. ASSUME NEW r \in Requests, RefuseUser(r) \/ SendMail(r) \/ Mark(r)
      PROVE  UnusedBoundOf(u, ty)'
  BY <1>2, <1>3, <1>7, MarkOnward DEF RefuseUser, SendMail, Mark
<1>8. ASSUME NEW r \in Requests, Write(r) PROVE UnusedBoundOf(u, ty)'
  <2>1. Len(tokens') = Len(tokens)
    BY <1>8, WriteOnward DEF Write
  <2>2. Inserting(u, ty)' \subseteq Inserting(u, ty)
    BY <1>8 DEF Write, Goto, Inserting, TypeOK
  <2> QED BY <1>2, <2>1, <2>2
<1>9. ASSUME NEW r \in Requests, Fail(r) PROVE UnusedBoundOf(u, ty)'
  <2>1. CASE InsertToken(r)
    BY <1>4, <1>9, <2>1
  <2>2. CASE WriteUser(r) \/ UNCHANGED tokens
    <3>1. Len(tokens') = Len(tokens)
      BY <2>2, WriteOnward
    <3> QED BY <1>2, <1>3, <1>9, <3>1 DEF Fail
  <2> QED BY <1>9, <2>1, <2>2 DEF Fail
<1>10. ASSUME NEW t \in DOMAIN tokens, Expire(t) PROVE UnusedBoundOf(u, ty)'
  BY <1>2, <1>10, ExpireOnward DEF Expire, Inserting
<1>11. CASE Crash \/ UNCHANGED vars
  BY <1>2, <1>11 DEF Crash, vars, Inserting
<1> QED BY <1>4, <1>5, <1>6, <1>7, <1>8, <1>9, <1>10, <1>11 DEF Next

-----------------------------------------------------------------------------
\* What UsesInv says of one link.
UsesOf(t) == /\ tokens[t].uses + Cardinality(Writing(t)) <= Cardinality(Requests) + failed
             /\ ~tokens[t].used => tokens[t].uses <= Cardinality(Marking(t)) + failed

\* The requests that use a link are among the requests.
LEMMA UsesOfLink ==
  ASSUME NEW t
  PROVE  /\ IsFiniteSet(Writing(t)) /\ Cardinality(Writing(t)) \in Nat
         /\ IsFiniteSet(Marking(t)) /\ Cardinality(Marking(t)) \in Nat
         /\ Cardinality(Requests) \in Nat
         /\ Cardinality(Writing(t)) + Cardinality(Marking(t)) <= Cardinality(Requests)
<1>1. IsFiniteSet(Writing(t)) /\ IsFiniteSet(Marking(t))
  BY TokenAssumption, FS_Subset DEF Writing, Marking
<1>2. Writing(t) \cap Marking(t) = {} /\ Writing(t) \cup Marking(t) \subseteq Requests
  BY DEF Writing, Marking
<1>3. Cardinality(Writing(t) \cup Marking(t)) <= Cardinality(Requests)
  BY <1>2, TokenAssumption, FS_Subset
<1>4. /\ Cardinality(Writing(t)) \in Nat /\ Cardinality(Marking(t)) \in Nat
      /\ Cardinality(Requests) \in Nat
  BY <1>1, TokenAssumption, FS_CardinalityType
<1>5. Cardinality(Writing(t) \cup Marking(t)) = Cardinality(Writing(t)) + Cardinality(Marking(t))
  <2>1. Cardinality(Writing(t) \cup Marking(t))
          = Cardinality(Writing(t)) + Cardinality(Marking(t)) - Cardinality(Writing(t) \cap Marking(t))
    BY <1>1, FS_Union
  <2>2. Cardinality(Writing(t) \cap Marking(t)) = 0
    BY <1>2, FS_EmptySet
  <2> QED BY <2>1, <2>2, <1>4
<1> QED BY <1>1, <1>3, <1>4, <1>5

\* A step in which the link is used no more and loses none that will mark it.
LEMMA UsesKept ==
  ASSUME TypeOK, TypeOK', NEW t \in DOMAIN tokens, UsesOf(t),
         tokens'[t].uses = tokens[t].uses, tokens[t].used => tokens'[t].used,
         Writing(t)' \subseteq Writing(t), Marking(t) \subseteq Marking(t)',
         failed <= failed'
  PROVE  UsesOf(t)'
<1>1. Cardinality(Writing(t)') <= Cardinality(Writing(t))
  BY UsesOfLink, FS_Subset
<1>2. IsFiniteSet(Marking(t)')
  BY TokenAssumption, FS_Subset DEF Marking
<1>3. Cardinality(Marking(t)) <= Cardinality(Marking(t)')
  BY <1>2, FS_Subset
<1>4. Cardinality(Writing(t)') \in Nat /\ Cardinality(Marking(t)') \in Nat
  BY <1>2, <1>1, UsesOfLink, FS_Subset, FS_CardinalityType
<1>5. tokens[t].uses \in Nat /\ failed \in Nat /\ failed' \in Nat
  BY Tokens DEF Token, TypeOK
<1> QED BY <1>1, <1>3, <1>4, <1>5, UsesOfLink DEF UsesOf

\* A link that is new has no use and no request that uses it.
LEMMA UsesNew ==
  ASSUME TypeOK, TypeOK', NEW r \in Requests, InsertToken(r), OnlyLocalsOf(r),
         pc'[r] \notin {"write", "mark"}, NEW n, n = Len(tokens')
  PROVE  UsesOf(n)'
<1>1. tokens'[n].uses = 0 /\ n = Len(tokens) + 1 /\ Len(tokens) \in Nat
  BY InsertOnward, Tokens
<1>2. \A q \in Requests : token[q] # n
  BY <1>1 DEF TypeOK
<1>3. \A q \in Requests : q # r => pc'[q] = pc[q] /\ token'[q] = token[q]
  BY DEF OnlyLocalsOf, TypeOK
<1>4. ASSUME NEW q \in Requests PROVE ~(pc'[q] \in {"write", "mark"} /\ token'[q] = n)
  BY <1>2, <1>3
<1>5. {q \in Requests : pc'[q] = "write" /\ token'[q] = n} = {}
  BY <1>4
<1>6. {q \in Requests : pc'[q] = "mark" /\ token'[q] = n} = {}
  BY <1>4
<1>7. failed' \in Nat /\ Cardinality(Requests) \in Nat
  BY TokenAssumption, FS_CardinalityType DEF TypeOK
<1>8. Cardinality(Writing(n)') = 0 /\ Cardinality(Marking(n)') = 0
  BY <1>5, <1>6, FS_EmptySet DEF Writing, Marking
<1> QED BY <1>1, <1>7, <1>8 DEF UsesOf

\* Requests before and after a step outside of the use of links.
LEMMA Outside ==
  ASSUME TypeOK, NEW r \in Requests, OnlyLocalsOf(r), NEW t,
         pc[r] \notin {"write", "mark"}, pc'[r] \notin {"write", "mark"}
  PROVE  Writing(t)' = Writing(t) /\ Marking(t)' = Marking(t)
<1>1. \A q \in Requests : q # r => pc'[q] = pc[q] /\ token'[q] = token[q]
  BY DEF OnlyLocalsOf, TypeOK
<1> QED BY <1>1 DEF Writing, Marking

\* Every step keeps what is said of the uses.
LEMMA NextUses == TypeOK /\ UsesInv /\ [Next]_vars => UsesInv'
<1> SUFFICES ASSUME TypeOK, UsesInv, [Next]_vars, NEW t \in DOMAIN tokens'
             PROVE  UsesOf(t)'
  BY DEF UsesInv, UsesOf
<1> USE DEF rows, locals
<1>1. TypeOK' /\ Onward
  BY NextType
<1>2. t \in DOMAIN tokens => UsesOf(t)
  BY DEF UsesInv, UsesOf
<1>3. ASSUME NEW r \in Requests, Answer(r)
      PROVE  /\ OnlyLocalsOf(r) /\ pc'[r] = "idle"
             /\ Writing(t)' = Writing(t) \ {r} /\ Marking(t)' = Marking(t) \ {r}
  <2>1. OnlyLocalsOf(r) /\ pc'[r] = "idle"
    BY <1>1, <1>3, AnswerLocals
  <2>2. \A q \in Requests : q # r => pc'[q] = pc[q] /\ token'[q] = token[q]
    BY <2>1 DEF OnlyLocalsOf, TypeOK
  <2> QED BY <2>1, <2>2 DEF Writing, Marking
<1>4. ASSUME t \in DOMAIN tokens, tokens'[t].uses = tokens[t].uses,
             Writing(t)' \subseteq Writing(t), Marking(t) \subseteq Marking(t)',
             failed <= failed'
      PROVE  UsesOf(t)'
  BY <1>1, <1>2, <1>4, UsesKept DEF Onward
<1>5. failed \in Nat /\ failed' \in Nat
  BY <1>1 DEF TypeOK
<1>6. ASSUME NEW r \in Requests, Insert(r) \/ (Fail(r) /\ InsertToken(r))
      PROVE  UsesOf(t)'
  <2>1. /\ OnlyLocalsOf(r) /\ pc'[r] \notin {"write", "mark"}
        /\ pc[r] = "insert" /\ InsertToken(r) /\ failed <= failed'
    <3>1. CASE Insert(r)
      BY <1>5, <3>1 DEF Insert, InsertToken, Goto, OnlyLocalsOf, TypeOK
    <3>2. CASE Fail(r) /\ InsertToken(r)
      BY <1>3, <1>5, <3>2 DEF Fail, InsertToken
    <3> QED BY <1>6, <3>1, <3>2
  <2>2. CASE t \in DOMAIN tokens
    <3>1. tokens'[t] = tokens[t]
      BY <2>1, <2>2, InsertOnward
    <3> QED BY <1>4, <2>1, <2>2, <3>1, Outside
  <2>3. CASE t \notin DOMAIN tokens
    <3>1. t = Len(tokens')
      BY <2>1, <2>3, InsertOnward
    <3> QED BY <1>1, <2>1, <3>1, UsesNew
  <2> QED BY <2>2, <2>3
<1>7. ASSUME NEW r \in Requests,
             \/ \E u \in Users : Register(r, u) \/ RequestReset(r, u)
             \/ CreateUser(r) \/ Retire(r)
      PROVE  UsesOf(t)'
  <2>1. /\ OnlyLocalsOf(r) /\ failed' = failed
        /\ pc[r] \notin {"write", "mark"} /\ pc'[r] \notin {"write", "mark"}
    <3>1. CASE \E u \in Users : Register(r, u) \/ RequestReset(r, u)
      BY <3>1 DEF Register, RequestReset, Begin, Goto, OnlyLocalsOf, TypeOK
    <3>2. CASE CreateUser(r)
      BY <3>2 DEF CreateUser, InsertUser, Goto, OnlyLocalsOf, TypeOK
    <3>3. CASE Retire(r)
      BY <3>3 DEF Retire, RetireTokens, Goto, OnlyLocalsOf, TypeOK
    <3> QED BY <1>7, <3>1, <3>2, <3>3
  <2>2. t \in DOMAIN tokens /\ tokens'[t].uses = tokens[t].uses
    <3>1. CASE Retire(r)
      <4>1. DOMAIN tokens' = DOMAIN tokens
        BY <1>1, <3>1, RetireOnward, Tokens DEF Retire, Onward
      <4> QED BY <3>1, <4>1, RetireOnward DEF Retire
    <3>2. CASE UNCHANGED tokens
      BY <3>2
    <3> QED BY <1>7, <3>1, <3>2 DEF Register, RequestReset, Begin, CreateUser
  <2> QED BY <1>4, <1>5, <2>1, <2>2, Outside
<1>8. ASSUME NEW r \in Requests, RefuseUser(r) \/ SendMail(r) PROVE UsesOf(t)'
  <2>1. /\ Answer(r) /\ pc[r] \notin {"write", "mark"} /\ failed' = failed
        /\ tokens' = tokens
    BY <1>8 DEF RefuseUser, SendMail
  <2> QED BY <1>3, <1>4, <1>5, <2>1, Outside
<1>9. ASSUME NEW r \in Requests, NEW s \in mailed, NEW ty \in Types, Open(r, s, ty)
      PROVE  UsesOf(t)'
  <2>1. /\ pc[r] = "idle" /\ ~tokens[s].used /\ tokens' = tokens /\ failed' = failed
        /\ pc' = [pc EXCEPT ![r] = "write"] /\ token' = [token EXCEPT ![r] = s]
    BY <1>9 DEF Open, FindValid, Goto
  <2>2. \A q \in Requests : q # r => pc'[q] = pc[q] /\ token'[q] = token[q]
    BY <2>1 DEF TypeOK
  <2>3. pc'[r] = "write" /\ token'[r] = s
    BY <2>1 DEF TypeOK
  <2>4. Marking(t)' = Marking(t) /\ r \notin Marking(t) /\ r \notin Writing(t)
    BY <2>1, <2>2, <2>3 DEF Marking, Writing
  <2>5. CASE s = t
    <3>1. Writing(t)' = Writing(t) \cup {r}
      BY <2>2, <2>3, <2>5 DEF Writing
    <3>2. Cardinality(Writing(t)') = Cardinality(Writing(t)) + 1
      BY <2>4, <3>1, UsesOfLink, FS_AddElement
    <3>3. Cardinality(Writing(t)') + Cardinality(Marking(t)) <= Cardinality(Requests)
      <4>1. /\ Writing(t)' \cap Marking(t) = {} /\ Writing(t)' \cup Marking(t) \subseteq Requests
            /\ IsFiniteSet(Writing(t)')
        <5>1. IsFiniteSet(Writing(t)')
          BY <3>1, UsesOfLink, FS_AddElement
        <5>2. /\ Writing(t) \cap Marking(t) = {}
              /\ Writing(t) \subseteq Requests /\ Marking(t) \subseteq Requests
          BY DEF Writing, Marking
        <5> QED BY <2>4, <3>1, <5>1, <5>2
      <4>2. Cardinality(Writing(t)' \cup Marking(t)) <= Cardinality(Requests)
        BY <4>1, TokenAssumption, FS_Subset
      <4>3. Cardinality(Writing(t)' \cup Marking(t))
              = Cardinality(Writing(t)') + Cardinality(Marking(t))
                  - Cardinality(Writing(t)' \cap Marking(t))
        BY <4>1, UsesOfLink, FS_Union
      <4>4. Cardinality(Writing(t)' \cap Marking(t)) = 0
        BY <4>1, FS_EmptySet
      <4> QED BY <3>2, <4>2, <4>3, <4>4, UsesOfLink
    <3>4. t \in DOMAIN tokens /\ tokens[t].uses \in Nat /\ ~tokens[t].used
      BY <2>1, <2>5, Tokens DEF Token
    <3> QED BY <1>2, <1>5, <2>1, <2>4, <3>2, <3>3, <3>4, UsesOfLink DEF UsesOf
  <2>6. CASE s # t
    <3>1. Writing(t)' = Writing(t)
      BY <2>1, <2>2, <2>3, <2>6 DEF Writing
    <3> QED BY <1>4, <1>5, <2>1, <2>4, <3>1
  <2> QED BY <2>5, <2>6
<1>10. ASSUME NEW r \in Requests, WriteUser(r), token[r] = t,
              Writing(t)' = Writing(t) \ {r}, failed <= failed',
              \/ Marking(t)' = Marking(t) \cup {r}
              \/ Marking(t)' = Marking(t) /\ failed' = failed + 1
       PROVE  UsesOf(t)'
  <2>1. r \in Writing(t) /\ r \notin Marking(t)
    BY <1>10 DEF WriteUser, Writing, Marking
  <2>2. Cardinality(Writing(t)') = Cardinality(Writing(t)) - 1
    BY <1>10, <2>1, UsesOfLink, FS_RemoveElement
  <2>3. \/ Cardinality(Marking(t)') = Cardinality(Marking(t)) + 1
        \/ Cardinality(Marking(t)') = Cardinality(Marking(t)) /\ failed' = failed + 1
    BY <1>10, <2>1, UsesOfLink, FS_AddElement
  <2>4. /\ t \in DOMAIN tokens /\ tokens'[t].uses = tokens[t].uses + 1
        /\ tokens'[t].used = tokens[t].used
    BY <1>10, WriteOnward
  <2>5. tokens[t].uses \in Nat
    BY <2>4, Tokens DEF Token
  <2> QED BY <1>2, <1>5, <1>10, <2>2, <2>3, <2>4, <2>5, UsesOfLink DEF UsesOf
<1>11. ASSUME NEW r \in Requests, Write(r) PROVE UsesOf(t)'
  <2>1. /\ WriteUser(r) /\ pc[r] = "write" /\ failed' = failed /\ token' = token
        /\ pc' = [pc EXCEPT ![r] = "mark"]
    BY <1>11 DEF Write, WriteUser, Goto
  <2>2. /\ pc'[r] = "mark"
        /\ \A q \in Requests : q # r => pc'[q] = pc[q]
    BY <2>1 DEF TypeOK
  <2>3. CASE token[r] = t
    <3>1. Writing(t)' = Writing(t) \ {r} /\ Marking(t)' = Marking(t) \cup {r}
      BY <2>1, <2>2, <2>3 DEF Writing, Marking
    <3> QED BY <1>5, <1>10, <2>1, <2>3, <3>1
  <2>4. CASE token[r] # t
    <3>1. Writing(t)' = Writing(t) /\ Marking(t)' = Marking(t)
      BY <2>1, <2>2, <2>4 DEF Writing, Marking
    <3>2. t \in DOMAIN tokens /\ tokens'[t] = tokens[t]
      <4>1. DOMAIN tokens' = DOMAIN tokens
        BY <1>1, <2>1, WriteOnward, Tokens DEF Onward
      <4> QED BY <2>1, <2>4, <4>1, WriteOnward
    <3> QED BY <1>4, <1>5, <2>1, <3>1, <3>2
  <2> QED BY <2>3, <2>4
<1>12. ASSUME NEW r \in Requests, Mark(r) PROVE UsesOf(t)'
  <2>1. /\ Answer(r) /\ pc[r] = "mark" /\ failed' = failed
    BY <1>12 DEF Mark
  <2>2. Writing(t)' = Writing(t) /\ Marking(t)' = Marking(t) \ {r}
    BY <1>3, <2>1 DEF Writing
  <2>3. /\ t \in DOMAIN tokens /\ tokens'[t].uses = tokens[t].uses
        /\ token[r] = t => tokens'[t].used
    <3>1. DOMAIN tokens' = DOMAIN tokens
      BY <1>1, <1>12, MarkOnward, Tokens DEF Onward
    <3> QED BY <1>12, <3>1, MarkOnward
  <2>4. CASE token[r] = t
    <3>1. tokens'[t].used
      BY <2>3, <2>4
    <3> QED BY <1>2, <2>1, <2>2, <2>3, <3>1 DEF UsesOf
  <2>5. CASE token[r] # t
    <3>1. Marking(t)' = Marking(t)
      BY <2>2, <2>5 DEF Marking
    <3> QED BY <1>4, <1>5, <2>1, <2>2, <2>3, <3>1
  <2> QED BY <2>4, <2>5
<1>13. ASSUME NEW r \in Requests, Fail(r) PROVE UsesOf(t)'
  <2>1. /\ Answer(r) /\ failed' = failed + 1
        /\ Writing(t)' = Writing(t) \ {r} /\ Marking(t)' = Marking(t) \ {r}
    BY <1>3, <1>13 DEF Fail
  <2>2. CASE InsertToken(r)
    BY <1>6, <1>13, <2>2
  <2>3. CASE WriteUser(r) /\ token[r] = t
    <3>1. Marking(t)' = Marking(t) /\ failed <= failed'
      BY <1>5, <2>1, <2>3 DEF WriteUser, Marking
    <3> QED BY <1>10, <2>1, <2>3, <3>1
  <2>4. CASE UNCHANGED tokens \/ (WriteUser(r) /\ token[r] # t)
    <3>1. t \in DOMAIN tokens /\ tokens'[t] = tokens[t]
      <4>1. DOMAIN tokens' = DOMAIN tokens
        BY <1>1, <2>4, WriteOnward, Tokens DEF Onward
      <4> QED BY <2>4, <4>1, WriteOnward
    <3>2. Cardinality(Writing(t)') <= Cardinality(Writing(t)) /\ Cardinality(Writing(t)') \in Nat
      BY <2>1, UsesOfLink, FS_Subset, FS_CardinalityType
    <3>3. /\ Cardinality(Marking(t)) <= Cardinality(Marking(t)') + 1
          /\ Cardinality(Marking(t)') \in Nat
      <4>1. IsFiniteSet(Marking(t)) /\ Cardinality(Marking(t)) \in Nat
        BY UsesOfLink
      <4>2. /\ IsFiniteSet(Marking(t) \ {r})
            /\ \/ Cardinality(Marking(t) \ {r}) = Cardinality(Marking(t)) - 1
               \/ Cardinality(Marking(t) \ {r}) = Cardinality(Marking(t))
        BY <4>1, FS_RemoveElement
      <4>3. Cardinality(Marking(t) \ {r}) \in Nat
        BY <4>2, FS_CardinalityType
      <4> QED BY <2>1, <4>1, <4>2, <4>3
    <3>4. tokens[t].uses \in Nat
      BY <3>1, Tokens DEF Token
    <3> QED BY <1>2, <1>5, <2>1, <3>1, <3>2, <3>3, <3>4, UsesOfLink DEF UsesOf
  <2> QED BY <1>13, <2>2, <2>3, <2>4 DEF Fail
<1>14. ASSUME NEW s \in DOMAIN tokens, Expire(s) PROVE UsesOf(t)'
  <2>1. DOMAIN tokens' = DOMAIN tokens
    BY <1>1, <1>14, ExpireOnward, Tokens DEF Onward
  <2>2. tokens'[t].uses = tokens[t].uses
    BY <1>14, <2>1, ExpireOnward
  <2> QED BY <1>4, <1>5, <1>14, <2>1, <2>2 DEF Expire, Writing, Marking
<1>15. CASE Crash
  <2> DEFINE busy == {q \in Requests : pc[q] # "idle"}
  <2>1. /\ tokens' = tokens /\ failed' = failed + Cardinality(busy)
        /\ pc' = [q \in Requests |-> "idle"]
    BY <1>15 DEF Crash
  <2>2. Writing(t)' = {} /\ Marking(t)' = {}
    BY <2>1 DEF Writing, Marking
  <2>3. Cardinality(Writing(t)') = 0 /\ Cardinality(Marking(t)') = 0
    BY <2>2, FS_EmptySet
  <2>4. Marking(t) \subseteq busy /\ busy \subseteq Requests
    BY DEF Marking
  <2>5. Cardinality(Marking(t)) <= Cardinality(busy) /\ Cardinality(busy) \in Nat
    BY <2>4, TokenAssumption, FS_Subset, FS_CardinalityType
  <2> HIDE DEF busy
  <2>6. tokens[t].uses \in Nat /\ t \in DOMAIN tokens
    BY <2>1, Tokens DEF Token
  <2> QED BY <1>2, <1>5, <2>1, <2>3, <2>5, <2>6, UsesOfLink DEF UsesOf
<1>16. CASE UNCHANGED vars
  BY <1>2, <1>16 DEF vars, UsesOf, Writing, Marking
<1> QED BY <1>6, <1>7, <1>8, <1>9, <1>11, <1>12, <1>13, <1>14, <1>15, <1>16 DEF Next

-----------------------------------------------------------------------------
\* Why an unverified user keeps his link: a link that confirms is used only by
\* those who verify, and replaced by none, since nobody registers twice.
ConfirmInv ==
    /\ \A r \in Stranded : account[user[r]] # "none"
    /\ \A r, q \in Stranded : user[r] = user[q] => r = q
    /\ \A r \in Stranded, t \in DOMAIN tokens :
          pc[r] # "mail" => ~Matches(t, user[r], "EMAIL_CONFIRMATION")
    /\ \A t \in DOMAIN tokens :
          tokens[t].type = "EMAIL_CONFIRMATION" =>
             /\ account[tokens[t].user] # "none"
             /\ tokens[t].used => account[tokens[t].user] = "verified"
    /\ \A r \in Requests :
          /\ pc[r] = "mark" /\ type[r] = "EMAIL_CONFIRMATION" => account[user[r]] = "verified"
          /\ pc[r] = "user" => type[r] = "EMAIL_CONFIRMATION"

\* The types and the bounds are inductive invariants.
LEMMA AlwaysTokenInv == Spec => [](TypeOK /\ UnusedBound /\ UsesInv)
<1>1. Init => UnusedBound /\ UsesInv
  <2> SUFFICES ASSUME Init PROVE UnusedBound /\ UsesInv
    OBVIOUS
  <2>1. DOMAIN tokens = {} /\ \A r \in Requests : pc[r] = "idle"
    BY DEF Init
  <2>2. ASSUME NEW u \in Users, NEW ty \in Types PROVE UnusedBoundOf(u, ty)
    <3>1. Unused(u, ty) = {} /\ Inserting(u, ty) = {}
      BY <2>1 DEF Unused, Inserting
    <3> QED BY <3>1, TokenAssumption, FS_EmptySet, FS_CardinalityType DEF UnusedBoundOf
  <2> QED BY <2>1, <2>2 DEF UnusedBound, UnusedBoundOf, UsesInv
<1> QED BY <1>1, InitType, NextType, NextUnused, NextUses, PTL DEF Spec

\* Users, links and requests are well typed: a request that writes has a token
\* of its user, whose type is the one it asked for.
THEOREM TypeCorrect == Spec => []TypeOK
<1> QED BY AlwaysTokenInv, PTL

\* As many links of a user and a type are unused as requests run at once.
THEOREM UnusedAreBounded == Spec => []UnusedBound
<1> QED BY AlwaysTokenInv, PTL

\* A link has one use for each request in flight and for each that failed.
THEOREM UsesAreBounded == Spec => []UsesBound
<1>1. TypeOK /\ UsesInv => UsesBound
  <2> SUFFICES ASSUME TypeOK, UsesInv, NEW t \in DOMAIN tokens
               PROVE  tokens[t].uses <= Cardinality(Requests) + failed
    BY DEF UsesBound
  <2>1. tokens[t].uses \in Nat /\ failed \in Nat
    BY Tokens DEF Token, TypeOK
  <2> QED BY <2>1, UsesOfLink DEF UsesInv
<1> QED BY <1>1, AlwaysTokenInv, PTL

\* One request at a time, and none that fails: a link is used once.
THEOREM OneAtATimeUsesLinksOnce ==
  ASSUME Cardinality(Requests) = 1, MaxFailed = 0
  PROVE  Spec => [](\A t \in DOMAIN tokens : tokens[t].uses <= 1)
<1>1. TypeOK /\ UsesBound => \A t \in DOMAIN tokens : tokens[t].uses <= 1
  <2> SUFFICES ASSUME TypeOK, UsesBound, NEW t \in DOMAIN tokens PROVE tokens[t].uses <= 1
    OBVIOUS
  <2>1. tokens[t].uses \in Nat /\ failed = 0
    BY Tokens DEF Token, TypeOK
  <2> QED BY <2>1 DEF UsesBound
<1> QED BY <1>1, UsesAreBounded, TypeCorrect, PTL

-----------------------------------------------------------------------------
\* Most steps register no user, insert no link of theirs and mail none: no user
\* becomes unverified, ...
CalmUsers ==
    \A u \in Users : /\ account[u] # "none" => account'[u] # "none"
                     /\ account[u] = "verified" => account'[u] = "verified"
                     /\ account'[u] = "unverified" => account[u] = "unverified"
\* ... no registration begins, and one that ends is lost, ...
CalmStranded ==
    /\ lost \subseteq lost'
    /\ \A r \in Stranded' : /\ r \in Stranded /\ user'[r] = user[r]
                            /\ pc'[r] # "mail" => pc[r] # "mail"
    /\ \A r \in Stranded : user[r] \notin lost' => r \in Stranded'
\* ... a link that confirms is used only when its user is verified, ...
CalmTokens ==
    /\ DOMAIN tokens' = DOMAIN tokens /\ mailed \subseteq mailed'
    /\ \A t \in DOMAIN tokens :
          tokens[t].type = "EMAIL_CONFIRMATION" /\ tokens'[t].used =>
             tokens[t].used \/ account'[tokens[t].user] = "verified"
\* ... and the requests have what ConfirmInv says of them.
CalmRequests ==
    \A r \in Requests :
       /\ pc'[r] = "mark" /\ type'[r] = "EMAIL_CONFIRMATION" => account'[user'[r]] = "verified"
       /\ pc'[r] = "user" => type'[r] = "EMAIL_CONFIRMATION"

LEMMA ConfirmKept ==
  ASSUME TypeOK, Onward, ConfirmInv, CanConfirm,
         CalmUsers, CalmStranded, CalmTokens, CalmRequests
  PROVE  ConfirmInv' /\ CanConfirm'
<1>1. \A r \in Stranded : user[r] \in Users
  BY DEF Stranded, TypeOK
<1>2. \A t \in DOMAIN tokens : tokens[t].user \in Users
  BY Tokens DEF Token
<1>3. \A t \in DOMAIN tokens : /\ tokens'[t].user = tokens[t].user
                               /\ tokens'[t].type = tokens[t].type
  BY DEF Onward
<1>4. ASSUME NEW r \in Stranded'
      PROVE  /\ r \in Stranded /\ user'[r] = user[r] /\ account'[user'[r]] # "none"
             /\ pc'[r] # "mail" => pc[r] # "mail"
  BY <1>1, <1>4 DEF CalmUsers, CalmStranded, ConfirmInv
<1>5. ASSUME NEW r \in Stranded', NEW q \in Stranded', user'[r] = user'[q] PROVE r = q
  BY <1>4, <1>5 DEF ConfirmInv
<1>6. ASSUME NEW r \in Stranded', NEW t \in DOMAIN tokens', pc'[r] # "mail"
      PROVE  ~(tokens'[t].user = user'[r] /\ tokens'[t].type = "EMAIL_CONFIRMATION")
  <2>1. t \in DOMAIN tokens /\ pc[r] # "mail" /\ r \in Stranded /\ user'[r] = user[r]
    BY <1>4, <1>6 DEF CalmTokens
  <2>2. ~(tokens[t].user = user[r] /\ tokens[t].type = "EMAIL_CONFIRMATION")
    BY <2>1 DEF ConfirmInv, Matches
  <2> QED BY <1>3, <2>1, <2>2
<1>7. ASSUME NEW t \in DOMAIN tokens', tokens'[t].type = "EMAIL_CONFIRMATION"
      PROVE  /\ account'[tokens'[t].user] # "none"
             /\ tokens'[t].used => account'[tokens'[t].user] = "verified"
  <2>1. /\ t \in DOMAIN tokens /\ tokens'[t].user = tokens[t].user
        /\ tokens[t].type = "EMAIL_CONFIRMATION" /\ tokens[t].user \in Users
    BY <1>2, <1>3, <1>7 DEF CalmTokens
  <2>2. /\ account[tokens[t].user] # "none"
        /\ tokens[t].used => account[tokens[t].user] = "verified"
    BY <2>1 DEF ConfirmInv
  <2>3. tokens'[t].used => tokens[t].used \/ account'[tokens[t].user] = "verified"
    BY <2>1 DEF CalmTokens
  <2>4. /\ account'[tokens[t].user] # "none"
        /\ account[tokens[t].user] = "verified" => account'[tokens[t].user] = "verified"
    BY <2>1, <2>2 DEF CalmUsers
  <2> QED BY <2>1, <2>2, <2>3, <2>4
<1>8. ConfirmInv'
  BY <1>4, <1>5, <1>6, <1>7 DEF ConfirmInv, Matches, CalmRequests
<1>9. ASSUME NEW u \in Users \ lost', account'[u] = "unverified"
      PROVE  \/ \E r \in Stranded' : user'[r] = u
             \/ \E t \in mailed' \cap Unused(u, "EMAIL_CONFIRMATION")' : TRUE
  <2>1. u \in Users \ lost /\ account[u] = "unverified"
    BY <1>9 DEF CalmUsers, CalmStranded
  <2>2. CASE \E r \in Stranded : user[r] = u
    <3>1. PICK r \in Stranded : user[r] = u
      BY <2>2
    <3>2. r \in Stranded'
      BY <1>9, <3>1 DEF CalmStranded
    <3> QED BY <1>4, <3>1, <3>2
  <2>3. ASSUME NEW t \in mailed, t \in Unused(u, "EMAIL_CONFIRMATION")
        PROVE  t \in mailed' \cap Unused(u, "EMAIL_CONFIRMATION")'
    <3>1. /\ t \in DOMAIN tokens /\ tokens[t].user = u /\ ~tokens[t].used
          /\ tokens[t].type = "EMAIL_CONFIRMATION"
      BY <2>3 DEF Unused, Matches
    <3>2. ~tokens'[t].used /\ t \in mailed' /\ t \in DOMAIN tokens'
      BY <1>9, <3>1 DEF CalmTokens
    <3> QED BY <1>3, <3>1, <3>2 DEF Unused, Matches
  <2> QED BY <2>1, <2>2, <2>3 DEF CanConfirm
<1> QED BY <1>8, <1>9 DEF CanConfirm

\* A link that is inserted is the first of its user that confirms.
LEMMA ConfirmInserted ==
  ASSUME TypeOK, TypeOK', ConfirmInv, CanConfirm, NEW r \in Requests, InsertToken(r),
         UNCHANGED <<account, mailed>>,
         \/ OnlyLocalsOf(r) /\ pc'[r] = "mail" /\ UNCHANGED <<user, type, lost>>
         \/ /\ OnlyLocalsOf(r) /\ pc'[r] = "idle" /\ lost \subseteq lost'
            /\ r \in Stranded => user[r] \in lost'
  PROVE  ConfirmInv' /\ CanConfirm'
<1>1. pc[r] = "insert" /\ user[r] \in Users /\ type[r] \in Types
  BY DEF InsertToken, TypeOK
<1>2. /\ DOMAIN tokens' = DOMAIN tokens \cup {Len(tokens')}
      /\ \A t \in DOMAIN tokens : tokens'[t] = tokens[t]
      /\ tokens'[Len(tokens')].user = user[r] /\ tokens'[Len(tokens')].type = type[r]
      /\ ~tokens'[Len(tokens')].used
  BY InsertOnward
<1>3. \A q \in Requests : q # r => pc'[q] = pc[q] /\ user'[q] = user[q] /\ type'[q] = type[q]
  BY DEF OnlyLocalsOf, TypeOK
<1>4. \A q \in Stranded' : /\ q \in Stranded /\ user'[q] = user[q]
                           /\ pc'[q] # "mail" => pc[q] # "mail" /\ q # r
  BY <1>1, <1>3 DEF Stranded
<1>5. type[r] = "EMAIL_CONFIRMATION" <=> r \in Stranded
  BY <1>1 DEF Stranded
<1>6. /\ \A q \in Stranded' : account'[user'[q]] # "none"
      /\ \A p, q \in Stranded' : user'[p] = user'[q] => p = q
  BY <1>4 DEF ConfirmInv
<1>7. ASSUME NEW q \in Stranded', NEW t \in DOMAIN tokens', pc'[q] # "mail"
      PROVE  ~(tokens'[t].user = user'[q] /\ tokens'[t].type = "EMAIL_CONFIRMATION")
  <2>1. CASE t \in DOMAIN tokens
    <3>1. pc[q] # "mail" /\ q \in Stranded /\ user'[q] = user[q] /\ tokens'[t] = tokens[t]
      BY <1>2, <1>4, <1>7, <2>1
    <3>2. ~(tokens[t].user = user[q] /\ tokens[t].type = "EMAIL_CONFIRMATION")
      BY <2>1, <3>1 DEF ConfirmInv, Matches
    <3> QED BY <3>1, <3>2
  <2>2. CASE t = Len(tokens')
    BY <1>2, <1>4, <1>5, <1>7, <2>2 DEF ConfirmInv
  <2> QED BY <1>2, <2>1, <2>2
<1>8. ASSUME NEW t \in DOMAIN tokens', tokens'[t].type = "EMAIL_CONFIRMATION"
      PROVE  /\ account'[tokens'[t].user] # "none"
             /\ tokens'[t].used => account'[tokens'[t].user] = "verified"
  <2>1. CASE t \in DOMAIN tokens
    <3>1. tokens'[t] = tokens[t] /\ account' = account
      BY <1>2, <2>1
    <3>2. tokens[t].type = "EMAIL_CONFIRMATION"
      BY <1>8, <3>1
    <3>3. /\ account[tokens[t].user] # "none"
          /\ tokens[t].used => account[tokens[t].user] = "verified"
      BY <2>1, <3>2 DEF ConfirmInv
    <3> QED BY <3>1, <3>3
  <2>2. CASE t = Len(tokens')
    BY <1>2, <1>5, <1>8, <2>2 DEF ConfirmInv
  <2> QED BY <1>2, <2>1, <2>2
<1>9. \A q \in Requests :
         /\ pc'[q] = "mark" /\ type'[q] = "EMAIL_CONFIRMATION" => account'[user'[q]] = "verified"
         /\ pc'[q] = "user" => type'[q] = "EMAIL_CONFIRMATION"
  BY <1>3 DEF ConfirmInv
<1>10. ConfirmInv'
  BY <1>6, <1>7, <1>8, <1>9 DEF ConfirmInv, Matches
<1>11. ASSUME NEW u \in Users \ lost', account'[u] = "unverified"
       PROVE  \/ \E q \in Stranded' : user'[q] = u
              \/ \E t \in mailed' \cap Unused(u, "EMAIL_CONFIRMATION")' : TRUE
  <2>1. u \notin lost /\ account[u] = "unverified"
    BY <1>11
  <2>2. ASSUME NEW q \in Stranded, user[q] = u PROVE q \in Stranded' /\ user'[q] = u
    <3>1. CASE q = r
      BY <1>11, <2>2, <3>1 DEF Stranded
    <3>2. CASE q # r
      BY <1>3, <2>2, <3>2 DEF Stranded
    <3> QED BY <3>1, <3>2
  <2>3. ASSUME NEW t \in mailed, t \in Unused(u, "EMAIL_CONFIRMATION")
        PROVE  t \in mailed' \cap Unused(u, "EMAIL_CONFIRMATION")'
    BY <1>2, <2>3 DEF Unused, Matches
  <2> QED BY <2>1, <2>2, <2>3 DEF CanConfirm
<1> QED BY <1>10, <1>11 DEF CanConfirm

\* A new user has no links, and one request that will send one, or is lost.
LEMMA ConfirmCreated ==
  ASSUME TypeOK, TypeOK', ConfirmInv, CanConfirm, NEW r \in Requests, InsertUser(r),
         UNCHANGED <<tokens, mailed>>, OnlyLocalsOf(r),
         \/ pc'[r] = "retire" /\ UNCHANGED <<user, type, lost>>
         \/ pc'[r] = "idle" /\ lost' = lost \cup {user[r]}
  PROVE  ConfirmInv' /\ CanConfirm'
<1>1. /\ pc[r] = "user" /\ user[r] \in Users /\ account[user[r]] = "none"
      /\ account'[user[r]] = "unverified"
      /\ \A u \in Users : u # user[r] => account'[u] = account[u]
  BY DEF InsertUser, TypeOK
<1>2. \A q \in Requests : q # r => pc'[q] = pc[q] /\ user'[q] = user[q] /\ type'[q] = type[q]
  BY DEF OnlyLocalsOf, TypeOK
<1>3. \A q \in Stranded : q # r /\ user[q] \in Users /\ user[q] # user[r]
  BY <1>1 DEF ConfirmInv, Stranded, TypeOK
<1>4. \A t \in DOMAIN tokens : /\ tokens[t].user \in Users
                               /\ ~Matches(t, user[r], "EMAIL_CONFIRMATION")
  BY <1>1, Tokens DEF ConfirmInv, Matches, Token
<1>5. \A q \in Stranded : q \in Stranded' /\ user'[q] = user[q] /\ pc'[q] = pc[q]
  BY <1>2, <1>3 DEF Stranded
<1>6. \A q \in Stranded' : /\ q # r => q \in Stranded /\ user'[q] = user[q] /\ pc'[q] = pc[q]
                           /\ q = r => user'[q] = user[r]
  BY <1>2 DEF Stranded
<1>7. /\ \A q \in Stranded' : account'[user'[q]] # "none"
      /\ \A p, q \in Stranded' : user'[p] = user'[q] => p = q
  BY <1>1, <1>3, <1>6 DEF ConfirmInv
<1>8. \A q \in Stranded', t \in DOMAIN tokens : pc'[q] # "mail" =>
         ~(tokens[t].user = user'[q] /\ tokens[t].type = "EMAIL_CONFIRMATION")
  BY <1>4, <1>6 DEF ConfirmInv, Matches
<1>9. \A t \in DOMAIN tokens : tokens[t].type = "EMAIL_CONFIRMATION" =>
         /\ account'[tokens[t].user] # "none"
         /\ tokens[t].used => account'[tokens[t].user] = "verified"
  BY <1>1, <1>4 DEF ConfirmInv, Matches
<1>10. \A q \in Requests :
         /\ pc'[q] = "mark" /\ type'[q] = "EMAIL_CONFIRMATION" => account'[user'[q]] = "verified"
         /\ pc'[q] = "user" => type'[q] = "EMAIL_CONFIRMATION"
  BY <1>1, <1>2 DEF ConfirmInv, TypeOK
<1>11. ConfirmInv'
  BY <1>7, <1>8, <1>9, <1>10 DEF ConfirmInv, Matches
<1>12. ASSUME NEW u \in Users \ lost', account'[u] = "unverified"
       PROVE  \/ \E q \in Stranded' : user'[q] = u
              \/ \E t \in mailed' \cap Unused(u, "EMAIL_CONFIRMATION")' : TRUE
  <2>1. CASE u = user[r]
    <3>1. pc'[r] = "retire" /\ UNCHANGED <<user, type>> /\ type[r] = "EMAIL_CONFIRMATION"
      BY <1>1, <1>12, <2>1 DEF ConfirmInv
    <3>2. r \in Stranded' /\ user'[r] = u
      BY <2>1, <3>1 DEF Stranded
    <3> QED BY <3>2
  <2>2. CASE u # user[r]
    <3>1. u \notin lost /\ account[u] = "unverified"
      BY <1>1, <1>12, <2>2
    <3>2. Unused(u, "EMAIL_CONFIRMATION")' = Unused(u, "EMAIL_CONFIRMATION")
      BY DEF Unused, Matches
    <3> QED BY <1>5, <3>1, <3>2 DEF CanConfirm
  <2> QED BY <2>1, <2>2
<1> QED BY <1>11, <1>12 DEF CanConfirm

\* Every step keeps the links of unverified users.
LEMMA NextConfirm ==
  TypeOK /\ ConfirmInv /\ CanConfirm /\ [Next]_vars => ConfirmInv' /\ CanConfirm'
<1> SUFFICES ASSUME TypeOK, ConfirmInv, CanConfirm, [Next]_vars
             PROVE  ConfirmInv' /\ CanConfirm'
  OBVIOUS
<1> USE DEF rows, locals
<1>1. TypeOK' /\ Onward
  BY NextType
<1>2. ASSUME NEW r \in Requests, Answer(r)
      PROVE  /\ OnlyLocalsOf(r) /\ pc'[r] = "idle"
             /\ \A q \in Requests \ {r} : /\ pc'[q] = pc[q] /\ user'[q] = user[q]
                                          /\ type'[q] = type[q]
  <2>1. OnlyLocalsOf(r) /\ pc'[r] = "idle"
    BY <1>1, <1>2, AnswerLocals
  <2> QED BY <2>1 DEF OnlyLocalsOf, TypeOK
<1>3. ASSUME NEW r \in Requests, Answer(r), account' = account, lost \subseteq lost',
             r \in Stranded => user[r] \in lost'
      PROVE  CalmUsers /\ CalmStranded /\ CalmRequests
  <2>1. CalmUsers
    BY <1>3 DEF CalmUsers
  <2>2. CalmStranded
    BY <1>2, <1>3 DEF CalmStranded, Stranded
  <2>3. CalmRequests
    BY <1>2, <1>3 DEF CalmRequests, ConfirmInv
  <2> QED BY <2>1, <2>2, <2>3
<1>4. ASSUME UNCHANGED <<tokens, mailed>> PROVE CalmTokens
  BY <1>4 DEF CalmTokens
<1>5. ASSUME NEW r \in Requests, NEW u \in Users, Register(r, u) \/ RequestReset(r, u)
      PROVE  ConfirmInv' /\ CanConfirm'
  <2>1. /\ UNCHANGED <<account, tokens, mailed, lost>> /\ pc[r] = "idle"
        /\ \/ pc'[r] = "user" /\ type'[r] = "EMAIL_CONFIRMATION"
           \/ pc'[r] = "retire" /\ type'[r] = "PASSWORD_RESET"
        /\ \A q \in Requests \ {r} : /\ pc'[q] = pc[q] /\ user'[q] = user[q]
                                     /\ type'[q] = type[q]
    BY <1>5 DEF Register, RequestReset, Begin, Goto, TypeOK
  <2>2. CalmUsers /\ CalmTokens
    BY <1>4, <2>1 DEF CalmUsers
  <2>3. CalmStranded
    BY <2>1 DEF CalmStranded, Stranded
  <2>4. CalmRequests
    BY <2>1 DEF CalmRequests, ConfirmInv
  <2> QED BY <1>1, <2>2, <2>3, <2>4, ConfirmKept
<1>6. ASSUME NEW r \in Requests, CreateUser(r) PROVE ConfirmInv' /\ CanConfirm'
  <2>1. /\ InsertUser(r) /\ UNCHANGED <<tokens, mailed, user, type, token, lost>>
        /\ pc' = [pc EXCEPT ![r] = "retire"]
    BY <1>6 DEF CreateUser, Goto
  <2>2. pc'[r] = "retire" /\ OnlyLocalsOf(r)
    BY <2>1 DEF OnlyLocalsOf, TypeOK
  <2> QED BY <1>1, <2>1, <2>2, ConfirmCreated
<1>7. ASSUME NEW r \in Requests, RefuseUser(r) PROVE ConfirmInv' /\ CanConfirm'
  <2>1. /\ Answer(r) /\ UNCHANGED <<account, tokens, mailed, lost>> /\ r \notin Stranded
    BY <1>7 DEF RefuseUser, Stranded
  <2> QED BY <1>1, <1>3, <1>4, <2>1, ConfirmKept
<1>8. ASSUME NEW r \in Requests, Retire(r) PROVE ConfirmInv' /\ CanConfirm'
  <2>1. /\ UNCHANGED <<account, mailed, lost, user, type>> /\ pc[r] = "retire"
        /\ pc'[r] = "insert" /\ \A q \in Requests \ {r} : pc'[q] = pc[q]
    BY <1>8 DEF Retire, RetireTokens, Goto, TypeOK
  <2>2. CalmUsers
    BY <2>1 DEF CalmUsers
  <2>3. CalmStranded
    BY <2>1 DEF CalmStranded, Stranded
  <2>4. CalmRequests
    BY <2>1 DEF CalmRequests, ConfirmInv
  <2>5. DOMAIN tokens' = DOMAIN tokens
    BY <1>1, <1>8, RetireOnward, Tokens DEF Retire, Onward
  <2>6. ASSUME NEW t \in DOMAIN tokens, tokens[t].type = "EMAIL_CONFIRMATION"
        PROVE  tokens'[t] = tokens[t]
    <3>1. ~Matches(t, user[r], type[r])
      BY <2>1, <2>6 DEF ConfirmInv, Stranded, Matches
    <3> QED BY <1>8, <3>1, RetireOnward DEF Retire
  <2>7. CalmTokens
    BY <2>1, <2>5, <2>6 DEF CalmTokens
  <2> QED BY <1>1, <2>2, <2>3, <2>4, <2>7, ConfirmKept
<1>9. ASSUME NEW r \in Requests, Insert(r) PROVE ConfirmInv' /\ CanConfirm'
  <2>1. /\ InsertToken(r) /\ UNCHANGED <<account, mailed, user, type, lost>>
        /\ pc' = [pc EXCEPT ![r] = "mail"] /\ token' = [token EXCEPT ![r] = Len(tokens')]
    BY <1>9 DEF Insert, Goto
  <2>2. pc'[r] = "mail" /\ OnlyLocalsOf(r)
    BY <2>1 DEF OnlyLocalsOf, TypeOK
  <2> QED BY <1>1, <2>1, <2>2, ConfirmInserted
<1>10. ASSUME NEW r \in Requests, SendMail(r) PROVE ConfirmInv' /\ CanConfirm'
  <2>1. /\ pc[r] = "mail" /\ Answer(r) /\ UNCHANGED <<account, tokens, lost>>
        /\ mailed' = mailed \cup {token[r]}
    BY <1>10 DEF SendMail
  <2>2. /\ pc'[r] = "idle"
        /\ \A q \in Requests \ {r} : /\ pc'[q] = pc[q] /\ user'[q] = user[q]
                                     /\ type'[q] = type[q]
    BY <1>2, <2>1
  <2>3. \A q \in Stranded' : q # r /\ q \in Stranded /\ user'[q] = user[q] /\ pc'[q] = pc[q]
    BY <2>2 DEF Stranded
  <2>4. ConfirmInv'
    <3>1. \A q \in Stranded' : account'[user'[q]] # "none"
      BY <2>1, <2>3 DEF ConfirmInv
    <3>2. \A p, q \in Stranded' : user'[p] = user'[q] => p = q
      BY <2>3 DEF ConfirmInv
    <3>3. \A q \in Stranded', t \in DOMAIN tokens' : pc'[q] # "mail" =>
             ~(tokens'[t].user = user'[q] /\ tokens'[t].type = "EMAIL_CONFIRMATION")
      BY <2>1, <2>3 DEF ConfirmInv, Matches
    <3>4. \A t \in DOMAIN tokens' : tokens'[t].type = "EMAIL_CONFIRMATION" =>
             /\ account'[tokens'[t].user] # "none"
             /\ tokens'[t].used => account'[tokens'[t].user] = "verified"
      BY <2>1 DEF ConfirmInv
    <3>5. \A q \in Requests :
             /\ pc'[q] = "mark" /\ type'[q] = "EMAIL_CONFIRMATION" =>
                   account'[user'[q]] = "verified"
             /\ pc'[q] = "user" => type'[q] = "EMAIL_CONFIRMATION"
      BY <2>1, <2>2 DEF ConfirmInv
    <3> QED BY <3>1, <3>2, <3>3, <3>4, <3>5 DEF ConfirmInv, Matches
  <2>5. ASSUME NEW u \in Users \ lost', account'[u] = "unverified"
        PROVE  \/ \E q \in Stranded' : user'[q] = u
               \/ \E t \in mailed' \cap Unused(u, "EMAIL_CONFIRMATION")' : TRUE
    <3>1. u \in Users \ lost /\ account[u] = "unverified"
      BY <2>1, <2>5
    <3>2. Unused(u, "EMAIL_CONFIRMATION")' = Unused(u, "EMAIL_CONFIRMATION")
      BY <2>1 DEF Unused, Matches
    <3>3. CASE r \in Stranded /\ user[r] = u
      <4>1. /\ token[r] \in DOMAIN tokens /\ tokens[token[r]].user = u
            /\ tokens[token[r]].type = "EMAIL_CONFIRMATION"
        BY <2>1, <3>3 DEF Stranded, TypeOK, Matches
      <4>2. ~tokens[token[r]].used
        BY <3>1, <4>1 DEF ConfirmInv
      <4>3. token[r] \in Unused(u, "EMAIL_CONFIRMATION")
        BY <4>1, <4>2 DEF Unused, Matches
      <4> QED BY <2>1, <3>2, <4>3
    <3>4. ASSUME NEW q \in Stranded, user[q] = u, q # r PROVE q \in Stranded' /\ user'[q] = u
      BY <2>2, <3>4 DEF Stranded
    <3> QED BY <2>1, <3>1, <3>2, <3>3, <3>4 DEF CanConfirm
  <2> QED BY <2>4, <2>5 DEF CanConfirm
<1>11. ASSUME NEW r \in Requests, NEW t \in mailed, NEW ty \in Types, Open(r, t, ty)
       PROVE  ConfirmInv' /\ CanConfirm'
  <2>1. /\ UNCHANGED <<account, tokens, mailed, lost>> /\ pc[r] = "idle" /\ pc'[r] = "write"
        /\ \A q \in Requests \ {r} : /\ pc'[q] = pc[q] /\ user'[q] = user[q]
                                     /\ type'[q] = type[q]
    BY <1>11 DEF Open, FindValid, Goto, TypeOK
  <2>2. CalmUsers /\ CalmTokens
    BY <1>4, <2>1 DEF CalmUsers
  <2>3. CalmStranded
    BY <2>1 DEF CalmStranded, Stranded
  <2>4. CalmRequests
    BY <2>1 DEF CalmRequests, ConfirmInv
  <2> QED BY <1>1, <2>2, <2>3, <2>4, ConfirmKept
<1>12. ASSUME NEW r \in Requests, WriteUser(r), mailed' = mailed
       PROVE  /\ CalmUsers /\ CalmTokens /\ r \notin Stranded
              /\ type[r] = "EMAIL_CONFIRMATION" => account'[user[r]] = "verified"
              /\ \A u \in Users : account[u] = "verified" => account'[u] = "verified"
  <2>1. /\ pc[r] = "write" /\ user[r] \in Users
        /\ account' = [account EXCEPT ![user[r]] =
                         IF type[r] = "EMAIL_CONFIRMATION" THEN "verified" ELSE @]
    BY <1>12 DEF WriteUser, TypeOK
  <2>2. \A u \in Users :
           account'[u] = IF u = user[r] /\ type[r] = "EMAIL_CONFIRMATION" THEN "verified"
                         ELSE account[u]
    BY <2>1 DEF TypeOK
  <2>3. CalmUsers
    BY <2>2 DEF CalmUsers
  <2>4. DOMAIN tokens' = DOMAIN tokens /\ \A t \in DOMAIN tokens : tokens'[t].used = tokens[t].used
    BY <1>1, <1>12, WriteOnward, Tokens DEF Onward
  <2>5. CalmTokens
    BY <1>12, <2>4 DEF CalmTokens
  <2> QED BY <2>1, <2>2, <2>3, <2>5 DEF Stranded
<1>13. ASSUME NEW r \in Requests, Write(r) PROVE ConfirmInv' /\ CanConfirm'
  <2>1. /\ WriteUser(r) /\ UNCHANGED <<mailed, lost, user, type>> /\ pc'[r] = "mark"
        /\ \A q \in Requests \ {r} : pc'[q] = pc[q]
    BY <1>13 DEF Write, Goto, TypeOK
  <2>2. /\ CalmUsers /\ CalmTokens /\ r \notin Stranded
        /\ type[r] = "EMAIL_CONFIRMATION" => account'[user[r]] = "verified"
        /\ \A u \in Users : account[u] = "verified" => account'[u] = "verified"
    BY <1>12, <2>1
  <2>3. CalmStranded
    BY <2>1, <2>2 DEF CalmStranded, Stranded
  <2>4. \A q \in Requests : pc[q] # "idle" => user[q] \in Users
    BY DEF TypeOK
  <2>5. CalmRequests
    BY <2>1, <2>2, <2>4 DEF CalmRequests, ConfirmInv
  <2> QED BY <1>1, <2>2, <2>3, <2>5, ConfirmKept
<1>14. ASSUME NEW r \in Requests, Mark(r) PROVE ConfirmInv' /\ CanConfirm'
  <2>1. /\ Answer(r) /\ pc[r] = "mark" /\ UNCHANGED <<account, mailed, lost>>
        /\ r \notin Stranded
    BY <1>14 DEF Mark, Stranded
  <2>2. /\ DOMAIN tokens' = DOMAIN tokens
        /\ \A s \in DOMAIN tokens : s # token[r] => tokens'[s] = tokens[s]
    BY <1>1, <1>14, MarkOnward, Tokens DEF Onward
  <2>3. tokens[token[r]].type = "EMAIL_CONFIRMATION" =>
           account'[tokens[token[r]].user] = "verified"
    <3>1. tokens[token[r]].user = user[r] /\ tokens[token[r]].type = type[r]
      BY <2>1 DEF TypeOK, Matches
    <3> QED BY <2>1, <3>1 DEF ConfirmInv
  <2>4. CalmTokens
    BY <2>1, <2>2, <2>3 DEF CalmTokens
  <2> QED BY <1>1, <1>3, <2>1, <2>4, ConfirmKept
<1>15. ASSUME NEW r \in Requests, Fail(r) PROVE ConfirmInv' /\ CanConfirm'
  <2>1. /\ Answer(r) /\ lost \subseteq lost'
        /\ r \in Stranded => user[r] \in lost'
    BY <1>15 DEF Fail
  <2>2. CASE /\ UNCHANGED <<account, tokens>> /\ mailed \subseteq mailed'
    <3>1. CalmTokens
      BY <2>2 DEF CalmTokens
    <3> QED BY <1>1, <1>3, <2>1, <2>2, <3>1, ConfirmKept
  <2>3. CASE InsertUser(r) /\ UNCHANGED <<tokens, mailed>>
    <3>1. lost' = lost \cup {user[r]}
      <4>1. pc[r] = "user" /\ account' # account
        BY <2>3 DEF InsertUser, TypeOK
      <4> QED BY <1>15, <4>1 DEF Fail
    <3> QED BY <1>1, <1>2, <2>1, <2>3, <3>1, ConfirmCreated
  <2>4. CASE InsertToken(r) /\ UNCHANGED <<account, mailed>>
    BY <1>1, <1>2, <2>1, <2>4, ConfirmInserted
  <2>5. CASE WriteUser(r) /\ UNCHANGED mailed
    <3>1. /\ CalmUsers /\ CalmTokens /\ r \notin Stranded
          /\ \A u \in Users : account[u] = "verified" => account'[u] = "verified"
      BY <1>12, <2>5
    <3>2. CalmStranded
      BY <1>2, <2>1, <3>1 DEF CalmStranded, Stranded
    <3>3. \A q \in Requests : pc[q] # "idle" => user[q] \in Users
      BY DEF TypeOK
    <3>4. CalmRequests
      BY <1>2, <2>1, <3>1, <3>3 DEF CalmRequests, ConfirmInv
    <3> QED BY <1>1, <3>1, <3>2, <3>4, ConfirmKept
  <2> QED BY <1>15, <2>2, <2>3, <2>4, <2>5 DEF Fail
<1>16. ASSUME NEW t \in DOMAIN tokens, Expire(t) PROVE ConfirmInv' /\ CanConfirm'
  <2>1. UNCHANGED <<account, mailed, locals, lost>>
    BY <1>16 DEF Expire
  <2>2. DOMAIN tokens' = DOMAIN tokens /\ \A s \in DOMAIN tokens : tokens'[s].used = tokens[s].used
    BY <1>1, <1>16, ExpireOnward, Tokens DEF Onward
  <2>3. CalmUsers /\ CalmTokens
    BY <2>1, <2>2 DEF CalmUsers, CalmTokens
  <2>4. CalmStranded
    BY <2>1 DEF CalmStranded, Stranded
  <2>5. CalmRequests
    BY <2>1 DEF CalmRequests, ConfirmInv
  <2> QED BY <1>1, <2>3, <2>4, <2>5, ConfirmKept
<1>17. CASE Crash
  <2>1. /\ UNCHANGED <<account, tokens, mailed>> /\ pc' = [r \in Requests |-> "idle"]
        /\ lost' = lost \cup {user[r] : r \in Stranded}
    BY <1>17 DEF Crash
  <2>2. CalmUsers /\ CalmTokens
    BY <1>4, <2>1 DEF CalmUsers
  <2>3. CalmStranded
    BY <2>1 DEF CalmStranded, Stranded
  <2>4. CalmRequests
    BY <2>1 DEF CalmRequests
  <2> QED BY <1>1, <2>2, <2>3, <2>4, ConfirmKept
<1>18. CASE UNCHANGED vars
  <2>1. UNCHANGED <<account, tokens, mailed, pc, user, type, lost>>
    BY <1>18 DEF vars
  <2>2. CalmUsers /\ CalmTokens
    BY <1>4, <2>1 DEF CalmUsers
  <2>3. CalmStranded
    BY <2>1 DEF CalmStranded, Stranded
  <2>4. CalmRequests
    BY <2>1 DEF CalmRequests, ConfirmInv
  <2> QED BY <1>1, <2>2, <2>3, <2>4, ConfirmKept
<1> QED BY <1>5, <1>6, <1>7, <1>8, <1>9, <1>10, <1>11, <1>13, <1>14, <1>15, <1>16, <1>17, <1>18
        DEF Next

\* An unverified user is being registered, holds an unused link, or is lost,
\* whatever resets are asked for and whatever fails while he confirms.
THEOREM UnverifiedCanConfirm == Spec => []CanConfirm
<1>1. Init => ConfirmInv /\ CanConfirm
  BY DEF Init, ConfirmInv, CanConfirm, Stranded
<1> QED BY <1>1, InitType, NextType, NextConfirm, PTL DEF Spec
=============================================================================
