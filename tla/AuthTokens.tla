------------------------------ MODULE AuthTokens ------------------------------
(* Registration and the links that confirm an address or reset a password    *)
(* (src/auth/auth.service.ts, src/users/users.service.ts): rows of User and  *)
(* AuthToken under requests that run at the same time, each awaited call an  *)
(* action.  An email address stands for its user.                            *)
EXTENDS Integers, Sequences, FiniteSets

CONSTANTS
    Users,      \* email addresses
    Requests,   \* slots for requests in flight
    MaxTokens,  \* bound: links that are issued
    MaxFailed   \* bound: requests that fail or die with the process

ASSUME TokenAssumption == /\ IsFiniteSet(Requests)
                          /\ MaxTokens \in Nat
                          /\ MaxFailed \in Nat

VARIABLES
    account, \* the row of each user
    tokens,  \* AuthToken in the order of createdAt; uses counts, for the
             \* properties, what each has confirmed or reset
    mailed,  \* the numbers of the tokens whose link was sent
    pc,      \* the next call of each request,
    user,    \* its user,
    type,    \* the type of its token,
    token,   \* and the number of it
    failed,  \* requests that failed so far,
    lost     \* and the users whose registration was one of them

rows == <<account, tokens, mailed>>
locals == <<pc, user, type, token>>
vars == <<rows, locals, failed, lost>>

Types == {"EMAIL_CONFIRMATION", "PASSWORD_RESET"}
NoUser == "none"
NoType == "none"

Init == /\ account = [u \in Users |-> "none"]
        /\ tokens = <<>>
        /\ mailed = {}
        /\ pc = [r \in Requests |-> "idle"]
        /\ user = [r \in Requests |-> NoUser]
        /\ type = [r \in Requests |-> NoType]
        /\ token = [r \in Requests |-> 0]
        /\ failed = 0
        /\ lost = {}

Goto(r, p) == pc' = [pc EXCEPT ![r] = p]
Answer(r) == /\ Goto(r, "idle")
             /\ user' = [user EXCEPT ![r] = NoUser]
             /\ type' = [type EXCEPT ![r] = NoType]
             /\ token' = [token EXCEPT ![r] = 0]

\* Requests that have still to insert the row of their token.
Issuing == {r \in Requests : pc[r] \in {"user", "retire", "insert"}}
Begin(r, p, u, ty) ==
    /\ pc[r] = "idle" /\ Len(tokens) + Cardinality(Issuing) < MaxTokens
    /\ Goto(r, p)
    /\ user' = [user EXCEPT ![r] = u]
    /\ type' = [type EXCEPT ![r] = ty]
    /\ UNCHANGED <<rows, token, failed, lost>>

-----------------------------------------------------------------------------
(* Links are issued.                                                         *)

\* registerUser: no user has the address; the password is hashed.
Register(r, u) == account[u] = "none" /\ Begin(r, "user", u, "EMAIL_CONFIRMATION")

\* requestPasswordReset and requestPasswordChange: the user exists, confirmed
\* or not.
RequestReset(r, u) == account[u] # "none" /\ Begin(r, "retire", u, "PASSWORD_RESET")

InsertUser(r) == /\ pc[r] = "user" /\ account[user[r]] = "none"
                 /\ account' = [account EXCEPT ![user[r]] = "unverified"]

CreateUser(r) == /\ InsertUser(r)
                 /\ Goto(r, "retire")
                 /\ UNCHANGED <<tokens, mailed, user, type, token, failed, lost>>

\* The address is unique: of two that register it one gets an error.
RefuseUser(r) == /\ pc[r] = "user" /\ account[user[r]] # "none"
                 /\ Answer(r)
                 /\ UNCHANGED <<rows, failed, lost>>

Matches(t, u, ty) == tokens[t].user = u /\ tokens[t].type = ty

\* Mutant: links of the other type are retired, too.
RetireTokensOfUser(r) ==
    /\ pc[r] = "retire"
    /\ tokens' = [t \in DOMAIN tokens |->
                    IF tokens[t].user = user[r] THEN [tokens[t] EXCEPT !.used = TRUE]
                    ELSE tokens[t]]

\* Mutant: no link is retired.
RetireNoTokens(r) == pc[r] = "retire" /\ UNCHANGED tokens

\* createAuthToken first marks the unused links of its type as used, ...
RetireTokens(r) ==
    /\ pc[r] = "retire"
    /\ tokens' = [t \in DOMAIN tokens |->
                    IF Matches(t, user[r], type[r]) THEN [tokens[t] EXCEPT !.used = TRUE]
                    ELSE tokens[t]]

Retire(r) == /\ RetireTokens(r)
             /\ Goto(r, "insert")
             /\ UNCHANGED <<account, mailed, user, type, token, failed, lost>>

\* ... and creates the new one in a second call.
InsertToken(r) ==
    /\ pc[r] = "insert"
    /\ tokens' = Append(tokens, [user |-> user[r], type |-> type[r], used |-> FALSE,
                                 expired |-> FALSE, uses |-> 0])

Insert(r) == /\ InsertToken(r)
             /\ token' = [token EXCEPT ![r] = Len(tokens')]
             /\ Goto(r, "mail")
             /\ UNCHANGED <<account, mailed, user, type, failed, lost>>

SendMail(r) == /\ pc[r] = "mail"
               /\ mailed' = mailed \cup {token[r]}
               /\ Answer(r)
               /\ UNCHANGED <<account, tokens, failed, lost>>

-----------------------------------------------------------------------------
(* Links are used.                                                           *)

\* expiresAt passes.
Expire(t) == /\ ~tokens[t].expired
             /\ tokens' = [tokens EXCEPT ![t].expired = TRUE]
             /\ UNCHANGED <<account, mailed, locals, failed, lost>>

\* Mutant: a link of either type is found.
FindAnyType(r, t, ty) ==
    /\ pc[r] = "idle" /\ ~tokens[t].expired /\ ~tokens[t].used

\* Mutant: a link is found after its first use as well.
FindUsed(r, t, ty) ==
    /\ pc[r] = "idle" /\ tokens[t].type = ty /\ ~tokens[t].expired

\* findValidTokenRecord, of resetPasswordWithToken or confirmEmailWithToken
FindValid(r, t, ty) ==
    /\ pc[r] = "idle" /\ tokens[t].type = ty /\ ~tokens[t].expired /\ ~tokens[t].used

Open(r, t, ty) == /\ FindValid(r, t, ty)
                  /\ Goto(r, "write")
                  /\ user' = [user EXCEPT ![r] = tokens[t].user]
                  /\ type' = [type EXCEPT ![r] = ty]
                  /\ token' = [token EXCEPT ![r] = t]
                  /\ UNCHANGED <<rows, failed, lost>>

\* updatePassword, once the password is hashed, or markEmailAsVerified
WriteUser(r) ==
    /\ pc[r] = "write"
    /\ account' = [account EXCEPT ![user[r]] =
                     IF type[r] = "EMAIL_CONFIRMATION" THEN "verified" ELSE @]
    /\ tokens' = [tokens EXCEPT ![token[r]].uses = @ + 1]

Write(r) == /\ WriteUser(r)
            /\ Goto(r, "mark")
            /\ UNCHANGED <<mailed, user, type, token, failed, lost>>

\* markTokenAsUsed, whether or not another request has
Mark(r) == /\ pc[r] = "mark"
           /\ tokens' = [tokens EXCEPT ![token[r]].used = TRUE]
           /\ Answer(r)
           /\ UNCHANGED <<account, mailed, failed, lost>>

-----------------------------------------------------------------------------
(* Failures.                                                                 *)

\* A registration that has made the user and not sent the link
Stranded == {r \in Requests : /\ pc[r] \in {"retire", "insert", "mail"}
                              /\ type[r] = "EMAIL_CONFIRMATION"}

\* A call fails, or what it did is committed and its reply is lost, and the
\* request ends in an error.  (Of mark and retire the two are one: a request
\* that fails before its next call.)
Fail(r) ==
    /\ pc[r] # "idle" /\ failed < MaxFailed
    /\ failed' = failed + 1
    /\ \/ UNCHANGED rows
       \/ InsertUser(r) /\ UNCHANGED <<tokens, mailed>>
       \/ InsertToken(r) /\ UNCHANGED <<account, mailed>>
       \/ WriteUser(r) /\ UNCHANGED mailed
       \/ pc[r] = "mail" /\ mailed' = mailed \cup {token[r]} /\ UNCHANGED <<account, tokens>>
    /\ lost' = IF r \in Stranded \/ (pc[r] = "user" /\ account' # account)
               THEN lost \cup {user[r]} ELSE lost
    /\ Answer(r)

\* The process dies, and every request with it.
Crash == LET busy == {r \in Requests : pc[r] # "idle"} IN
         /\ busy # {} /\ failed + Cardinality(busy) <= MaxFailed
         /\ failed' = failed + Cardinality(busy)
         /\ lost' = lost \cup {user[r] : r \in Stranded}
         /\ pc' = [r \in Requests |-> "idle"]
         /\ user' = [r \in Requests |-> NoUser]
         /\ type' = [r \in Requests |-> NoType]
         /\ token' = [r \in Requests |-> 0]
         /\ UNCHANGED rows

Next == \/ \E r \in Requests :
              \/ \E u \in Users : Register(r, u) \/ RequestReset(r, u)
              \/ CreateUser(r) \/ RefuseUser(r) \/ Retire(r) \/ Insert(r) \/ SendMail(r)
              \/ \E t \in mailed, ty \in Types : Open(r, t, ty)
              \/ Write(r) \/ Mark(r) \/ Fail(r)
        \/ \E t \in DOMAIN tokens : Expire(t)
        \/ Crash

Spec == Init /\ [][Next]_vars

-----------------------------------------------------------------------------
(* Properties.                                                               *)

Steps == {"idle", "user", "retire", "insert", "mail", "write", "mark"}

\* Every variable has its type; a request that writes has a token of its user,
\* whose type is the one it asked for.
TypeOK ==
    /\ account \in [Users -> {"none", "unverified", "verified"}]
    /\ tokens \in Seq([user : Users, type : Types, used : BOOLEAN, expired : BOOLEAN,
                       uses : Nat])
    /\ mailed \subseteq DOMAIN tokens
    /\ pc \in [Requests -> Steps]
    /\ user \in [Requests -> Users \cup {NoUser}]
    /\ type \in [Requests -> Types \cup {NoType}]
    /\ token \in [Requests -> 0..Len(tokens)]
    /\ \A r \in Requests :
          /\ pc[r] # "idle" => user[r] \in Users /\ type[r] \in Types
          /\ pc[r] \in {"mail", "write", "mark"} =>
                token[r] # 0 /\ Matches(token[r], user[r], type[r])
    /\ failed \in 0..MaxFailed
    /\ lost \subseteq Users

Unused(u, ty) == {t \in DOMAIN tokens : Matches(t, u, ty) /\ ~tokens[t].used}
Inserting(u, ty) == {r \in Requests : pc[r] = "insert" /\ user[r] = u /\ type[r] = ty}

\* A new link is meant to replace the older ones; the two calls that do it leave
\* as many unused links of a user and a type as requests that ran at once, each
\* of which has yet to insert one or has, and never more.
UnusedBound ==
    \A u \in Users, ty \in Types :
        Cardinality(Unused(u, ty)) + Cardinality(Inserting(u, ty)) <= Cardinality(Requests)

Writing(t) == {r \in Requests : pc[r] = "write" /\ token[r] = t}
Marking(t) == {r \in Requests : pc[r] = "mark" /\ token[r] = t}

\* A link is for one use, but it is marked as used only after it was: it has at
\* most one use for each request that can be in flight, and one for each that
\* failed.  One request at a time, and none that fails: one use.
UsesBound == \A t \in DOMAIN tokens : tokens[t].uses <= Cardinality(Requests) + failed

\* Why: while it is unused each use is that of a request that will mark it, or
\* has failed; those that found it before it was marked are in flight.
UsesInv ==
    \A t \in DOMAIN tokens :
        /\ tokens[t].uses + Cardinality(Writing(t)) <= Cardinality(Requests) + failed
        /\ ~tokens[t].used => tokens[t].uses <= Cardinality(Marking(t)) + failed

\* A user who is not verified cannot log in, cannot register again and has no
\* other way to ask for the link than to have registered: until he is, he is
\* being registered or was sent a link that nothing has used or retired,
\* whatever resets are asked for and whatever fails while he confirms.  Time
\* may expire the link, for which the code has no remedy.  The users of whom
\* this is not true, lost, are those whose registration failed after it made
\* the row.
CanConfirm ==
    \A u \in Users \ lost :
        account[u] = "unverified" =>
            \/ \E r \in Stranded : user[r] = u
            \/ \E t \in mailed \cap Unused(u, "EMAIL_CONFIRMATION") : TRUE
=============================================================================
