------------------------------ MODULE Accounts ------------------------------
(***************************************************************************)
(* Customers and their tokens: concurrent HTTP calls of the gateway's      *)
(* CustomersController.  A call is one or more messages to the services;   *)
(* CustomersService keeps the customers in MongoDB, JwtAuthService the one *)
(* live refresh token of each customer in Redis.                           *)
(*                                                                         *)
(* Calls are numbered in the order in which they arrive.  A customer is    *)
(* named by the call that created it, a pair of tokens by the call that    *)
(* generated it (createToken puts a fresh UUID into each token).  Two      *)
(* emails are the same if they are under the collation of the schema.      *)
(***************************************************************************)
EXTENDS Integers, Sequences, FiniteSets

CONSTANTS
    MaxCalls,           \* bound on the calls
    Email,
    NoEmail,
    FirstEmail,         \* the emails of the customers that calls 1 and 2
    SecondEmail         \* have created

ASSUME AccountsAssumption == MaxCalls \in Nat /\ MaxCalls >= 3

ASSUME EmailAssumption ==
    /\ {FirstEmail, SecondEmail} \subseteq Email
    /\ FirstEmail # SecondEmail
    /\ NoEmail \notin Email

VARIABLES
    uniqueIndex,        \* whether the index on the email was built (autoIndex)
    begun,              \* how many calls have arrived
    call,               \* what each call asks
    step,               \* the await each call is at, or how it ended
    read,               \* the email and the __v of the document a call has fetched
    holder,             \* whom the tokens of a call are for
    emailOf, version,   \* the customers collection; NoEmail: no document
    stored,             \* the refreshToken:<userId> keys of Redis; 0: none
    ended               \* history: the calls that had ended when a call arrived

customerVars == <<emailOf, version>>
accountsVars ==
    <<uniqueIndex, begun, call, step, read, holder, customerVars, stored, ended>>

Call == 1..MaxCalls

CallRunning == {"findEmail", "insert", "guard", "fetch", "save", "remove", "credentials",
                "store", "verify", "compare", "reply"}
CallEnded == {"done", "conflict", "notFound", "unauthorized", "error"}

\* What the handlers of the gateway pass on.  The password is the one the customer
\* `account' was created with.
CallRequest ==
         [op : {"create"}, email : Email]
    \cup [op : {"update"}, user : Call, account : Call, email : Email]
    \cup [op : {"delete", "get"}, user : Call, account : Call]
    \cup [op : {"login"}, account : Call, email : Email]
    \cup [op : {"refresh"}, token : Call]

AccountsTypeOK ==
    /\ uniqueIndex \in BOOLEAN
    /\ begun \in 0..MaxCalls
    /\ call \in [1..begun -> CallRequest]
    /\ step \in [1..begun -> CallRunning \cup CallEnded]
    /\ read \in [Call -> [email : Email \cup {NoEmail}, version : Nat]]
    /\ holder \in [Call -> 0..MaxCalls]
    /\ emailOf \in [Call -> Email \cup {NoEmail}]
    /\ version \in [Call -> Nat]
    /\ stored \in [Call -> 0..MaxCalls]
    /\ ended \in [1..begun -> SUBSET Call]

\* Two customers have been created; the first has logged in with call 3.
AccountsInit ==
    /\ uniqueIndex \in BOOLEAN
    /\ begun = 3
    /\ call = <<[op |-> "create", email |-> FirstEmail],
                [op |-> "create", email |-> SecondEmail],
                [op |-> "login", account |-> 1, email |-> FirstEmail]>>
    /\ step = <<"done", "done", "done">>
    /\ read = [c \in Call |-> [email |-> NoEmail, version |-> 0]]
    /\ holder = [c \in Call |-> IF c = 3 THEN 1 ELSE 0]
    /\ emailOf = [c \in Call |-> IF c = 1 THEN FirstEmail
                                ELSE IF c = 2 THEN SecondEmail ELSE NoEmail]
    /\ version = [c \in Call |-> 0]
    /\ stored = [c \in Call |-> IF c = 1 THEN 3 ELSE 0]
    /\ ended = <<{}, {1}, {1, 2}>>

----------------------------------------------------------------------------

EndedCalls == {c \in 1..begun : step[c] \in CallEnded}

\* The customers and the tokens clients know of.
Known == {c \in EndedCalls : step[c] = "done" /\ call[c].op = "create"}
TokensGiven == {c \in EndedCalls : step[c] = "done" /\ call[c].op \in {"login", "refresh"}}

\* CustomerJwtAuthGuard: creation and refresh are @Public(), login has the local guard,
\* everything else needs an access token.
FirstStep == [create |-> "findEmail", refresh |-> "verify", login |-> "credentials",
              update |-> "guard", delete |-> "guard", get |-> "guard"]

\* What clients can send now.
Requests ==
         [op : {"create"}, email : Email]
    \cup [op : {"update"}, user : {holder[k] : k \in TokensGiven}, account : Known, email : Email]
    \cup [op : {"delete", "get"}, user : {holder[k] : k \in TokensGiven}, account : Known]
    \cup [op : {"login"}, account : Known, email : Email]
    \cup [op : {"refresh"}, token : TokensGiven]

Begin(r) ==
    /\ begun < MaxCalls
    /\ begun' = begun + 1
    /\ call' = Append(call, r)
    /\ step' = Append(step, FirstStep[r.op])
    /\ ended' = Append(ended, EndedCalls)
    /\ UNCHANGED <<uniqueIndex, read, holder, customerVars, stored>>

Goes(c, from, to) ==
    /\ c \in 1..begun
    /\ step[c] = from
    /\ step' = [step EXCEPT ![c] = to]
    /\ UNCHANGED <<uniqueIndex, begun, call, ended>>

WithEmail(e) == {a \in Call : emailOf[a] = e}

----------------------------------------------------------------------------
(* createCustomer                                                           *)

\* Mutant: the email is not looked up.
FindByEmailSkipped(c) ==
    /\ Goes(c, "findEmail", "insert")
    /\ UNCHANGED <<read, holder, customerVars, stored>>

FindByEmail(c) ==
    /\ Goes(c, "findEmail", IF WithEmail(call[c].email) # {} THEN "conflict" ELSE "insert")
    /\ UNCHANGED <<read, holder, customerVars, stored>>

\* Writes the email of a document, which the unique index may refuse.
WriteEmail(c, a, newVersion) ==
    IF uniqueIndex /\ WithEmail(call[c].email) \ {a} # {}
    THEN Goes(c, step[c], "error") /\ UNCHANGED customerVars
    ELSE /\ Goes(c, step[c], "reply")
         /\ emailOf' = [emailOf EXCEPT ![a] = call[c].email]
         /\ version' = [version EXCEPT ![a] = newVersion]

InsertCustomer(c) ==
    /\ step[c] = "insert"
    /\ WriteEmail(c, c, 0)
    /\ UNCHANGED <<read, holder, stored>>

----------------------------------------------------------------------------
(* updateCustomer, deleteCustomer, getCustomer: behind the guard            *)

\* CustomerJwtStrategy.validate: the token may have expired, the customer be gone.
CheckAccessToken(c) ==
    /\ \E to \in {"fetch", "unauthorized"} :
          /\ Goes(c, "guard", to)
          /\ to = "fetch" => emailOf[call[c].user] # NoEmail
    /\ UNCHANGED <<read, holder, customerVars, stored>>

GetCustomer(c) ==
    /\ Goes(c, "fetch",
            IF emailOf[call[c].account] = NoEmail THEN "notFound"
            ELSE [update |-> "save", delete |-> "remove", get |-> "reply"][call[c].op])
    /\ read' = [read EXCEPT ![c] = [email |-> emailOf[call[c].account],
                                    version |-> version[call[c].account]]]
    /\ UNCHANGED <<holder, customerVars, stored>>

\* Mutant: the document is saved whether it is still there or not.
SaveCustomerAnyway(c) ==
    /\ step[c] = "save"
    /\ WriteEmail(c, call[c].account, read[c].version + 1)
    /\ UNCHANGED <<read, holder, stored>>

\* customer.save(): nobody has looked for the new email.  With optimisticConcurrency the
\* update matches the document only in the version read; a document without changes is
\* only looked for.
SaveCustomer(c) ==
    LET a == call[c].account
        changed == call[c].email # read[c].email
    IN  /\ step[c] = "save"
        /\ IF emailOf[a] = NoEmail \/ (changed /\ version[a] # read[c].version)
           THEN Goes(c, "save", "error") /\ UNCHANGED customerVars
           ELSE IF changed
           THEN WriteEmail(c, a, version[a] + 1)
           ELSE Goes(c, "save", "reply") /\ UNCHANGED customerVars
        /\ UNCHANGED <<read, holder, stored>>

\* customer.deleteOne() answers true even if there is nothing left to delete.  The tokens
\* of the customer stay.
RemoveCustomer(c) ==
    /\ Goes(c, "remove", "reply")
    /\ emailOf' = [emailOf EXCEPT ![call[c].account] = NoEmail]
    /\ UNCHANGED <<version, read, holder, stored>>

----------------------------------------------------------------------------
(* login and refreshAuthTokens                                              *)

\* CustomerLocalStrategy.validate: findOne returns some customer with the email, and the
\* password is that of the customer it was chosen for.
GetCustomerByCredentials(c) ==
    \/ /\ Goes(c, "credentials", "store")
       /\ call[c].account \in WithEmail(call[c].email)
       /\ holder' = [holder EXCEPT ![c] = call[c].account]
       /\ UNCHANGED <<read, customerVars, stored>>
    \/ /\ Goes(c, "credentials", "unauthorized")
       /\ WithEmail(call[c].email) # {call[c].account}
       /\ UNCHANGED <<read, holder, customerVars, stored>>

\* getAuthTokenPayload: the token may have expired.
VerifyRefreshToken(c) ==
    \/ /\ Goes(c, "verify", "compare")
       /\ holder' = [holder EXCEPT ![c] = holder[call[c].token]]
       /\ UNCHANGED <<read, customerVars, stored>>
    \/ /\ Goes(c, "verify", "unauthorized")
       /\ UNCHANGED <<read, holder, customerVars, stored>>

\* Mutant: any token that is on record for the customer will do.
CompareAnyStoredToken(c) ==
    /\ Goes(c, "compare", IF stored[holder[c]] # 0 THEN "store" ELSE "unauthorized")
    /\ UNCHANGED <<read, holder, customerVars, stored>>

\* getStoredRefreshToken: it must be the token the client has sent.
CompareStoredToken(c) ==
    /\ Goes(c, "compare", IF stored[holder[c]] = call[c].token THEN "store" ELSE "unauthorized")
    /\ UNCHANGED <<read, holder, customerVars, stored>>

\* generateAuthTokens: the new refresh token replaces the one on record.
StoreRefreshToken(c) ==
    /\ Goes(c, "store", "reply")
    /\ stored' = [stored EXCEPT ![holder[c]] = c]
    /\ UNCHANGED <<read, holder, customerVars>>

\* The time to live of a key ends, or Redis evicts it.
ForgetToken(a) ==
    /\ stored[a] # 0
    /\ stored' = [stored EXCEPT ![a] = 0]
    /\ UNCHANGED <<uniqueIndex, begun, call, step, read, holder, customerVars, ended>>

----------------------------------------------------------------------------

Reply(c) ==
    /\ Goes(c, "reply", "done")
    /\ UNCHANGED <<read, holder, customerVars, stored>>

\* An await of the call rejects, or the process it runs in dies: what it has written stays,
\* and the client gets an error or nothing.
CallFails(c) ==
    /\ step[c] \in CallRunning
    /\ Goes(c, step[c], "error")
    /\ UNCHANGED <<read, holder, customerVars, stored>>

CallStep(c) ==
    \/ FindByEmail(c)
    \/ InsertCustomer(c)
    \/ CheckAccessToken(c)
    \/ GetCustomer(c)
    \/ SaveCustomer(c)
    \/ RemoveCustomer(c)
    \/ GetCustomerByCredentials(c)
    \/ VerifyRefreshToken(c)
    \/ CompareStoredToken(c)
    \/ StoreRefreshToken(c)
    \/ Reply(c)

AccountsNext ==
    \/ \E r \in Requests : Begin(r)
    \/ \E c \in 1..begun : CallStep(c) \/ CallFails(c)
    \/ \E a \in Call : ForgetToken(a)

AccountsSpec == AccountsInit /\ [][AccountsNext]_accountsVars

----------------------------------------------------------------------------

Overlap(c, d) == c \notin ended[d] /\ d \notin ended[c]

\* Without the index two customers come to share an email only by a race: the calls that
\* created them overlapped, or one of them got the email from updateCustomer, which does
\* not look for it.
SharedEmailsComeFromRaces ==
    \A a, b \in Call : (a # b /\ emailOf[a] = emailOf[b] /\ emailOf[a] # NoEmail) =>
        /\ ~uniqueIndex
        /\ Overlap(a, b) \/ version[a] > 0 \/ version[b] > 0

OneRefreshPerToken ==
    \A c, d \in Call :
        (c # d /\ {c, d} \subseteq EndedCalls /\ step[c] = "done" /\ step[d] = "done"
            /\ call[c].op = "refresh" /\ call[d] = call[c])
        => Overlap(c, d)

LatestTokensStayGood ==
    \A c \in TokensGiven :
        LET a == holder[c]
        IN  stored[a] \in {0, c} \/ (stored[a] \notin ended[c] /\ holder[stored[a]] = a)

\* A refresh token is good for one refresh, unless two of them overlap; and the tokens a
\* client was given are good until a call that was not over when it asked generates tokens
\* for the same customer, or the key is dropped: no older call undoes it.
RefreshTokensRotate == OneRefreshPerToken /\ LatestTokensStayGood

\* After a deletion was answered the customer is gone for good, and what the customer's
\* access token is used for afterwards is refused.
DeletedCustomersStayOut ==
    \A d \in EndedCalls : (call[d].op = "delete" /\ step[d] = "done") =>
        /\ emailOf[call[d].account] = NoEmail
        /\ \A c \in EndedCalls :
              (/\ call[c].op \in {"update", "delete", "get"}
               /\ call[c].user = call[d].account
               /\ d \in ended[c])
              => step[c] # "done"
=============================================================================
