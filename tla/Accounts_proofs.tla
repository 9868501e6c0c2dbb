--------------------------- MODULE Accounts_proofs ---------------------------
(***************************************************************************)
(* Proofs about Accounts, for any number of calls and emails.  The core    *)
(* (CoreInv) is that a call refers to calls that were over when it         *)
(* arrived, and that what is over does not change.  On it rest three       *)
(* arguments: a call that is about to insert an email has seen nobody      *)
(* older with it (EmailInv); a token that was used is not on record any    *)
(* more (TokenInv); a customer that was deleted is not inserted again,     *)
(* since the call that created it is over (DeleteInv).                     *)
(***************************************************************************)
EXTENDS Accounts, SequenceTheorems, TLAPS

Behind == {"update", "delete", "get"}

\* Which steps are those of which operations.
Placed(c) ==
    /\ step[c] \in {"findEmail", "insert"} => call[c].op = "create"
    /\ step[c] \in {"guard", "fetch"} => call[c].op \in Behind
    /\ step[c] = "save" => call[c].op = "update"
    /\ step[c] = "remove" => call[c].op = "delete"
    /\ step[c] = "credentials" => call[c].op = "login"
    /\ step[c] \in {"verify", "compare"} => call[c].op = "refresh"
    /\ step[c] = "store" => call[c].op \in {"login", "refresh"}

\* A call refers to customers and tokens that clients knew when it arrived.
Refers(c) ==
    /\ ended[c] \subseteq EndedCalls
    /\ call[c].op \in Behind => call[c].account \in 1..begun /\ step[call[c].account] = "done"
    /\ call[c].op = "refresh" => call[c].token \in ended[c] /\ call[c].token \in TokensGiven

\* A document is that of the call that inserted it.
Owned(a) ==
    emailOf[a] # NoEmail =>
        a \in 1..begun /\ call[a].op = "create" /\ step[a] \in {"reply", "done", "error"}

CoreInv ==
    /\ AccountsTypeOK
    /\ \A c \in 1..begun : Placed(c) /\ Refers(c)
    /\ \A a \in Call : Owned(a)

EmailInv ==
    /\ SharedEmailsComeFromRaces
    /\ \A b \in 1..begun : step[b] = "insert" =>
          \A a \in ended[b] : emailOf[a] = call[b].email => version[a] > 0

Recorded(a) ==
    stored[a] # 0 =>
        /\ stored[a] \in 1..begun
        /\ step[stored[a]] \in {"reply", "done", "error"}
        /\ holder[stored[a]] = a

Rotated(c) ==
    /\ step[c] = "store" => holder[c] \in Call
    /\ (call[c].op \in {"login", "refresh"} /\ step[c] \in {"reply", "done"}) =>
          /\ holder[c] \in Call
          /\ stored[holder[c]] \in {0, c} \/ stored[holder[c]] \notin ended[c]
    /\ call[c].op = "refresh" =>
          /\ step[c] \in {"compare", "store", "reply", "done"} => holder[c] = holder[call[c].token]
          /\ step[c] \in {"reply", "done"} => stored[holder[c]] # call[c].token
          /\ step[c] \in {"store", "reply", "done"} =>
                \A b \in ended[c] : call[b] = call[c] => step[b] # "done"

TokenInv ==
    /\ \A a \in Call : Recorded(a)
    /\ \A c \in 1..begun : Rotated(c)

Gone(c) ==
    /\ (call[c].op = "delete" /\ step[c] \in {"reply", "done"}) => emailOf[call[c].account] = NoEmail
    /\ (call[c].op \in Behind /\ step[c] \notin {"guard", "unauthorized", "error"}) =>
          \A d \in ended[c] : (call[d].op = "delete" /\ step[d] = "done") =>
              call[d].account # call[c].user

DeleteInv == \A c \in 1..begun : Gone(c)

AccountsInv == CoreInv /\ EmailInv /\ TokenInv /\ DeleteInv

----------------------------------------------------------------------------

LEMMA AppendCall ==
    ASSUME NEW S, NEW n \in Nat, NEW f \in [1..n -> S], NEW e \in S
    PROVE  /\ Append(f, e) \in [1..(n + 1) -> S]
           /\ Append(f, e)[n + 1] = e
           /\ \A i \in 1..n : Append(f, e)[i] = f[i]
<1>1. f \in Seq(S)
  BY SeqDef
<1>2. DOMAIN f = 1..n
  OBVIOUS
<1>3. Len(f) = n
  BY <1>1, <1>2, LenProperties
<1>4. Append(f, e) \in Seq(S) /\ Len(Append(f, e)) = n + 1
  BY <1>1, <1>3, AppendProperties
<1>5. Append(f, e) \in [1..(n + 1) -> S]
  BY <1>4, LenProperties
<1>6. Append(f, e)[n + 1] = e /\ \A i \in 1..n : Append(f, e)[i] = f[i]
  BY <1>1, <1>3, AppendProperties
<1>7. QED
  BY <1>5, <1>6

LEMMA InitAccounts == AccountsInit => AccountsInv
<1> SUFFICES ASSUME AccountsInit PROVE AccountsInv
  OBVIOUS
<1> USE AccountsAssumption, EmailAssumption DEF AccountsInit
<1>1. begun = 3 /\ 1..begun = {1, 2, 3} /\ {1, 2, 3} \subseteq Call /\ MaxCalls \in Nat
  BY DEF Call
<1>2. /\ step[1] = "done" /\ step[2] = "done" /\ step[3] = "done"
      /\ call[1] = [op |-> "create", email |-> FirstEmail]
      /\ call[2] = [op |-> "create", email |-> SecondEmail]
      /\ call[3] = [op |-> "login", account |-> 1, email |-> FirstEmail]
      /\ ended[1] = {} /\ ended[2] = {1} /\ ended[3] = {1, 2}
  OBVIOUS
<1>3. EndedCalls = {1, 2, 3}
  BY <1>1, <1>2 DEF EndedCalls, CallEnded
<1>4. AccountsTypeOK
  <2>1. call[1] \in CallRequest /\ call[2] \in CallRequest /\ call[3] \in CallRequest
    BY <1>1, <1>2 DEF CallRequest
  <2>2. call \in [1..begun -> CallRequest]
    BY <1>1, <2>1
  <2>3. step \in [1..begun -> CallRunning \cup CallEnded]
    BY <1>1, <1>2 DEF CallEnded
  <2>4. ended \in [1..begun -> SUBSET Call]
    BY <1>1, <1>2
  <2>5. read \in [Call -> [email : Email \cup {NoEmail}, version : Nat]]
    OBVIOUS
  <2>6. /\ holder \in [Call -> 0..MaxCalls] /\ stored \in [Call -> 0..MaxCalls]
        /\ emailOf \in [Call -> Email \cup {NoEmail}] /\ version \in [Call -> Nat]
    BY <1>1
  <2>7. QED
    BY <1>1, <2>2, <2>3, <2>4, <2>5, <2>6 DEF AccountsTypeOK
<1>5. CoreInv
  <2>1. \A c \in 1..begun : Placed(c) /\ Refers(c)
    BY <1>1, <1>2, <1>3 DEF Placed, Refers, Behind
  <2>2. \A a \in Call : Owned(a)
    BY <1>1, <1>2 DEF Owned
  <2>3. QED
    BY <1>4, <2>1, <2>2 DEF CoreInv
<1>6. EmailInv
  BY <1>1, <1>2 DEF EmailInv, SharedEmailsComeFromRaces
<1>7. TokenInv
  BY <1>1, <1>2 DEF TokenInv, Recorded, Rotated
<1>8. DeleteInv
  BY <1>1, <1>2 DEF DeleteInv, Gone, Behind
<1>9. QED
  BY <1>5, <1>6, <1>7, <1>8 DEF AccountsInv

----------------------------------------------------------------------------
(* Steps of a call                                                          *)

LEMMA RequestFields ==
    ASSUME NEW r \in CallRequest
    PROVE  /\ r.op \in {"create", "update", "delete", "get", "login", "refresh"}
           /\ r.op \in {"create", "update", "login"} => r.email \in Email
           /\ r.op \in Behind => r.user \in Call /\ r.account \in Call
           /\ r.op = "login" => r.account \in Call
           /\ r.op = "refresh" => r.token \in Call
BY DEF CallRequest, Behind

\* A call moves from a step to another, and the others stay where they are.
Moved(c) ==
    /\ c \in 1..begun /\ c \in Call /\ 1..begun \subseteq Call
    /\ step[c] \in CallRunning /\ c \notin EndedCalls
    /\ begun' = begun /\ call' = call /\ ended' = ended /\ uniqueIndex' = uniqueIndex
    /\ step' \in [1..begun -> CallRunning \cup CallEnded]
    /\ \A b \in 1..begun : b # c => step'[b] = step[b]
    /\ EndedCalls \subseteq EndedCalls'
    /\ \A b \in EndedCalls : b \in 1..begun /\ b # c /\ step'[b] = step[b]

LEMMA GoesMoves ==
    ASSUME AccountsTypeOK, NEW c \in 1..begun, NEW from, NEW to \in CallRunning \cup CallEnded,
           Goes(c, from, to), from \in CallRunning
    PROVE  Moved(c) /\ step'[c] = to
<1> USE DEF AccountsTypeOK, Goes
<1>1. c \in Call /\ 1..begun \subseteq Call
  BY AccountsAssumption DEF Call
<1>2. /\ step' \in [1..begun -> CallRunning \cup CallEnded]
      /\ step'[c] = to
      /\ \A b \in 1..begun : b # c => step'[b] = step[b]
  OBVIOUS
<1>3. c \notin EndedCalls
  BY DEF EndedCalls, CallRunning, CallEnded
<1>4. \A b \in EndedCalls : b \in 1..begun /\ b # c /\ step'[b] = step[b]
  BY <1>2, <1>3 DEF EndedCalls
<1>5. EndedCalls \subseteq EndedCalls'
  BY <1>4 DEF EndedCalls
<1>6. QED
  BY <1>1, <1>2, <1>3, <1>4, <1>5 DEF Moved

\* What the steps of a call have in common.
LEMMA StepMoves ==
    ASSUME CoreInv, NEW c \in 1..begun, CallStep(c) \/ CallFails(c)
    PROVE  Moved(c)
<1> USE GoesMoves DEF CallRunning, CallEnded
<1> AccountsTypeOK /\ Placed(c)
  BY DEF CoreInv
<1>1. CASE FindByEmail(c)
  BY <1>1 DEF FindByEmail
<1>2. CASE InsertCustomer(c)
  BY <1>2 DEF InsertCustomer, WriteEmail
<1>3. CASE CheckAccessToken(c)
  BY <1>3 DEF CheckAccessToken
<1>4. CASE GetCustomer(c)
  <2>1. step[c] = "fetch"
    BY <1>4 DEF GetCustomer, Goes
  <2>2. call[c].op \in Behind
    BY <2>1 DEF Placed
  <2>3. QED
    BY <1>4, <2>2 DEF GetCustomer, Behind
<1>5. CASE SaveCustomer(c)
  BY <1>5 DEF SaveCustomer, WriteEmail
<1>6. CASE RemoveCustomer(c)
  BY <1>6 DEF RemoveCustomer
<1>7. CASE GetCustomerByCredentials(c)
  BY <1>7 DEF GetCustomerByCredentials
<1>8. CASE VerifyRefreshToken(c)
  BY <1>8 DEF VerifyRefreshToken
<1>9. CASE CompareStoredToken(c)
  BY <1>9 DEF CompareStoredToken
<1>10. CASE StoreRefreshToken(c)
  BY <1>10 DEF StoreRefreshToken
<1>11. CASE Reply(c)
  BY <1>11 DEF Reply
<1>12. CASE CallFails(c)
  BY <1>12 DEF CallFails
<1>13. QED
  BY <1>1, <1>2, <1>3, <1>4, <1>5, <1>6, <1>7, <1>8, <1>9, <1>10, <1>11, <1>12 DEF CallStep

\* What a step of a call does to the customers: nothing, or one of three writes.
LEMMA CustomerWrites ==
    ASSUME CoreInv, NEW c \in 1..begun, CallStep(c) \/ CallFails(c)
    PROVE  \/ UNCHANGED customerVars
           \/ /\ step[c] = "insert" /\ step'[c] = "reply"
              /\ uniqueIndex => WithEmail(call[c].email) \ {c} = {}
              /\ emailOf' = [emailOf EXCEPT ![c] = call[c].email]
              /\ version' = [version EXCEPT ![c] = 0]
           \/ /\ step[c] = "save" /\ step'[c] = "reply"
              /\ emailOf[call[c].account] # NoEmail
              /\ uniqueIndex => WithEmail(call[c].email) \ {call[c].account} = {}
              /\ emailOf' = [emailOf EXCEPT ![call[c].account] = call[c].email]
              /\ version' = [version EXCEPT ![call[c].account] = version[call[c].account] + 1]
           \/ /\ step[c] = "remove" /\ step'[c] = "reply"
              /\ emailOf' = [emailOf EXCEPT ![call[c].account] = NoEmail]
              /\ UNCHANGED version
<1> USE DEF customerVars
<1> AccountsTypeOK
  BY DEF CoreInv
<1>1. CASE InsertCustomer(c)
  BY <1>1 DEF InsertCustomer, WriteEmail, Goes, AccountsTypeOK
<1>2. CASE SaveCustomer(c)
  BY <1>2 DEF SaveCustomer, WriteEmail, Goes, AccountsTypeOK
<1>3. CASE RemoveCustomer(c)
  BY <1>3 DEF RemoveCustomer, Goes, AccountsTypeOK
<1>4. CASE ~(InsertCustomer(c) \/ SaveCustomer(c) \/ RemoveCustomer(c))
  BY <1>4 DEF CallStep, FindByEmail, CheckAccessToken, GetCustomer, GetCustomerByCredentials,
     VerifyRefreshToken, CompareStoredToken, StoreRefreshToken, Reply, CallFails
<1>5. QED
  BY <1>1, <1>2, <1>3, <1>4

\* What it does to the tokens: nothing, or it learns whom they are for, or records one.
LEMMA TokenWrites ==
    ASSUME CoreInv, NEW c \in 1..begun, CallStep(c) \/ CallFails(c)
    PROVE  \/ /\ step'[c] = "store" => step[c] = "compare"
              /\ step'[c] = "reply" => step[c] # "store"
              /\ step'[c] # "compare" /\ UNCHANGED <<holder, stored>>
           \/ /\ step[c] = "credentials" /\ step'[c] = "store" /\ UNCHANGED stored
              /\ holder' = [holder EXCEPT ![c] = call[c].account]
           \/ /\ step[c] = "verify" /\ step'[c] = "compare" /\ UNCHANGED stored
              /\ holder' = [holder EXCEPT ![c] = holder[call[c].token]]
           \/ /\ step[c] = "store" /\ step'[c] = "reply" /\ UNCHANGED holder
              /\ stored' = [stored EXCEPT ![holder[c]] = c]
<1> AccountsTypeOK
  BY DEF CoreInv
<1>1. CASE GetCustomerByCredentials(c)
  BY <1>1 DEF GetCustomerByCredentials, Goes, AccountsTypeOK
<1>2. CASE VerifyRefreshToken(c)
  BY <1>2 DEF VerifyRefreshToken, Goes, AccountsTypeOK
<1>3. CASE StoreRefreshToken(c)
  BY <1>3 DEF StoreRefreshToken, Goes, AccountsTypeOK
<1>4. CASE ~(GetCustomerByCredentials(c) \/ VerifyRefreshToken(c) \/ StoreRefreshToken(c))
  <2>1. UNCHANGED <<holder, stored>>
    BY <1>4 DEF CallStep, FindByEmail, CheckAccessToken, GetCustomer, InsertCustomer,
       SaveCustomer, RemoveCustomer, CompareStoredToken, Reply, CallFails
  <2>2. /\ step'[c] = "store" => step[c] = "compare"
        /\ step'[c] = "reply" => step[c] # "store"
        /\ step'[c] # "compare"
    <3>1. Placed(c) /\ step[c] \in CallRunning \cup CallEnded
      BY DEF CoreInv, AccountsTypeOK
    <3>2. CASE GetCustomer(c)
      BY <3>1, <3>2 DEF GetCustomer, Goes, AccountsTypeOK, Placed, Behind
    <3>3. CASE ~GetCustomer(c)
      BY <1>4, <3>1, <3>3 DEF CallStep, FindByEmail, CheckAccessToken, InsertCustomer,
         SaveCustomer, WriteEmail, RemoveCustomer, CompareStoredToken, Reply, CallFails, Goes,
         AccountsTypeOK
    <3>4. QED
      BY <3>2, <3>3
  <2>3. QED
    BY <2>1, <2>2
<1>5. QED
  BY <1>1, <1>2, <1>3, <1>4

\* Where a step of a call leads.
Leads(c) ==
    \/ step'[c] \in {"unauthorized", "error"}
    \/ step[c] = "findEmail" /\ step'[c] = "conflict"
    \/ step[c] = "fetch" /\ step'[c] = "notFound"
    \/ step[c] = "findEmail" /\ step'[c] = "insert" /\ WithEmail(call[c].email) = {}
    \/ step[c] = "guard" /\ step'[c] = "fetch" /\ emailOf[call[c].user] # NoEmail
    \/ /\ step[c] = "fetch"
       /\ \/ step'[c] = "save" /\ call[c].op = "update"
          \/ step'[c] = "remove" /\ call[c].op = "delete"
          \/ step'[c] = "reply" /\ call[c].op = "get"
    \/ step[c] = "credentials" /\ step'[c] = "store"
    \/ step[c] = "verify" /\ step'[c] = "compare"
    \/ step[c] = "compare" /\ step'[c] = "store" /\ stored[holder[c]] = call[c].token
    \/ step[c] \in {"insert", "save", "remove", "store"} /\ step'[c] = "reply"
    \/ step[c] = "reply" /\ step'[c] = "done"

LEMMA StepLeads ==
    ASSUME CoreInv, NEW c \in 1..begun, CallStep(c) \/ CallFails(c)
    PROVE  Leads(c)
<1> AccountsTypeOK /\ Placed(c)
  BY DEF CoreInv
<1> USE DEF Leads, Goes, AccountsTypeOK
<1>1. CASE FindByEmail(c)
  BY <1>1 DEF FindByEmail
<1>2. CASE InsertCustomer(c)
  BY <1>2 DEF InsertCustomer, WriteEmail
<1>3. CASE CheckAccessToken(c)
  BY <1>3 DEF CheckAccessToken
<1>4. CASE GetCustomer(c)
  BY <1>4 DEF GetCustomer, Placed, Behind
<1>5. CASE SaveCustomer(c)
  BY <1>5 DEF SaveCustomer, WriteEmail
<1>6. CASE RemoveCustomer(c)
  BY <1>6 DEF RemoveCustomer
<1>7. CASE GetCustomerByCredentials(c)
  BY <1>7 DEF GetCustomerByCredentials
<1>8. CASE VerifyRefreshToken(c)
  BY <1>8 DEF VerifyRefreshToken
<1>9. CASE CompareStoredToken(c)
  BY <1>9 DEF CompareStoredToken
<1>10. CASE StoreRefreshToken(c)
  BY <1>10 DEF StoreRefreshToken
<1>11. CASE Reply(c)
  BY <1>11 DEF Reply
<1>12. CASE CallFails(c)
  BY <1>12 DEF CallFails
<1>13. QED
  BY <1>1, <1>2, <1>3, <1>4, <1>5, <1>6, <1>7, <1>8, <1>9, <1>10, <1>11, <1>12 DEF CallStep

----------------------------------------------------------------------------
(* The steps of a call preserve the invariant                               *)

LEMMA StepReads ==
    ASSUME CoreInv, NEW c \in 1..begun, CallStep(c) \/ CallFails(c)
    PROVE  read' \in [Call -> [email : Email \cup {NoEmail}, version : Nat]]
<1> AccountsTypeOK /\ Placed(c) /\ call[c] \in CallRequest
  BY DEF CoreInv, AccountsTypeOK
<1>1. CASE GetCustomer(c)
  <2>1. call[c].account \in Call
    BY <1>1, RequestFields DEF GetCustomer, Goes, Placed
  <2>2. [email |-> emailOf[call[c].account], version |-> version[call[c].account]]
            \in [email : Email \cup {NoEmail}, version : Nat]
    BY <2>1 DEF AccountsTypeOK
  <2>3. QED
    BY <1>1, <2>2 DEF GetCustomer, AccountsTypeOK
<1>2. CASE ~GetCustomer(c)
  <2>1. UNCHANGED read
    BY <1>2 DEF CallStep, FindByEmail, InsertCustomer, CheckAccessToken, SaveCustomer,
       RemoveCustomer, GetCustomerByCredentials, VerifyRefreshToken, CompareStoredToken,
       StoreRefreshToken, Reply, CallFails
  <2>2. QED
    BY <2>1 DEF AccountsTypeOK
<1>3. QED
  BY <1>1, <1>2

LEMMA StepReplies ==
    ASSUME CoreInv, NEW c \in 1..begun, CallStep(c) \/ CallFails(c), step[c] = "reply"
    PROVE  step'[c] \in {"done", "error"}
<1> AccountsTypeOK
  BY DEF CoreInv
<1>1. CASE Reply(c)
  BY <1>1 DEF Reply, Goes, AccountsTypeOK
<1>2. CASE CallFails(c)
  BY <1>2 DEF CallFails, Goes, AccountsTypeOK
<1>3. CASE ~(Reply(c) \/ CallFails(c))
  BY <1>3 DEF CallStep, FindByEmail, InsertCustomer, CheckAccessToken, GetCustomer, SaveCustomer,
     RemoveCustomer, GetCustomerByCredentials, VerifyRefreshToken, CompareStoredToken,
     StoreRefreshToken, Goes
<1>4. QED
  BY <1>1, <1>2, <1>3

LEMMA StepRemoves ==
    ASSUME CoreInv, NEW c \in 1..begun, CallStep(c) \/ CallFails(c),
           step[c] = "remove", step'[c] # "error"
    PROVE  emailOf' = [emailOf EXCEPT ![call[c].account] = NoEmail]
<1> AccountsTypeOK
  BY DEF CoreInv
<1>1. CASE RemoveCustomer(c)
  BY <1>1 DEF RemoveCustomer
<1>2. CASE CallFails(c)
  BY <1>2 DEF CallFails, Goes, AccountsTypeOK
<1>3. CASE ~(RemoveCustomer(c) \/ CallFails(c))
  BY <1>3 DEF CallStep, FindByEmail, InsertCustomer, CheckAccessToken, GetCustomer, SaveCustomer,
     GetCustomerByCredentials, VerifyRefreshToken, CompareStoredToken, StoreRefreshToken, Reply,
     Goes
<1>4. QED
  BY <1>1, <1>2, <1>3

\* The fields of a request that the step of a call uses.
LEMMA StepFields ==
    ASSUME CoreInv, NEW c \in 1..begun
    PROVE  /\ step[c] \in {"insert", "save"} => call[c].email \in Email
           /\ step[c] \in {"fetch", "save", "remove", "credentials"} => call[c].account \in Call
           /\ step[c] \in {"verify", "compare"} => call[c].token \in Call
<1>1. Placed(c) /\ call[c] \in CallRequest
  BY DEF CoreInv, AccountsTypeOK
<1>2. QED
  BY <1>1, RequestFields DEF Placed, Behind

\* What a step of a call does to one document.
Document(c, a) ==
    \/ emailOf'[a] = emailOf[a] /\ version'[a] = version[a]
    \/ /\ step[c] = "insert" /\ step'[c] = "reply" /\ a = c
       /\ uniqueIndex => WithEmail(call[c].email) \ {a} = {}
       /\ emailOf'[a] = call[c].email /\ version'[a] = 0
    \/ /\ step[c] = "save" /\ step'[c] = "reply" /\ a = call[c].account /\ emailOf[a] # NoEmail
       /\ uniqueIndex => WithEmail(call[c].email) \ {a} = {}
       /\ emailOf'[a] = call[c].email /\ version'[a] = version[a] + 1
    \/ /\ step[c] = "remove" /\ step'[c] = "reply" /\ a = call[c].account
       /\ emailOf'[a] = NoEmail /\ version'[a] = version[a]

LEMMA StepDocuments ==
    ASSUME CoreInv, NEW c \in 1..begun, CallStep(c) \/ CallFails(c)
    PROVE  /\ emailOf' \in [Call -> Email \cup {NoEmail}] /\ version' \in [Call -> Nat]
           /\ \A a \in Call : Document(c, a)
<1>1. /\ emailOf \in [Call -> Email \cup {NoEmail}] /\ version \in [Call -> Nat]
      /\ Moved(c)
  BY StepMoves DEF CoreInv, AccountsTypeOK
<1>2. CASE UNCHANGED customerVars
  BY <1>1, <1>2 DEF customerVars, Document
<1>3. CASE step[c] = "insert"
  <2>1. c \in Call /\ call[c].email \in Email
    BY <1>1, <1>3, StepFields DEF Moved
  <2>2. \/ UNCHANGED customerVars
        \/ /\ step'[c] = "reply"
           /\ uniqueIndex => WithEmail(call[c].email) \ {c} = {}
           /\ emailOf' = [emailOf EXCEPT ![c] = call[c].email]
           /\ version' = [version EXCEPT ![c] = 0]
    BY <1>3, CustomerWrites
  <2>3. QED
    BY <1>1, <1>2, <1>3, <2>1, <2>2 DEF Document
<1>4. CASE step[c] = "save"
  <2>1. call[c].account \in Call /\ call[c].email \in Email
    BY <1>4, StepFields
  <2>2. \/ UNCHANGED customerVars
        \/ /\ step'[c] = "reply"
           /\ emailOf[call[c].account] # NoEmail
           /\ uniqueIndex => WithEmail(call[c].email) \ {call[c].account} = {}
           /\ emailOf' = [emailOf EXCEPT ![call[c].account] = call[c].email]
           /\ version' = [version EXCEPT ![call[c].account] = version[call[c].account] + 1]
    BY <1>4, CustomerWrites
  <2>3. QED
    BY <1>1, <1>2, <1>4, <2>1, <2>2 DEF Document
<1>5. CASE step[c] = "remove"
  <2>1. call[c].account \in Call
    BY <1>5, StepFields
  <2>2. \/ UNCHANGED customerVars
        \/ /\ step'[c] = "reply"
           /\ emailOf' = [emailOf EXCEPT ![call[c].account] = NoEmail]
           /\ UNCHANGED version
    BY <1>5, CustomerWrites
  <2>3. QED
    BY <1>1, <1>2, <1>5, <2>1, <2>2 DEF Document
<1>6. QED
  BY <1>2, <1>3, <1>4, <1>5, CustomerWrites

LEMMA StepType ==
    ASSUME CoreInv, TokenInv, NEW c \in 1..begun, CallStep(c) \/ CallFails(c)
    PROVE  AccountsTypeOK'
<1> USE AccountsAssumption
<1>1. AccountsTypeOK /\ Placed(c) /\ call[c] \in CallRequest /\ Moved(c) /\ Rotated(c)
  BY StepMoves DEF CoreInv, AccountsTypeOK, TokenInv
<1>2. emailOf' \in [Call -> Email \cup {NoEmail}] /\ version' \in [Call -> Nat]
  BY StepDocuments
<1>3. holder' \in [Call -> 0..MaxCalls]
  <2>1. holder \in [Call -> 0..MaxCalls] /\ c \in Call
    BY <1>1 DEF AccountsTypeOK, Moved
  <2>2. step[c] = "credentials" => call[c].account \in 0..MaxCalls
    BY StepFields DEF Call
  <2>3. step[c] = "verify" => holder[call[c].token] \in 0..MaxCalls
    BY <2>1, StepFields
  <2>4. QED
    BY <2>1, <2>2, <2>3, TokenWrites
<1>4. stored' \in [Call -> 0..MaxCalls]
  <2>1. stored \in [Call -> 0..MaxCalls] /\ c \in 0..MaxCalls
    BY <1>1 DEF AccountsTypeOK, Moved, Call
  <2>2. QED
    BY <2>1, TokenWrites
<1>5. QED
  BY <1>1, <1>2, <1>3, <1>4, StepReads DEF AccountsTypeOK, Moved

LEMMA StepCore ==
    ASSUME CoreInv, TokenInv, NEW c \in 1..begun, CallStep(c) \/ CallFails(c)
    PROVE  CoreInv'
<1>1. AccountsTypeOK /\ AccountsTypeOK' /\ Placed(c) /\ Moved(c) /\ Leads(c)
  BY StepMoves, StepLeads, StepType DEF CoreInv
<1>2. ASSUME NEW b \in 1..begun' PROVE Placed(b)'
  <2>1. b \in 1..begun /\ Placed(b)
    BY <1>1 DEF Moved, CoreInv
  <2>2. CASE b # c
    BY <1>1, <2>1, <2>2 DEF Moved, Placed
  <2>3. CASE b = c
    BY <1>1, <2>3 DEF Moved, Placed, Leads
  <2>4. QED
    BY <2>2, <2>3
<1>3. ASSUME NEW b \in 1..begun' PROVE Refers(b)'
  <2>1. b \in 1..begun /\ Refers(b)
    BY <1>1 DEF Moved, CoreInv
  <2>2. \A a \in 1..begun : step[a] = "done" => step'[a] = "done"
    BY <1>1 DEF Moved, CallRunning
  <2>3. TokensGiven \subseteq TokensGiven'
    BY <1>1, <2>2 DEF TokensGiven, Moved
  <2>4. QED
    BY <1>1, <2>1, <2>2, <2>3 DEF Moved, Refers
<1>4. ASSUME NEW a \in Call PROVE Owned(a)'
  <2>1. Owned(a)
    BY DEF CoreInv
  <2>2. (a \in 1..begun /\ step[a] \in {"reply", "done", "error"}) =>
            step'[a] \in {"reply", "done", "error"}
    <3>1. CASE a = c /\ step[a] = "reply"
      BY <1>1, <3>1, StepReplies
    <3>2. CASE a # c
      BY <1>1, <3>2 DEF Moved
    <3>3. QED
      BY <1>1, <3>1, <3>2 DEF Moved, CallRunning
  <2>3. CASE emailOf[a] # NoEmail
    BY <1>1, <2>1, <2>2, <2>3 DEF Owned, Moved
  <2>4. CASE emailOf[a] = NoEmail /\ emailOf'[a] # NoEmail
    <3>1. a = c /\ step[c] = "insert" /\ step'[c] = "reply"
      <4>1. Document(c, a)
        BY StepDocuments
      <4>2. QED
        BY <2>4, <4>1 DEF Document
    <3>2. QED
      BY <1>1, <3>1 DEF Owned, Moved, Placed
  <2>5. QED
    BY <2>3, <2>4 DEF Owned
<1>5. QED
  BY <1>1, <1>2, <1>3, <1>4 DEF CoreInv

LEMMA StepEmail ==
    ASSUME CoreInv, EmailInv, NEW c \in 1..begun, CallStep(c) \/ CallFails(c)
    PROVE  EmailInv'
<1>1. /\ AccountsTypeOK /\ Placed(c) /\ Refers(c) /\ Moved(c) /\ Leads(c)
      /\ call[c] \in CallRequest /\ version \in [Call -> Nat]
      /\ \A a \in Call : Document(c, a)
  BY StepMoves, StepLeads, StepDocuments DEF CoreInv, AccountsTypeOK
<1>2. step[c] = "insert" => emailOf[c] = NoEmail
  <2>1. Owned(c)
    BY <1>1 DEF CoreInv, Moved
  <2>2. QED
    BY <2>1 DEF Owned
<1>3. ASSUME NEW a \in Call, NEW b \in Call, a # b,
             emailOf'[a] = emailOf'[b], emailOf'[a] # NoEmail
      PROVE  /\ ~uniqueIndex'
             /\ Overlap(a, b)' \/ version'[a] > 0 \/ version'[b] > 0
  <2>1. Overlap(a, b)' = Overlap(a, b)
    BY <1>1 DEF Moved, Overlap
  <2>2. CASE emailOf[a] = emailOf[b] /\ emailOf[a] # NoEmail
    <3>1. ~uniqueIndex /\ (Overlap(a, b) \/ version[a] > 0 \/ version[b] > 0)
      BY <1>3, <2>2 DEF EmailInv, SharedEmailsComeFromRaces
    <3>2. \A d \in {a, b} : version[d] > 0 => version'[d] > 0
      BY <1>1, <1>2, <2>2 DEF Document
    <3>3. QED
      BY <1>1, <2>1, <3>1, <3>2 DEF Moved
  <2>3. CASE ~(emailOf[a] = emailOf[b] /\ emailOf[a] # NoEmail)
    <3>0. Document(c, a) /\ Document(c, b)
      BY <1>1
    <3>1. CASE step[c] = "insert"
      <4>1. PICK d \in Call : /\ {a, b} = {c, d} /\ d # c
                              /\ emailOf[d] = call[c].email /\ version'[d] = version[d]
                              /\ uniqueIndex => WithEmail(call[c].email) \ {c} = {}
        <5>1. CASE a = c
          <6>1. emailOf'[b] = emailOf[b] /\ version'[b] = version[b]
            BY <1>3, <3>0, <3>1, <5>1 DEF Document
          <6>2. emailOf'[a] = call[c].email
            BY <1>3, <2>3, <3>0, <3>1, <5>1, <6>1 DEF Document
          <6>3. uniqueIndex => WithEmail(call[c].email) \ {c} = {}
            BY <1>3, <2>3, <3>0, <3>1, <5>1, <6>1 DEF Document
          <6>4. QED
            BY <1>3, <5>1, <6>1, <6>2, <6>3
        <5>2. CASE b = c
          <6>1. emailOf'[a] = emailOf[a] /\ version'[a] = version[a]
            BY <1>3, <3>0, <3>1, <5>2 DEF Document
          <6>2. emailOf'[b] = call[c].email
            BY <1>3, <2>3, <3>0, <3>1, <5>2, <6>1 DEF Document
          <6>3. uniqueIndex => WithEmail(call[c].email) \ {c} = {}
            BY <1>3, <2>3, <3>0, <3>1, <5>2, <6>1 DEF Document
          <6>4. QED
            BY <1>3, <5>2, <6>1, <6>2, <6>3
        <5>3. QED
          BY <1>3, <2>3, <3>0, <3>1, <5>1, <5>2 DEF Document
      <4>2. ~uniqueIndex
        BY <4>1 DEF WithEmail
      <4>3. d \in ended[c] => version[d] > 0
        BY <3>1, <4>1 DEF EmailInv
      <4>4. emailOf[d] # NoEmail
        BY <3>1, <4>1, StepFields, EmailAssumption
      <4>5. d \in 1..begun /\ c \notin ended[d]
        BY <1>1, <4>4 DEF CoreInv, Owned, Refers, Moved
      <4>6. Overlap(a, b) <=> d \notin ended[c]
        BY <4>1, <4>5 DEF Overlap
      <4>7. QED
        BY <1>1, <2>1, <4>1, <4>2, <4>3, <4>6 DEF Moved
    <3>2. CASE step[c] = "save"
      <4>1. PICK d \in {a, b} : d = call[c].account /\ version'[d] = version[d] + 1
        BY <1>3, <2>3, <3>0, <3>2 DEF Document
      <4>2. version'[d] > 0
        BY <1>1, <4>1
      <4>3. ~uniqueIndex
        BY <1>1, <1>3, <2>3, <3>0, <3>2 DEF Document, WithEmail
      <4>4. QED
        BY <1>1, <4>2, <4>3 DEF Moved
    <3>3. QED
      BY <1>3, <2>3, <3>0, <3>1, <3>2 DEF Document
  <2>4. QED
    BY <2>2, <2>3
<1>4. ASSUME NEW b \in 1..begun', step'[b] = "insert",
             NEW a \in ended'[b], emailOf'[a] = call'[b].email
      PROVE  version'[a] > 0
  <2>1. b \in 1..begun /\ a \in ended[b] /\ Refers(b) /\ Placed(b) /\ call[b] \in CallRequest
    BY <1>1, <1>4 DEF Moved, CoreInv, AccountsTypeOK
  <2>2. a \in Call /\ a \in EndedCalls /\ a # c
    BY <1>1, <2>1 DEF Refers, Moved, AccountsTypeOK
  <2>3. CASE b = c
    <3>1. step[c] = "findEmail" /\ WithEmail(call[c].email) = {}
      BY <1>1, <1>4, <2>3 DEF Leads
    <3>2. emailOf'[a] = emailOf[a]
      BY <1>1, <1>4, <2>2, <2>3 DEF Document
    <3>3. QED
      BY <1>1, <1>4, <2>2, <2>3, <3>1, <3>2 DEF WithEmail, Moved
  <2>4. CASE b # c
    <3>1. step[b] = "insert" /\ call'[b] = call[b]
      BY <1>1, <1>4, <2>1, <2>4 DEF Moved
    <3>2. call[b].email # NoEmail
      BY <2>1, <3>1, StepFields, EmailAssumption
    <3>3. emailOf[a] = call[b].email => version[a] > 0
      BY <2>1, <3>1 DEF EmailInv
    <3>4. Document(c, a) /\ version[a] \in Nat
      BY <1>1, <2>2
    <3>5. QED
      BY <1>4, <2>2, <3>1, <3>2, <3>3, <3>4 DEF Document
  <2>5. QED
    BY <2>3, <2>4
<1>5. QED
  BY <1>3, <1>4 DEF EmailInv, SharedEmailsComeFromRaces

LEMMA StepTokens ==
    ASSUME CoreInv, TokenInv, NEW c \in 1..begun, CallStep(c) \/ CallFails(c)
    PROVE  TokenInv'
<1>1. /\ Placed(c) /\ Refers(c) /\ Rotated(c) /\ Moved(c) /\ Leads(c)
      /\ holder \in [Call -> 0..MaxCalls] /\ stored \in [Call -> 0..MaxCalls]
      /\ begun \in 0..MaxCalls
  BY StepMoves, StepLeads DEF CoreInv, AccountsTypeOK, TokenInv
\* The holder of a token changes only before it is generated.
<1>2. \A b \in Call : (b # c \/ step[c] \notin {"credentials", "verify"}) => holder'[b] = holder[b]
  BY <1>1, TokenWrites DEF Moved
\* A key of Redis changes only to the token of this call, which is still running.
<1>3. ASSUME NEW a \in Call
      PROVE  \/ stored'[a] = stored[a]
             \/ /\ step[c] = "store" /\ step'[c] = "reply"
                /\ a = holder[c] /\ stored'[a] = c
  BY <1>1, TokenWrites
<1>4. ASSUME NEW a \in Call PROVE Recorded(a)'
  <2>1. Recorded(a)
    BY DEF TokenInv
  <2>2. CASE stored'[a] = stored[a]
    <3>1. CASE stored[a] = c
      <4>1. step[c] = "reply" \/ stored'[a] = 0
        BY <1>1, <2>1, <2>2, <3>1 DEF Recorded, Moved, CallRunning
      <4>2. QED
        BY <1>1, <1>2, <2>1, <2>2, <3>1, <4>1, StepReplies DEF Recorded, Moved
    <3>2. CASE stored[a] # c
      <4>1. stored[a] # 0 => stored[a] \in Call
        BY <1>1, <2>1 DEF Recorded, Call
      <4>2. QED
        BY <1>1, <1>2, <2>1, <2>2, <3>2, <4>1 DEF Recorded, Moved
    <3>3. QED
      BY <3>1, <3>2
  <2>3. CASE step[c] = "store" /\ step'[c] = "reply" /\ a = holder[c] /\ stored'[a] = c
    BY <1>1, <1>2, <2>3 DEF Recorded, Moved
  <2>4. QED
    BY <1>3, <2>2, <2>3
<1>5. ASSUME NEW b \in 1..begun' PROVE Rotated(b)'
  <2>1. /\ b \in 1..begun /\ b \in Call /\ Rotated(b) /\ Refers(b) /\ Placed(b)
        /\ call[b] \in CallRequest
    BY <1>1 DEF Moved, CoreInv, TokenInv, AccountsTypeOK
  <2>2. /\ step[b] = "store" => holder[b] \in Call
        /\ (call[b].op \in {"login", "refresh"} /\ step[b] \in {"reply", "done"}) =>
              /\ holder[b] \in Call
              /\ stored[holder[b]] \in {0, b} \/ stored[holder[b]] \notin ended[b]
    BY <2>1 DEF Rotated
  <2>3. call[b].op = "refresh" =>
          /\ call[b].token \in EndedCalls /\ call[b].token \in Call /\ call[b].token # c
          /\ holder[call[b].token] \in Call
          /\ holder'[call[b].token] = holder[call[b].token]
    <3>1. SUFFICES ASSUME call[b].op = "refresh"
                   PROVE  /\ call[b].token \in EndedCalls /\ call[b].token \in Call
                          /\ call[b].token # c
                          /\ holder[call[b].token] \in Call
                          /\ holder'[call[b].token] = holder[call[b].token]
      OBVIOUS
    <3>2. call[b].token \in TokensGiven /\ call[b].token \in 1..begun
      BY <2>1, <3>1 DEF Refers, TokensGiven, EndedCalls
    <3>3. call[b].token \in EndedCalls /\ call[b].token \in Call /\ call[b].token # c
      BY <1>1, <3>2 DEF TokensGiven, Moved
    <3>4. Rotated(call[b].token)
      BY <3>2 DEF TokenInv
    <3>5. holder[call[b].token] \in Call
      BY <3>2, <3>4 DEF Rotated, TokensGiven
    <3>6. QED
      BY <1>2, <3>3, <3>5
  \* The calls that were over stay so, with their requests.
  <2>4. /\ call'[b] = call[b] /\ ended'[b] = ended[b]
        /\ \A d \in ended[b] : d # c /\ d \in 1..begun /\ step'[d] = step[d] /\ call'[d] = call[d]
    BY <1>1, <2>1 DEF Moved, Refers
  <2>5. CASE b # c
    <3>1. step'[b] = step[b] /\ holder'[b] = holder[b]
      BY <1>1, <1>2, <2>1, <2>5 DEF Moved
    <3>2. holder[b] \in Call => \/ stored'[holder[b]] = stored[holder[b]]
                               \/ stored'[holder[b]] = c
      BY <1>3
    <3>3. c \notin ended[b]
      BY <2>4
    <3>4. (call[b].op \in {"login", "refresh"} /\ step[b] \in {"reply", "done"}) =>
              stored'[holder[b]] \in {0, b} \/ stored'[holder[b]] \notin ended[b]
      BY <2>2, <3>2, <3>3
    <3>5. (call[b].op = "refresh" /\ step[b] \in {"reply", "done"}) =>
              stored'[holder[b]] # call[b].token
      BY <2>1, <2>2, <2>3, <3>2 DEF Rotated
    <3>6. QED
      BY <2>1, <2>2, <2>3, <2>4, <3>1, <3>4, <3>5 DEF Rotated
  <2>6. CASE b = c
    <3>1. CASE step'[c] = "compare"
      <4>1. step[c] = "verify" /\ call[c].op = "refresh"
        BY <1>1, <3>1 DEF Leads, Placed
      <4>2. holder'[c] = holder[call[c].token]
        BY <1>1, <3>1, <4>1, TokenWrites DEF Moved
      <4>3. QED
        BY <2>3, <2>4, <2>6, <3>1, <4>2 DEF Rotated
    <3>2. CASE step'[c] = "store" /\ step[c] = "credentials"
      <4>1. call[c].op = "login" /\ call[c].account \in Call
        BY <1>1, <3>2, StepFields DEF Placed
      <4>2. holder'[c] = call[c].account
        BY <1>1, <3>2, TokenWrites DEF Moved
      <4>3. QED
        BY <2>4, <2>6, <3>2, <4>1, <4>2 DEF Rotated
    <3>3. CASE step'[c] = "store" /\ step[c] = "compare"
      <4>1. call[c].op = "refresh" /\ stored[holder[c]] = call[c].token
        BY <1>1, <3>3 DEF Leads, Placed
      <4>2. holder'[c] = holder[c] /\ holder[c] = holder[call[c].token]
        BY <1>1, <1>2, <3>3, <4>1 DEF Moved, Rotated
      <4>3. ASSUME NEW d \in ended[c], call[d] = call[c], step[d] = "done" PROVE FALSE
        <5>1. Rotated(d) /\ d \in 1..begun
          BY <1>1, <4>3 DEF Refers, TokenInv, EndedCalls
        <5>2. holder[d] = holder[call[d].token] /\ stored[holder[d]] # call[d].token
          BY <4>1, <4>3, <5>1 DEF Rotated
        <5>3. QED
          BY <4>1, <4>2, <4>3, <5>2
      <4>4. QED
        BY <2>3, <2>4, <2>6, <3>3, <4>1, <4>2, <4>3 DEF Rotated
    <3>4. CASE step'[c] = "reply" /\ step[c] = "store"
      <4>1. holder'[c] = holder[c] /\ stored'[holder[c]] = c /\ holder[c] \in Call
        BY <1>1, <1>2, <3>4, TokenWrites DEF Moved, Rotated
      <4>2. QED
        BY <1>1, <2>3, <2>4, <2>6, <3>4, <4>1 DEF Rotated
    <3>5. CASE step'[c] = "reply" /\ step[c] # "store"
      <4>1. call[c].op \notin {"login", "refresh"}
        BY <1>1, <3>5 DEF Leads, Placed
      <4>2. QED
        BY <2>4, <2>6, <3>5, <4>1 DEF Rotated
    <3>6. CASE step'[c] = "done"
      <4>1. step[c] = "reply"
        BY <1>1, <3>6 DEF Leads
      <4>2. holder'[c] = holder[c] /\ stored' = stored
        BY <1>1, <1>2, <4>1, TokenWrites DEF Moved
      <4>3. QED
        BY <1>1, <2>1, <2>2, <2>3, <2>4, <2>6, <3>6, <4>1, <4>2 DEF Rotated
    <3>7. CASE step'[c] \notin {"compare", "store", "reply", "done"}
      BY <2>6, <3>7 DEF Rotated
    <3>8. QED
      BY <1>1, <3>1, <3>2, <3>3, <3>4, <3>5, <3>6, <3>7 DEF Leads
  <2>7. QED
    BY <2>5, <2>6
<1>6. QED
  BY <1>4, <1>5 DEF TokenInv

LEMMA StepDeletes ==
    ASSUME CoreInv, DeleteInv, NEW c \in 1..begun, CallStep(c) \/ CallFails(c)
    PROVE  DeleteInv'
<1>1. Placed(c) /\ Refers(c) /\ Gone(c) /\ Moved(c) /\ Leads(c)
  BY StepMoves, StepLeads DEF CoreInv, DeleteInv
<1>2. ASSUME NEW b \in 1..begun' PROVE Gone(b)'
  <2>1. /\ b \in 1..begun /\ Gone(b) /\ Refers(b) /\ Placed(b)
        /\ call[b] \in CallRequest
        /\ call'[b] = call[b] /\ ended'[b] = ended[b]
        /\ \A d \in ended[b] : step'[d] = step[d] /\ call'[d] = call[d]
    BY <1>1 DEF Moved, CoreInv, DeleteInv, AccountsTypeOK, Refers
  <2>2. (call[b].op = "delete" /\ step'[b] \in {"reply", "done"}) =>
            emailOf'[call[b].account] = NoEmail
    <3>1. SUFFICES ASSUME call[b].op = "delete", step'[b] \in {"reply", "done"}
                   PROVE  emailOf'[call[b].account] = NoEmail
      OBVIOUS
    <3>2. call[b].account \in Call /\ call[b].account # c
      BY <1>1, <2>1, <3>1, RequestFields DEF Behind, Refers, Moved, CallRunning
    <3>3. Document(c, call[b].account)
      BY <3>2, StepDocuments
    <3>4. CASE b = c /\ step[c] = "remove"
      <4>1. emailOf' = [emailOf EXCEPT ![call[c].account] = NoEmail]
        BY <1>1, <3>1, <3>4, StepRemoves
      <4>2. QED
        BY <3>2, <3>4, <4>1 DEF CoreInv, AccountsTypeOK
    <3>5. CASE ~(b = c /\ step[c] = "remove")
      <4>1. step[b] \in {"reply", "done"}
        BY <1>1, <2>1, <3>1, <3>5 DEF Moved, Leads, Placed
      <4>2. emailOf[call[b].account] = NoEmail
        BY <2>1, <3>1, <4>1 DEF Gone
      <4>3. QED
        BY <3>2, <3>3, <4>2 DEF Document
    <3>6. QED
      BY <3>4, <3>5
  <2>3. ASSUME call[b].op \in Behind, step'[b] \notin {"guard", "unauthorized", "error"},
               NEW d \in ended[b], call[d].op = "delete", step[d] = "done"
        PROVE  call[d].account # call[b].user
    <3>1. CASE step[b] = "guard"
      <4>1. b = c /\ emailOf[call[c].user] # NoEmail
        BY <1>1, <2>1, <2>3, <3>1 DEF Moved, Leads
      <4>2. Gone(d)
        BY <2>1, <2>3 DEF Refers, EndedCalls, DeleteInv
      <4>3. QED
        BY <2>3, <4>1, <4>2 DEF Gone
    <3>2. CASE step[b] # "guard"
      <4>1. step[b] \notin {"unauthorized", "error"}
        BY <1>1, <2>1, <2>3 DEF Moved, CallRunning
      <4>2. QED
        BY <2>1, <2>3, <3>2, <4>1 DEF Gone
    <3>3. QED
      BY <3>1, <3>2
  <2>4. QED
    BY <2>1, <2>2, <2>3 DEF Gone
<1>3. QED
  BY <1>1, <1>2 DEF DeleteInv

----------------------------------------------------------------------------
(* New calls, and tokens that Redis drops                                   *)

\* Clients ask with what they know.
LEMMA RequestsRefer ==
    ASSUME CoreInv, TokenInv, NEW r \in Requests
    PROVE  /\ r \in CallRequest
           /\ r.op \in Behind => r.account \in 1..begun /\ step[r.account] = "done"
           /\ r.op = "refresh" => r.token \in TokensGiven
<1>1. EndedCalls \subseteq 1..begun /\ 1..begun \subseteq Call
  BY AccountsAssumption DEF CoreInv, AccountsTypeOK, EndedCalls, Call
<1>2. /\ Known \subseteq Call /\ TokensGiven \subseteq Call
      /\ \A a \in Known : a \in 1..begun /\ step[a] = "done"
  BY <1>1 DEF Known, TokensGiven
<1>3. \A k \in TokensGiven : holder[k] \in Call
  BY <1>1 DEF TokenInv, Rotated, TokensGiven
<1>4. CASE r \in [op : {"create"}, email : Email]
  BY <1>4 DEF CallRequest, Behind
<1>5. CASE r \in [op : {"update"}, user : {holder[k] : k \in TokensGiven}, account : Known,
                  email : Email]
  BY <1>2, <1>3, <1>5 DEF CallRequest, Behind
<1>6. CASE r \in [op : {"delete", "get"}, user : {holder[k] : k \in TokensGiven}, account : Known]
  BY <1>2, <1>3, <1>6 DEF CallRequest, Behind
<1>7. CASE r \in [op : {"login"}, account : Known, email : Email]
  BY <1>2, <1>7 DEF CallRequest, Behind
<1>8. CASE r \in [op : {"refresh"}, token : TokensGiven]
  BY <1>2, <1>8 DEF CallRequest, Behind
<1>9. QED
  BY <1>4, <1>5, <1>6, <1>7, <1>8 DEF Requests

LEMMA BeginExtends ==
    ASSUME AccountsTypeOK, NEW r \in CallRequest, Begin(r)
    PROVE  /\ begun' = begun + 1 /\ begun' \in 1..MaxCalls
           /\ 1..begun' = 1..begun \cup {begun'} /\ begun' \notin 1..begun
           /\ 1..begun' \subseteq Call
           /\ call' \in [1..begun' -> CallRequest] /\ call'[begun'] = r
           /\ step' \in [1..begun' -> CallRunning \cup CallEnded]
           /\ step'[begun'] = FirstStep[r.op]
           /\ ended' \in [1..begun' -> SUBSET Call] /\ ended'[begun'] = EndedCalls
           /\ \A c \in 1..begun :
                 call'[c] = call[c] /\ step'[c] = step[c] /\ ended'[c] = ended[c]
           /\ EndedCalls' = EndedCalls
           /\ UNCHANGED <<uniqueIndex, read, holder, emailOf, version, stored>>
<1>1. /\ begun \in Nat /\ begun' = begun + 1 /\ begun' \in 1..MaxCalls
      /\ 1..begun' = 1..begun \cup {begun'} /\ begun' \notin 1..begun
      /\ 1..begun' \subseteq Call
  <2>1. /\ begun \in 0..MaxCalls /\ begun < MaxCalls /\ begun' = begun + 1
        /\ MaxCalls \in Nat
    BY AccountsAssumption DEF AccountsTypeOK, Begin
  <2>2. begun \in Nat /\ begun' \in 1..MaxCalls
    BY <2>1
  <2>3. 1..(begun + 1) = 1..begun \cup {begun + 1} /\ begun + 1 \notin 1..begun
    BY <2>2
  <2>4. 1..begun' \subseteq Call
    BY <2>1, <2>2 DEF Call
  <2>5. QED
    BY <2>1, <2>2, <2>3, <2>4
<1>2. FirstStep[r.op] \in CallRunning /\ FirstStep[r.op] \notin CallEnded
  BY RequestFields DEF FirstStep, CallRunning, CallEnded
<1>3. /\ call' \in [1..begun' -> CallRequest] /\ call'[begun'] = r
      /\ \A c \in 1..begun : call'[c] = call[c]
  <2>1. call \in [1..begun -> CallRequest] /\ call' = Append(call, r)
    BY DEF AccountsTypeOK, Begin
  <2>2. begun \in Nat /\ begun' = begun + 1
    BY <1>1
  <2>3. Append(call, r) \in [1..(begun + 1) -> CallRequest]
    BY <2>1, <2>2, AppendCall
  <2>4. Append(call, r)[begun + 1] = r
    BY <2>1, <2>2, AppendCall
  <2>5. \A c \in 1..begun : Append(call, r)[c] = call[c]
    BY <2>1, <2>2, AppendCall
  <2>6. call' \in [1..begun' -> CallRequest]
    BY <2>1, <2>2, <2>3
  <2>7. call'[begun'] = r
    BY <2>1, <2>2, <2>4
  <2>8. QED
    BY <2>1, <2>5, <2>6, <2>7
<1>4. /\ step' \in [1..begun' -> CallRunning \cup CallEnded]
      /\ step'[begun'] = FirstStep[r.op]
      /\ \A c \in 1..begun : step'[c] = step[c]
  <2>1. FirstStep[r.op] \in CallRunning \cup CallEnded
    BY <1>2
  <2>2. step \in [1..begun -> CallRunning \cup CallEnded] /\ step' = Append(step, FirstStep[r.op])
    BY DEF AccountsTypeOK, Begin
  <2>3. begun \in Nat /\ begun' = begun + 1
    BY <1>1
  <2>4. Append(step, FirstStep[r.op]) \in [1..(begun + 1) -> CallRunning \cup CallEnded]
    BY <2>1, <2>2, <2>3, AppendCall
  <2>5. Append(step, FirstStep[r.op])[begun + 1] = FirstStep[r.op]
    BY <2>1, <2>2, <2>3, AppendCall
  <2>6. \A c \in 1..begun : Append(step, FirstStep[r.op])[c] = step[c]
    BY <2>1, <2>2, <2>3, AppendCall
  <2>7. step' \in [1..begun' -> CallRunning \cup CallEnded]
    BY <2>2, <2>3, <2>4
  <2>8. step'[begun'] = FirstStep[r.op]
    BY <2>2, <2>3, <2>5
  <2>9. QED
    BY <2>2, <2>6, <2>7, <2>8
<1>5. /\ ended' \in [1..begun' -> SUBSET Call] /\ ended'[begun'] = EndedCalls
      /\ \A c \in 1..begun : ended'[c] = ended[c]
  <2>1. EndedCalls \in SUBSET Call
    BY <1>1 DEF EndedCalls
  <2>2. ended \in [1..begun -> SUBSET Call] /\ ended' = Append(ended, EndedCalls)
    BY DEF AccountsTypeOK, Begin
  <2>3. begun \in Nat /\ begun' = begun + 1
    BY <1>1
  <2>4. Append(ended, EndedCalls) \in [1..(begun + 1) -> SUBSET Call]
    BY <2>1, <2>2, <2>3, AppendCall
  <2>5. Append(ended, EndedCalls)[begun + 1] = EndedCalls
    BY <2>1, <2>2, <2>3, AppendCall
  <2>6. \A c \in 1..begun : Append(ended, EndedCalls)[c] = ended[c]
    BY <2>1, <2>2, <2>3, AppendCall
  <2>7. ended' \in [1..begun' -> SUBSET Call]
    BY <2>2, <2>3, <2>4
  <2>8. ended'[begun'] = EndedCalls
    BY <2>2, <2>3, <2>5
  <2>9. QED
    BY <2>2, <2>6, <2>7, <2>8
<1>6. EndedCalls' = EndedCalls
  BY <1>1, <1>2, <1>4 DEF EndedCalls
<1>7. QED
  BY <1>1, <1>3, <1>4, <1>5, <1>6 DEF Begin, customerVars

LEMMA BeginPreserves ==
    ASSUME AccountsInv, NEW r \in Requests, Begin(r)
    PROVE  AccountsInv'
<1>0. PICK n : n = begun'
  OBVIOUS
<1>1. /\ CoreInv /\ EmailInv /\ TokenInv /\ DeleteInv /\ AccountsTypeOK
      /\ r \in CallRequest
  BY RequestsRefer DEF AccountsInv, CoreInv
<1>2. /\ begun' = n /\ n = begun + 1 /\ n \in 1..MaxCalls
      /\ 1..n = 1..begun \cup {n} /\ n \notin 1..begun /\ 1..n \subseteq Call
      /\ call' \in [1..n -> CallRequest] /\ call'[n] = r
      /\ step' \in [1..n -> CallRunning \cup CallEnded] /\ step'[n] = FirstStep[r.op]
      /\ ended' \in [1..n -> SUBSET Call] /\ ended'[n] = EndedCalls
      /\ \A c \in 1..begun : call'[c] = call[c] /\ step'[c] = step[c] /\ ended'[c] = ended[c]
      /\ EndedCalls' = EndedCalls
      /\ UNCHANGED <<uniqueIndex, read, holder, emailOf, version, stored>>
  BY <1>0, <1>1, BeginExtends
<1>3. AccountsTypeOK'
  BY <1>1, <1>2 DEF AccountsTypeOK
<1>4. /\ r.op \in Behind => r.account \in 1..begun /\ step[r.account] = "done"
      /\ r.op = "refresh" => r.token \in TokensGiven
      /\ TokensGiven' = TokensGiven
  <2>1. EndedCalls \subseteq 1..begun
    BY DEF EndedCalls
  <2>2. TokensGiven' = TokensGiven
    BY <1>2, <2>1 DEF TokensGiven
  <2>3. QED
    BY <1>1, <2>2, RequestsRefer
<1>5. /\ r.op \in Behind <=> step'[n] = "guard"
      /\ r.op = "create" <=> step'[n] = "findEmail"
      /\ r.op = "login" <=> step'[n] = "credentials"
      /\ r.op = "refresh" <=> step'[n] = "verify"
      /\ step'[n] \in {"guard", "findEmail", "credentials", "verify"}
  BY <1>1, <1>2, RequestFields DEF FirstStep, Behind
<1>6. CoreInv'
  <2>1. ASSUME NEW c \in 1..begun PROVE Placed(c)' /\ Refers(c)'
    <3>1. Placed(c) /\ Refers(c)
      BY <1>1 DEF CoreInv
    <3>2. QED
      BY <1>2, <1>4, <3>1 DEF Placed, Refers
  <2>2. (Placed(n) /\ Refers(n))'
    <3>1. Placed(n)'
      BY <1>2, <1>5 DEF Placed
    <3>2. ended'[n] \subseteq EndedCalls'
      BY <1>2
    <3>3. call'[n].op \in Behind =>
              call'[n].account \in 1..begun' /\ step'[call'[n].account] = "done"
      BY <1>2, <1>4
    <3>4. call'[n].op = "refresh" =>
              call'[n].token \in ended'[n] /\ call'[n].token \in TokensGiven'
      BY <1>2, <1>4 DEF TokensGiven
    <3>5. QED
      BY <3>1, <3>2, <3>3, <3>4 DEF Refers
  <2>3. ASSUME NEW a \in Call PROVE Owned(a)'
    <3>1. Owned(a)
      BY <1>1 DEF CoreInv
    <3>2. QED
      BY <1>2, <3>1 DEF Owned
  <2>4. QED
    BY <1>2, <1>3, <2>1, <2>2, <2>3 DEF CoreInv
<1>7. EmailInv'
  <2>1. ASSUME NEW a \in Call, NEW b \in Call, a # b, emailOf[a] = emailOf[b],
               emailOf[a] # NoEmail
        PROVE  ~uniqueIndex' /\ (Overlap(a, b)' \/ version'[a] > 0 \/ version'[b] > 0)
    <3>1. a \in 1..begun /\ b \in 1..begun
      BY <1>1, <2>1 DEF CoreInv, Owned
    <3>2. QED
      BY <1>1, <1>2, <2>1, <3>1 DEF EmailInv, SharedEmailsComeFromRaces, Overlap
  <2>2. \A b \in 1..n : step'[b] = "insert" => b \in 1..begun
    BY <1>2, <1>5
  <2>3. QED
    BY <1>1, <1>2, <2>1, <2>2 DEF EmailInv, SharedEmailsComeFromRaces
<1>8. TokenInv'
  <2>1. ASSUME NEW a \in Call PROVE Recorded(a)'
    <3>1. Recorded(a)
      BY <1>1 DEF TokenInv
    <3>2. QED
      BY <1>2, <3>1 DEF Recorded
  <2>2. ASSUME NEW c \in 1..begun PROVE Rotated(c)'
    <3>1. Rotated(c) /\ \A b \in ended[c] : b \in 1..begun
      BY <1>1 DEF TokenInv, CoreInv, Refers, EndedCalls
    <3>2. QED
      BY <1>2, <3>1 DEF Rotated
  <2>3. Rotated(n)'
    BY <1>2, <1>5 DEF Rotated
  <2>4. QED
    BY <1>2, <2>1, <2>2, <2>3 DEF TokenInv
<1>9. DeleteInv'
  <2>1. ASSUME NEW c \in 1..begun PROVE Gone(c)'
    <3>1. Gone(c) /\ \A b \in ended[c] : b \in 1..begun
      BY <1>1 DEF DeleteInv, CoreInv, Refers, EndedCalls
    <3>2. QED
      BY <1>2, <3>1 DEF Gone
  <2>2. Gone(n)'
    BY <1>2, <1>5 DEF Gone
  <2>3. QED
    BY <1>2, <2>1, <2>2 DEF DeleteInv
<1>10. QED
  BY <1>6, <1>7, <1>8, <1>9 DEF AccountsInv

LEMMA ForgetPreserves ==
    ASSUME AccountsInv, NEW k \in Call, ForgetToken(k)
    PROVE  AccountsInv'
<1>1. /\ CoreInv /\ EmailInv /\ TokenInv /\ DeleteInv /\ AccountsTypeOK
      /\ UNCHANGED <<uniqueIndex, begun, call, step, read, holder, emailOf, version, ended>>
      /\ stored' \in [Call -> 0..MaxCalls]
      /\ \A a \in Call : stored'[a] \in {0, stored[a]}
  BY AccountsAssumption DEF AccountsInv, CoreInv, AccountsTypeOK, ForgetToken, customerVars
<1>2. EndedCalls' = EndedCalls /\ TokensGiven' = TokensGiven
  BY <1>1 DEF EndedCalls, TokensGiven
<1>3. CoreInv'
  BY <1>1, <1>2 DEF CoreInv, AccountsTypeOK, Placed, Refers, Owned
<1>4. EmailInv'
  BY <1>1 DEF EmailInv, SharedEmailsComeFromRaces, Overlap
<1>5. TokenInv'
  <2>1. ASSUME NEW a \in Call PROVE Recorded(a)'
    <3>1. Recorded(a) /\ stored'[a] \in {0, stored[a]}
      BY <1>1 DEF TokenInv
    <3>2. QED
      BY <1>1, <3>1 DEF Recorded
  <2>2. ASSUME NEW c \in 1..begun PROVE Rotated(c)'
    <3>1. Rotated(c)
      BY <1>1 DEF TokenInv
    <3>2. holder[c] \in Call => stored'[holder[c]] \in {0, stored[holder[c]]}
      BY <1>1
    <3>3. (call[c].op = "refresh") => call[c].token # 0
      BY <1>1, RequestFields DEF AccountsTypeOK, Call
    <3>4. QED
      BY <1>1, <3>1, <3>2, <3>3 DEF Rotated
  <2>3. QED
    BY <1>1, <2>1, <2>2 DEF TokenInv
<1>6. DeleteInv'
  BY <1>1 DEF DeleteInv, Gone
<1>7. QED
  BY <1>3, <1>4, <1>5, <1>6 DEF AccountsInv

LEMMA NextAccounts == AccountsInv /\ [AccountsNext]_accountsVars => AccountsInv'
<1> SUFFICES ASSUME AccountsInv, [AccountsNext]_accountsVars PROVE AccountsInv'
  OBVIOUS
<1>1. CASE UNCHANGED accountsVars
  BY <1>1 DEF accountsVars, customerVars, AccountsInv, CoreInv, AccountsTypeOK, Placed, Refers,
     Owned, EmailInv, SharedEmailsComeFromRaces, Overlap, TokenInv, Recorded, Rotated, DeleteInv,
     Gone, EndedCalls, TokensGiven
<1>2. ASSUME NEW r \in Requests, Begin(r) PROVE AccountsInv'
  BY <1>2, BeginPreserves
<1>3. ASSUME NEW c \in 1..begun, CallStep(c) \/ CallFails(c) PROVE AccountsInv'
  BY <1>3, StepCore, StepEmail, StepTokens, StepDeletes DEF AccountsInv
<1>4. ASSUME NEW a \in Call, ForgetToken(a) PROVE AccountsInv'
  BY <1>4, ForgetPreserves
<1>5. QED
  BY <1>1, <1>2, <1>3, <1>4 DEF AccountsNext

----------------------------------------------------------------------------

\* The inductive invariant holds in every run of any number of calls.
THEOREM AccountsInvariant == AccountsSpec => []AccountsInv
BY InitAccounts, NextAccounts, PTL DEF AccountsSpec

\* Two customers share an email only without the unique index, and then only by calls that
\* overlapped or by an update, which does not look for the email.
THEOREM EmailsSharedByRaces == AccountsSpec => []SharedEmailsComeFromRaces
<1>1. AccountsInv => SharedEmailsComeFromRaces
  BY DEF AccountsInv, EmailInv
<1>2. QED
  BY <1>1, AccountsInvariant, PTL

\* A refresh token is good for one refresh unless two overlap, and the tokens a client was
\* given last stay good until a later call replaces them.
THEOREM TokensRotate == AccountsSpec => []RefreshTokensRotate
<1>1. AccountsInv => RefreshTokensRotate
  <2>1. SUFFICES ASSUME AccountsInv PROVE OneRefreshPerToken /\ LatestTokensStayGood
    BY DEF RefreshTokensRotate
  <2>2. TokenInv /\ EndedCalls \subseteq 1..begun
    BY <2>1 DEF AccountsInv, EndedCalls
  <2>3. OneRefreshPerToken
    BY <2>2 DEF TokenInv, Rotated, OneRefreshPerToken, Overlap
  <2>4. LatestTokensStayGood
    <3>1. SUFFICES ASSUME NEW c \in TokensGiven
                   PROVE  \/ stored[holder[c]] \in {0, c}
                          \/ /\ stored[holder[c]] \notin ended[c]
                             /\ holder[stored[holder[c]]] = holder[c]
      BY DEF LatestTokensStayGood
    <3>2. /\ holder[c] \in Call
          /\ stored[holder[c]] \in {0, c} \/ stored[holder[c]] \notin ended[c]
      BY <2>2 DEF TokenInv, Rotated, TokensGiven
    <3>3. Recorded(holder[c])
      BY <2>2, <3>2 DEF TokenInv
    <3>4. QED
      BY <3>2, <3>3 DEF Recorded
  <2>5. QED
    BY <2>3, <2>4
<1>2. QED
  BY <1>1, AccountsInvariant, PTL

\* A customer whose deletion was answered is gone for good, and calls made afterwards with
\* the customer's access token do not get through.
THEOREM DeletedAreOut == AccountsSpec => []DeletedCustomersStayOut
<1>1. AccountsInv => DeletedCustomersStayOut
  <2>1. SUFFICES ASSUME AccountsInv PROVE DeletedCustomersStayOut
    OBVIOUS
  <2>2. DeleteInv /\ EndedCalls \subseteq 1..begun
    BY <2>1 DEF AccountsInv, EndedCalls
  <2>3. QED
    BY <2>2 DEF DeleteInv, Gone, Behind, DeletedCustomersStayOut
<1>2. QED
  BY <1>1, AccountsInvariant, PTL
=============================================================================
