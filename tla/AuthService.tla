----------------------------- MODULE AuthService -----------------------------
(***************************************************************************)
(* Accounts and tokens: the handlers of infra/http/router.go and the       *)
(* middleware in front of them, the services of service/auth and           *)
(* service/account, and the table of customers, with the cached answers of *)
(* the authentication queries between them.                                *)
(*                                                                         *)
(* The caching proxies are taken for what CopyCirculation says of them: a  *)
(* query is answered by one of the copies in circulation or by the         *)
(* repository, which adds a copy, and copies are dropped at any time.      *)
(***************************************************************************)
EXTENDS Integers

CONSTANTS
  Requests,    \* request goroutines
  Emails,      \* the e-mail addresses of which something depends
  Elsewhere,   \* any other address: it is free, and nobody logs in with it
  Passwords,
  Deactivable, \* the customers whom somebody may deactivate
  MaxId,       \* bound on the ids: how many customers there can be
  Nil          \* no row, no value

Addresses == Emails \cup {Elsewhere}
Ids == 1..MaxId
Kinds == {"access", "refresh"}
Ops == {"signup", "login", "refresh", "read", "update"}

Row == [email : Addresses, active : BOOLEAN, password : Passwords]

ASSUME AuthConstantsOK ==
  /\ MaxId \in Nat \ {0}
  /\ Deactivable \subseteq Ids
  /\ Elsewhere \notin Emails
  /\ Nil \notin Emails \cup {Elsewhere} \cup Passwords \cup Nat \cup Ops \cup Row

VARIABLES
  table,   \* table[id]: the row of the customer, or Nil
  check,   \* check[id]: the copies of CheckCustomer's answer for id
  cred,    \* cred[e]: the copies of GetCustomerCredentials' answer for e
  tokens,  \* the ids and kinds of which a token has not expired
  call,    \* call[r]: where request r is, and with what
  missed   \* history: the handler that has just answered "not found", or Nil

vars == <<table, check, cred, tokens, call, missed>>

\* What the two queries answer; "missing" is no such customer (Exist: false).
CheckAnswer(id) ==
  IF table[id] = Nil THEN "missing" ELSE IF table[id].active THEN "active" ELSE "inactive"

Missing == [id |-> Nil, active |-> FALSE, password |-> Nil]

CredAnswers == [id : Ids, active : BOOLEAN, password : Passwords] \cup {Missing}
CheckAnswers == {"missing", "active", "inactive"}

\* parseToken and the checks of the claims accept a token of this kind.
Accepted(id, kind) == <<id, kind>> \in tokens

Owns(id, e) == table[id] # Nil /\ table[id].email = e

CredAnswer(e) ==
  IF \E id \in Ids : Owns(id, e)
  THEN LET id == CHOOSE i \in Ids : Owns(i, e)
       IN  [id |-> id, active |-> table[id].active, password |-> table[id].password]
  ELSE Missing

\* The call that the handler of the router makes next.
PCs == {"idle", "insert", "lookup", "check", "issue", "read", "update"}

Call == [op : Ops \cup {Nil}, pc : PCs, id : Ids \cup {Nil},
         email : Addresses \cup {Nil}, password : Passwords \cup {Nil}]

Idle == [op |-> Nil, pc |-> "idle", id |-> Nil, email |-> Nil, password |-> Nil]

AuthTypeOK ==
  /\ table \in [Ids -> Row \cup {Nil}]
  /\ check \in [Ids -> SUBSET CheckAnswers]
  /\ cred \in [Emails -> SUBSET CredAnswers]
  /\ tokens \subseteq Ids \X Kinds
  /\ call \in [Requests -> Call]
  /\ missed \in Ops \cup {Nil}

Init ==
  /\ table = [id \in Ids |-> Nil]
  /\ check = [id \in Ids |-> {}]
  /\ cred = [e \in Emails |-> {}]
  /\ tokens = {}
  /\ call = [r \in Requests |-> Idle]
  /\ missed = Nil

-----------------------------------------------------------------------------
(* Helpers                                                                 *)

\* A handler is called: op is about to make the call pc.
Begin(r, op, pc, id, e, p) ==
  /\ call[r] = Idle
  /\ call' = [call EXCEPT ![r] = [op |-> op, pc |-> pc, id |-> id, email |-> e, password |-> p]]
  /\ missed' = Nil

Goto(r, pc, id) ==
  /\ call' = [call EXCEPT ![r].pc = pc, ![r].id = id]
  /\ missed' = Nil

\* The handler sends its answer and returns; of the answers only "not found" is kept.
Respond(r, result) ==
  /\ call' = [call EXCEPT ![r] = Idle]
  /\ missed' = IF result = "notFound" THEN call[r].op ELSE Nil

\* The columns email and phone_number are unique.  Only the e-mail addresses
\* are kept here: a phone number may collide with that of any other row.
EmailTaken(id, e) == e # Elsewhere /\ \E i \in Ids \ {id} : Owns(i, e)
PhoneMayBeTaken(id) == \E i \in Ids \ {id} : table[i] # Nil

-----------------------------------------------------------------------------
(* SignUp                                                                  *)

NextIdUnchecked(r, e, p) ==    \* mutant: the error of NextID is not looked at
  /\ \E id \in Ids \cup {0} : Begin(r, "signup", "insert", id, e, p)
  /\ UNCHANGED <<table, check, cred, tokens>>

\* sf.NextID, which may fail; then the INSERT is next.  A generator takes its
\* machine id from the address of its host, so that two may draw the same id.
SignUp(r, e, p) ==
  /\ \E id \in Ids : Begin(r, "signup", "insert", id, e, p)
  /\ UNCHANGED <<table, check, cred, tokens>>

NewRow(c) == [email |-> c.email, active |-> TRUE, password |-> c.password]

SaveForCreate(r) ==    \* mutant: db.Save, which updates the row that has the id
  LET id == call[r].id
  IN  /\ call[r].pc = "insert"
      /\ \/ /\ ~EmailTaken(id, call[r].email)
            /\ table' = [table EXCEPT ![id] = NewRow(call[r])]
            /\ Goto(r, "issue", id)
         \/ EmailTaken(id, call[r].email) /\ Respond(r, "duplicate") /\ UNCHANGED table
      /\ UNCHANGED <<check, cred, tokens>>

CreateErrorIgnored(r) ==    \* mutant: the error of CreateCustomer is dropped
  LET id == call[r].id
  IN  /\ call[r].pc = "insert"
      /\ \/ /\ table[id] = Nil /\ ~EmailTaken(id, call[r].email)
            /\ table' = [table EXCEPT ![id] = NewRow(call[r])]
         \/ UNCHANGED table
      /\ Goto(r, "issue", id)
      /\ UNCHANGED <<check, cred, tokens>>

\* CreateCustomer: done, refused as a duplicate, or an error, after which
\* the row may be there all the same.
Insert(r) ==
  LET id == call[r].id
      taken == table[id] # Nil \/ EmailTaken(id, call[r].email)
      inserted == ~taken /\ table' = [table EXCEPT ![id] = NewRow(call[r])]
  IN  /\ call[r].pc = "insert"
      /\ \/ inserted /\ Goto(r, "issue", id)
         \/ /\ taken \/ PhoneMayBeTaken(id)
            /\ Respond(r, "duplicate")
            /\ UNCHANGED table
         \/ (inserted \/ UNCHANGED table) /\ Respond(r, "serverError")
      /\ UNCHANGED <<check, cred, tokens>>

-----------------------------------------------------------------------------
(* Login                                                                   *)

Login(r, e, p) ==
  /\ Begin(r, "login", "lookup", Nil, e, p)
  /\ UNCHANGED <<table, check, cred, tokens>>

\* GetCustomerCredentials, from a copy or loaded, and the checks on its answer.
Lookup(r) ==
  LET e == call[r].email
  IN  /\ call[r].pc = "lookup"
      /\ \E a \in cred[e] \cup {CredAnswer(e)} :
            /\ cred' = [cred EXCEPT ![e] = @ \cup {a}]
            /\ \/ a = Missing /\ Respond(r, "notFound")
               \/ a # Missing /\ ~a.active /\ Respond(r, "inactive")
               \/ /\ a # Missing /\ a.active
                  /\ \/ a.password = call[r].password /\ Goto(r, "issue", a.id)
                     \/ a.password # call[r].password /\ Respond(r, "wrongPassword")
      /\ UNCHANGED <<table, check, tokens>>

-----------------------------------------------------------------------------
(* RefreshToken                                                            *)

\* parseToken has accepted the token, and its claims say Refresh.
RefreshToken(r, id) ==
  /\ Accepted(id, "refresh")
  /\ Begin(r, "refresh", "check", id, Nil, Nil)
  /\ UNCHANGED <<table, check, cred, tokens>>

CheckNothing(r) ==    \* mutant: whether the customer is active does not matter
  LET id == call[r].id
  IN  /\ call[r].pc = "check"
      /\ \E a \in check[id] \cup {CheckAnswer(id)} :
            /\ check' = [check EXCEPT ![id] = @ \cup {a}]
            /\ \/ a = "missing" /\ Respond(r, "notFound")
               \/ a # "missing" /\ Goto(r, "issue", id)
      /\ UNCHANGED <<table, cred, tokens>>

\* CheckCustomer, from a copy or loaded.
Check(r) ==
  LET id == call[r].id
  IN  /\ call[r].pc = "check"
      /\ \E a \in check[id] \cup {CheckAnswer(id)} :
            /\ check' = [check EXCEPT ![id] = @ \cup {a}]
            /\ \/ a = "missing" /\ Respond(r, "notFound")
               \/ a = "inactive" /\ Respond(r, "inactive")
               \/ a = "active" /\ Goto(r, "issue", id)
      /\ UNCHANGED <<table, cred, tokens>>

\* newTokenPair: one token of each kind, or none if one of them cannot be signed.
Issue(r) ==
  /\ call[r].pc = "issue"
  /\ \/ /\ tokens' = tokens \cup ({call[r].id} \X Kinds)
        /\ Respond(r, IF call[r].op = "signup" THEN "created" ELSE "ok")
     \/ Respond(r, "serverError") /\ UNCHANGED tokens
  /\ UNCHANGED <<table, check, cred>>

-----------------------------------------------------------------------------
(* The profile, behind the middleware JWTAuth                              *)

\* Auth has accepted the token: it has not expired and is no refresh token.
GetProfile(r, id) ==
  /\ Accepted(id, "access")
  /\ Begin(r, "read", "read", id, Nil, Nil)
  /\ UNCHANGED <<table, check, cred, tokens>>

UpdateProfile(r, id, e) ==
  /\ Accepted(id, "access")
  /\ Begin(r, "update", "update", id, e, Nil)
  /\ UNCHANGED <<table, check, cred, tokens>>

\* That a customer does not exist is never cached for the profile, so only the
\* table decides whether it is found.
Read(r) ==
  /\ call[r].pc = "read"
  /\ Respond(r, IF table[call[r].id] = Nil THEN "notFound" ELSE "ok")
  /\ UNCHANGED <<table, check, cred, tokens>>

\* The UPDATE; that it is refused as a duplicate is an error like any other.
Update(r) ==
  LET id == call[r].id
      e == call[r].email
      updated == /\ ~EmailTaken(id, e)
                 /\ table' = IF table[id] = Nil THEN table ELSE [table EXCEPT ![id].email = e]
  IN  /\ call[r].pc = "update"
      /\ \/ updated /\ Respond(r, "ok")
         \/ (updated \/ UNCHANGED table) /\ Respond(r, "serverError")
      /\ UNCHANGED <<check, cred, tokens>>

\* A query fails, or the mutex of its key is not to be had.
Fail(r) ==
  /\ call[r].pc \in {"lookup", "check", "read"}
  /\ Respond(r, "serverError")
  /\ UNCHANGED <<table, check, cred, tokens>>

-----------------------------------------------------------------------------
(* What happens beside the requests                                        *)

KeepForever(e, a) ==    \* mutant: the proxies never let go of an answer
  /\ FALSE
  /\ UNCHANGED <<vars, e, a>>

ForgetCred(e, a) ==
  /\ a \in cred[e]
  /\ cred' = [cred EXCEPT ![e] = @ \ {a}]
  /\ missed' = Nil
  /\ UNCHANGED <<table, check, tokens, call>>

ForgetCheck(id, a) ==
  /\ a \in check[id]
  /\ check' = [check EXCEPT ![id] = @ \ {a}]
  /\ missed' = Nil
  /\ UNCHANGED <<table, cred, tokens, call>>

\* The last token of this kind and customer expires.
ExpireToken(id, kind) ==
  /\ Accepted(id, kind)
  /\ tokens' = tokens \ {<<id, kind>>}
  /\ missed' = Nil
  /\ UNCHANGED <<table, check, cred, call>>

\* Somebody clears the column active; the service only reads it.
Deactivate(id) ==
  /\ id \in Deactivable
  /\ table[id] # Nil /\ table[id].active
  /\ table' = [table EXCEPT ![id].active = FALSE]
  /\ missed' = Nil
  /\ UNCHANGED <<check, cred, tokens, call>>

-----------------------------------------------------------------------------

Step(r) == \/ Insert(r) \/ Lookup(r) \/ Check(r) \/ Issue(r) \/ Read(r) \/ Update(r) \/ Fail(r)

\* Copies of the answers to the two queries, and what they are about.
Forget == \/ \E e \in Emails : \E a \in cred[e] : ForgetCred(e, a)
          \/ \E id \in Ids : \E a \in check[id] : ForgetCheck(id, a)

Next ==
  \/ \E r \in Requests :
       \/ Step(r)
       \/ \E e \in Addresses, p \in Passwords : SignUp(r, e, p)
       \/ \E e \in Emails, p \in Passwords : Login(r, e, p)
       \/ \E id \in Ids : \/ RefreshToken(r, id) \/ GetProfile(r, id)
                          \/ \E e \in Addresses : UpdateProfile(r, id, e)
  \/ Forget
  \/ \E id \in Ids : Deactivate(id) \/ \E kind \in Kinds : ExpireToken(id, kind)

Spec == Init /\ [][Next]_vars

\* A handler goes on; a cached answer and a token expire.  Nobody has to send a
\* request, and no handler has to fail.
Fairness ==
  /\ \A r \in Requests : WF_vars(Step(r))
  /\ \A e \in Emails, a \in CredAnswers : WF_vars(ForgetCred(e, a))
  /\ \A id \in Ids : /\ \A a \in CheckAnswers : WF_vars(ForgetCheck(id, a))
                     /\ \A kind \in Kinds : WF_vars(ExpireToken(id, kind))

FairSpec == Spec /\ Fairness

-----------------------------------------------------------------------------
(* Properties                                                              *)

\* Whoever has a token that was accepted is a customer: a refresh or a profile
\* is never answered "customer not found", although CheckCustomer caches that a
\* customer does not exist, for nobody can ask for an id before its INSERT
\* (SignUp of service/auth/impl.go makes the tokens last), not even whoever has
\* drawn an id that is taken.
TokenFindsCustomer ==
  missed \notin {"refresh", "read"}

\* The tokens of a login or a sign-up are those of the customer whose password was
\* given, even if the cached credentials are outdated and the e-mail address has
\* passed on to another customer, or an id was drawn twice: id and password come
\* from one answer (impl.go:89-101), a sign-up that is refused makes no tokens, and
\* the row of an id is never written over.
TokensAreByOwner ==
  \A r \in Requests :
    call[r].op \in {"login", "signup"} /\ call[r].pc = "issue" =>
      table[call[r].id] # Nil /\ table[call[r].id].password = call[r].password

\* A customer who has been deactivated is at last without tokens: RefreshToken
\* asks CheckCustomer each time (impl.go:127-136), so that a session cannot be
\* carried on from token to token once the caches have let go of the old answer.
NoEternalSession ==
  \A id \in Ids :
    <>[](CheckAnswer(id) = "inactive" => tokens \cap ({id} \X Kinds) = {})

\* Once an e-mail address stays with a customer, the cached credentials for it,
\* and a cached "no such customer", give way to the customer's own, so that
\* Login works (the expiry of the entry set at repo/proxy/auth.go:121).
CustomerIsKnown ==
  \A id \in Ids, e \in Emails :
    <>[]Owns(id, e) => <>[](cred[e] \subseteq {CredAnswer(e)})

\* "Caching middleware proxy compatible with repository interface" (README.md:7):
\* as with the repository itself, a customer who has signed up is not told by
\* Login that there is no such customer.
SignedUpCanLogin ==
  [][\A r \in Requests, id \in Ids :
       call[r].pc = "lookup" /\ Owns(id, call[r].email) => missed' # "login"]_vars
=============================================================================
