-------------------------- MODULE AuthServiceProofs --------------------------
(***************************************************************************)
(* Proofs about AuthService, for any number of requests, customers, e-mail *)
(* addresses and passwords, and whoever may be deactivated.                *)
(***************************************************************************)
EXTENDS AuthService, TLAPS

-----------------------------------------------------------------------------
(* The inductive invariant                                                 *)

\* What a call relies on: a handler that has got past the INSERT, the look-up or
\* a token has the id of a row, and a login or a sign-up the password of its customer.
Sound(c, rows) ==
  /\ c.pc \in {"check", "issue", "read", "update"} => c.id \in Ids /\ rows[c.id] # Nil
  /\ c.pc = "check" => c.op = "refresh"
  /\ c.pc = "read" => c.op = "read"
  /\ c.pc = "insert" => c.op = "signup" /\ c.id \in Ids /\ c.email \in Addresses
                        /\ c.password \in Passwords
  /\ c.pc = "lookup" => c.op = "login" /\ c.email \in Emails
  /\ c.pc = "update" => c.op = "update" /\ c.email \in Addresses
  /\ c.pc = "issue" /\ c.op \in {"login", "signup"} => rows[c.id].password = c.password

CallsAreSound == \A r \in Requests : Sound(call[r], table)

\* Tokens and cached answers are about customers who have a row.
TokensHaveRows == \A id \in Ids, kind \in Kinds : Accepted(id, kind) => table[id] # Nil

ChecksHaveRows == \A id \in Ids : "missing" \notin check[id]

\* The row of an answer about credentials, and the password it has for good.
HasRow(a, rows) == rows[a.id] # Nil /\ rows[a.id].password = a.password

CredsHaveRows == \A e \in Emails : \A a \in cred[e] : a # Missing => HasRow(a, table)

IInv ==
  /\ AuthTypeOK /\ TokenFindsCustomer
  /\ CallsAreSound /\ TokensHaveRows /\ ChecksHaveRows /\ CredsHaveRows

\* Rows are never deleted, nor written over by the row of another customer.
RowsStay ==
  /\ table' \in [Ids -> Row \cup {Nil}]
  /\ \A id \in Ids :
       table[id] # Nil => table'[id] # Nil /\ table'[id].password = table[id].password

-----------------------------------------------------------------------------
(* Lemmas                                                                  *)

LEMMA ConstantFacts ==
  /\ Nil \notin Ids /\ Nil \notin Ops /\ Nil \notin Row /\ Nil \notin Addresses /\ Nil \notin Passwords
  /\ Ids \subseteq Nat /\ Emails \subseteq Addresses
BY AuthConstantsOK DEF Ids, Addresses

LEMMA IdleFacts == Idle \in Call /\ \A rows : Sound(Idle, rows)
BY DEF Idle, Call, PCs, Ops, Sound

\* The row that is found by its e-mail address is there.
LEMMA CredAnswerFacts ==
  ASSUME AuthTypeOK, NEW e \in Emails
  PROVE  /\ CredAnswer(e) \in CredAnswers
         /\ CredAnswer(e) # Missing => HasRow(CredAnswer(e), table)
<1>1. CASE \E id \in Ids : Owns(id, e)
  <2> DEFINE found == CHOOSE i \in Ids : Owns(i, e)
  <2>1. found \in Ids /\ Owns(found, e)
    BY <1>1
  <2>2. table[found] \in Row /\ table[found] # Nil
    BY <2>1 DEF Owns, AuthTypeOK
  <2>3. CredAnswer(e) = [id |-> found, active |-> table[found].active,
                         password |-> table[found].password]
    BY <1>1 DEF CredAnswer
  <2> HIDE DEF found
  <2>4. /\ CredAnswer(e) \in [id : Ids, active : BOOLEAN, password : Passwords]
        /\ CredAnswer(e).id = found /\ CredAnswer(e).password = table[found].password
    BY <2>1, <2>2, <2>3 DEF Row
  <2> QED BY <2>2, <2>4 DEF CredAnswers, HasRow
<1>2. CASE ~\E id \in Ids : Owns(id, e)
  BY <1>2 DEF CredAnswer, CredAnswers
<1> QED BY <1>1, <1>2

\* A cached answer with an id has one of Ids.
LEMMA CredAnswersFacts ==
  ASSUME NEW a \in CredAnswers, a # Missing
  PROVE  a.id \in Ids
BY DEF CredAnswers

\* A call that becomes c, and a table that only grows.
LEMMA CallsFrame ==
  ASSUME IInv, RowsStay, NEW r \in Requests, NEW c \in Call,
         call' = [call EXCEPT ![r] = c], Sound(c, table')
  PROVE  call' \in [Requests -> Call] /\ CallsAreSound'
<1>1. call \in [Requests -> Call]
  BY DEF IInv, AuthTypeOK
<1>2. ASSUME NEW q \in Requests, q # r
      PROVE  Sound(call'[q], table')
  <2>1. call'[q] = call[q] /\ Sound(call[q], table)
    BY <1>1, <1>2 DEF IInv, CallsAreSound
  <2> QED BY <2>1 DEF Sound, RowsStay
<1>3. call'[r] = c
  BY <1>1
<1> QED BY <1>1, <1>2, <1>3 DEF CallsAreSound

LEMMA CallsUnchanged ==
  ASSUME IInv, RowsStay, UNCHANGED call
  PROVE  CallsAreSound'
BY DEF IInv, CallsAreSound, Sound, RowsStay

LEMMA RespondFacts ==
  ASSUME IInv, RowsStay, NEW r \in Requests, NEW result, Respond(r, result)
  PROVE  call' \in [Requests -> Call] /\ CallsAreSound'
BY CallsFrame, IdleFacts DEF Respond

\* A call that goes on with the id of a row.
LEMMA GotoIssueFacts ==
  ASSUME IInv, RowsStay, NEW r \in Requests, NEW id \in Ids, Goto(r, "issue", id),
         table'[id] # Nil,
         call[r].op \in {"login", "signup"} => table'[id].password = call[r].password
  PROVE  call' \in [Requests -> Call] /\ CallsAreSound' /\ missed' = Nil
<1> DEFINE c == [call[r] EXCEPT !.pc = "issue", !.id = id]
<1>1. call[r] \in Call /\ call \in [Requests -> Call]
  BY DEF IInv, AuthTypeOK
<1>2. c \in Call /\ c.pc = "issue" /\ c.id = id /\ c.op = call[r].op /\ c.password = call[r].password
  BY <1>1 DEF Call, PCs
<1>3. call' = [call EXCEPT ![r] = c]
  BY <1>1 DEF Goto
<1>4. Sound(c, table')
  BY <1>2 DEF Sound
<1> HIDE DEF c
<1> QED BY <1>2, <1>3, <1>4, CallsFrame DEF Goto

LEMMA NoChange == IInv /\ UNCHANGED table => RowsStay
BY DEF IInv, AuthTypeOK, RowsStay

LEMMA RowWritten ==
  ASSUME IInv, NEW id \in Ids, NEW row \in Row, table' = [table EXCEPT ![id] = row],
         table[id] # Nil => row.password = table[id].password
  PROVE  RowsStay /\ table'[id] # Nil
BY ConstantFacts DEF IInv, AuthTypeOK, RowsStay

\* Tokens and cached answers keep their rows where they and the ids are left alone.
LEMMA KeptHaveRows ==
  ASSUME IInv, RowsStay, UNCHANGED <<check, cred, tokens>>
  PROVE  TokensHaveRows' /\ ChecksHaveRows' /\ CredsHaveRows'
<1>1. TokensHaveRows' /\ ChecksHaveRows'
  BY DEF IInv, TokensHaveRows, ChecksHaveRows, Accepted, RowsStay
<1>2. ASSUME NEW e \in Emails, NEW a \in cred[e], a # Missing
      PROVE  HasRow(a, table')
  <2>1. a \in CredAnswers /\ HasRow(a, table)
    BY <1>2 DEF IInv, CredsHaveRows, AuthTypeOK
  <2>2. a.id \in Ids
    BY <1>2, <2>1, CredAnswersFacts
  <2> QED BY <2>1, <2>2 DEF RowsStay, HasRow
<1> QED BY <1>1, <1>2 DEF CredsHaveRows

LEMMA InitIInv == Init => IInv
<1> SUFFICES ASSUME Init PROVE IInv
  OBVIOUS
<1>1. AuthTypeOK
  BY AuthConstantsOK, IdleFacts DEF Init, AuthTypeOK, Ids
<1>2. CallsAreSound
  BY IdleFacts DEF Init, CallsAreSound
<1>3. TokensHaveRows /\ ChecksHaveRows /\ CredsHaveRows
  BY DEF Init, TokensHaveRows, ChecksHaveRows, CredsHaveRows, Accepted
<1>4. TokenFindsCustomer
  BY ConstantFacts DEF Init, TokenFindsCustomer, Ops
<1> QED BY <1>1, <1>2, <1>3, <1>4 DEF IInv

-----------------------------------------------------------------------------
(* The steps                                                               *)

\* A handler that begins: nothing else changes.
LEMMA BeginKeeps ==
  ASSUME IInv, NEW r \in Requests, NEW op \in Ops, NEW pc \in PCs, NEW id \in Ids \cup {Nil},
         NEW e \in Addresses \cup {Nil}, NEW p \in Passwords \cup {Nil},
         Begin(r, op, pc, id, e, p),
         Sound([op |-> op, pc |-> pc, id |-> id, email |-> e, password |-> p], table),
         UNCHANGED <<table, check, cred, tokens>>
  PROVE  IInv'
<1> DEFINE c == [op |-> op, pc |-> pc, id |-> id, email |-> e, password |-> p]
<1>1. c \in Call
  BY DEF Call
<1>2. RowsStay
  BY NoChange
<1>3. call' = [call EXCEPT ![r] = c] /\ Sound(c, table')
  BY DEF Begin
<1> HIDE DEF c
<1>4. call' \in [Requests -> Call] /\ CallsAreSound'
  BY <1>1, <1>2, <1>3, CallsFrame
<1>5. TokensHaveRows' /\ ChecksHaveRows' /\ CredsHaveRows'
  BY <1>2, KeptHaveRows
<1>6. AuthTypeOK' /\ TokenFindsCustomer'
  BY <1>4, ConstantFacts DEF IInv, AuthTypeOK, TokenFindsCustomer, Begin, Ops
<1> QED BY <1>4, <1>5, <1>6 DEF IInv

LEMMA SignUpKeeps ==
  ASSUME IInv, NEW r \in Requests, NEW e \in Addresses, NEW p \in Passwords, SignUp(r, e, p)
  PROVE  IInv'
<1>1. PICK id \in Ids : Begin(r, "signup", "insert", id, e, p)
  BY DEF SignUp
<1>2. Sound([op |-> "signup", pc |-> "insert", id |-> id, email |-> e, password |-> p], table)
  BY DEF Sound
<1> QED BY <1>1, <1>2, BeginKeeps DEF SignUp, Ops, PCs

LEMMA LoginKeeps ==
  ASSUME IInv, NEW r \in Requests, NEW e \in Emails, NEW p \in Passwords, Login(r, e, p)
  PROVE  IInv'
<1>1. Sound([op |-> "login", pc |-> "lookup", id |-> Nil, email |-> e, password |-> p], table)
  BY DEF Sound
<1> QED BY <1>1, BeginKeeps, ConstantFacts DEF Login, Ops, PCs, IInv, AuthTypeOK

LEMMA RefreshTokenKeeps ==
  ASSUME IInv, NEW r \in Requests, NEW id \in Ids, RefreshToken(r, id)
  PROVE  IInv'
<1>1. table[id] # Nil
  BY DEF RefreshToken, IInv, TokensHaveRows, Kinds
<1>2. Sound([op |-> "refresh", pc |-> "check", id |-> id, email |-> Nil, password |-> Nil], table)
  BY <1>1 DEF Sound
<1> QED BY <1>2, BeginKeeps DEF RefreshToken, Ops, PCs, IInv, AuthTypeOK

LEMMA GetProfileKeeps ==
  ASSUME IInv, NEW r \in Requests, NEW id \in Ids, GetProfile(r, id)
  PROVE  IInv'
<1>1. table[id] # Nil
  BY DEF GetProfile, IInv, TokensHaveRows, Kinds
<1>2. Sound([op |-> "read", pc |-> "read", id |-> id, email |-> Nil, password |-> Nil], table)
  BY <1>1 DEF Sound
<1> QED BY <1>2, BeginKeeps DEF GetProfile, Ops, PCs, IInv, AuthTypeOK

LEMMA UpdateProfileKeeps ==
  ASSUME IInv, NEW r \in Requests, NEW id \in Ids, NEW e \in Addresses, UpdateProfile(r, id, e)
  PROVE  IInv'
<1>1. table[id] # Nil
  BY DEF UpdateProfile, IInv, TokensHaveRows, Kinds
<1>2. Sound([op |-> "update", pc |-> "update", id |-> id, email |-> e, password |-> Nil], table)
  BY <1>1 DEF Sound
<1> QED BY <1>2, BeginKeeps DEF UpdateProfile, Ops, PCs, IInv, AuthTypeOK

\* An answer other than "not found", or one to a sign-up, a login or an update.
LEMMA RespondKeeps ==
  ASSUME IInv, RowsStay, NEW r \in Requests, NEW result, Respond(r, result),
         result = "notFound" => call[r].op \notin {"refresh", "read"},
         UNCHANGED <<check, cred, tokens>>
  PROVE  IInv'
<1>1. call' \in [Requests -> Call] /\ CallsAreSound'
  BY RespondFacts
<1>2. TokensHaveRows' /\ ChecksHaveRows' /\ CredsHaveRows'
  BY KeptHaveRows
<1>3. missed' \in Ops \cup {Nil} /\ TokenFindsCustomer'
  BY ConstantFacts DEF Respond, TokenFindsCustomer, IInv, AuthTypeOK, Call, Ops
<1>4. AuthTypeOK'
  BY <1>1, <1>3 DEF IInv, AuthTypeOK, RowsStay
<1> QED BY <1>1, <1>2, <1>3, <1>4 DEF IInv

LEMMA InsertKeeps ==
  ASSUME IInv, NEW r \in Requests, Insert(r)
  PROVE  IInv'
<1> DEFINE id == call[r].id
           row == NewRow(call[r])
           taken == table[id] # Nil \/ EmailTaken(id, call[r].email)
           inserted == ~taken /\ table' = [table EXCEPT ![id] = row]
<1>1. id \in Ids /\ row \in Row /\ call[r].op = "signup" /\ UNCHANGED <<check, cred, tokens>>
  BY DEF Insert, IInv, CallsAreSound, Sound, Row, NewRow
<1>2. inserted => RowsStay /\ table'[id] = row /\ row # Nil /\ row.password = call[r].password
  BY <1>1, RowWritten, ConstantFacts DEF IInv, AuthTypeOK, NewRow
<1>3. CASE inserted /\ Goto(r, "issue", id)
  <2>1. call' \in [Requests -> Call] /\ CallsAreSound' /\ missed' = Nil
    BY <1>1, <1>2, <1>3, GotoIssueFacts
  <2>2. TokensHaveRows' /\ ChecksHaveRows' /\ CredsHaveRows'
    BY <1>1, <1>2, <1>3, KeptHaveRows
  <2>3. AuthTypeOK' /\ TokenFindsCustomer'
    BY <1>1, <1>2, <1>3, <2>1, ConstantFacts DEF IInv, AuthTypeOK, RowsStay, TokenFindsCustomer, Ops
  <2> QED BY <2>1, <2>2, <2>3 DEF IInv
<1>4. CASE UNCHANGED table /\ Respond(r, "duplicate")
  BY <1>1, <1>4, NoChange, RespondKeeps
<1>5. CASE (inserted \/ UNCHANGED table) /\ Respond(r, "serverError")
  BY <1>1, <1>2, <1>5, NoChange, RespondKeeps
<1> QED BY <1>3, <1>4, <1>5 DEF Insert

LEMMA UpdateKeeps ==
  ASSUME IInv, NEW r \in Requests, Update(r)
  PROVE  IInv'
<1> DEFINE id == call[r].id
           e == call[r].email
           row == [table[id] EXCEPT !.email = e]
<1>1. id \in Ids /\ e \in Addresses /\ table[id] \in Row /\ table[id] # Nil /\ call[r].op = "update"
  BY DEF Update, IInv, CallsAreSound, Sound, AuthTypeOK
<1>2. row \in Row
  BY <1>1 DEF Row
<1>3. table' = [table EXCEPT ![id] = row] \/ UNCHANGED table
  BY <1>1 DEF Update
<1>4. RowsStay
  BY <1>1, <1>2, <1>3, RowWritten, NoChange DEF Row
<1> QED BY <1>1, <1>4, RespondKeeps DEF Update

\* Only a login, whose copy may be outdated, is told that there is no customer.
LEMMA LookupKeeps ==
  ASSUME IInv, NEW r \in Requests, Lookup(r)
  PROVE  IInv'
<1> DEFINE e == call[r].email
<1>1. e \in Emails /\ call[r].op = "login" /\ UNCHANGED <<table, check, tokens>>
  BY DEF Lookup, IInv, CallsAreSound, Sound
<1>2. RowsStay
  BY <1>1, NoChange
<1>3. PICK a \in cred[e] \cup {CredAnswer(e)} :
        /\ cred' = [cred EXCEPT ![e] = @ \cup {a}]
        /\ \/ a = Missing /\ Respond(r, "notFound")
           \/ a # Missing /\ ~a.active /\ Respond(r, "inactive")
           \/ /\ a # Missing /\ a.active
              /\ \/ a.password = call[r].password /\ Goto(r, "issue", a.id)
                 \/ a.password # call[r].password /\ Respond(r, "wrongPassword")
  BY DEF Lookup
<1>4. a \in CredAnswers /\ (a # Missing => a.id \in Ids /\ HasRow(a, table))
  BY <1>1, <1>3, CredAnswerFacts, CredAnswersFacts DEF IInv, AuthTypeOK, CredsHaveRows
<1>5. cred' \in [Emails -> SUBSET CredAnswers] /\ CredsHaveRows'
  <2>1. cred \in [Emails -> SUBSET CredAnswers]
    BY DEF IInv, AuthTypeOK
  <2>2. cred' \in [Emails -> SUBSET CredAnswers]
    BY <1>1, <1>3, <1>4, <2>1
  <2>3. \A f \in Emails : cred'[f] \subseteq cred[f] \cup {a}
    BY <1>1, <1>3, <2>1
  <2> QED BY <1>1, <1>4, <2>2, <2>3 DEF IInv, CredsHaveRows, HasRow
<1>6. TokensHaveRows' /\ ChecksHaveRows'
  BY <1>1 DEF IInv, TokensHaveRows, ChecksHaveRows, Accepted
<1>7. /\ call' \in [Requests -> Call] /\ CallsAreSound'
      /\ missed' \in Ops \cup {Nil} /\ TokenFindsCustomer'
  <2>1. ASSUME NEW result, Respond(r, result)
        PROVE  /\ call' \in [Requests -> Call] /\ CallsAreSound'
               /\ missed' \in Ops \cup {Nil} /\ TokenFindsCustomer'
    BY <1>1, <1>2, <2>1, RespondFacts, ConstantFacts DEF Respond, TokenFindsCustomer, Ops
  <2>2. CASE a # Missing /\ a.password = call[r].password /\ Goto(r, "issue", a.id)
    BY <1>1, <1>2, <1>4, <2>2, GotoIssueFacts, ConstantFacts DEF TokenFindsCustomer, Ops, HasRow
  <2> QED BY <1>3, <2>1, <2>2
<1> QED BY <1>1, <1>5, <1>6, <1>7 DEF IInv, AuthTypeOK

\* The row of a customer with a token is there, so that the answer that is loaded,
\* and every copy of it, is not "missing".
LEMMA CheckKeeps ==
  ASSUME IInv, NEW r \in Requests, Check(r)
  PROVE  IInv'
<1> DEFINE id == call[r].id
<1>1. id \in Ids /\ table[id] # Nil /\ call[r].pc = "check" /\ UNCHANGED <<table, cred, tokens>>
  BY DEF Check, IInv, CallsAreSound, Sound
<1>2. RowsStay
  BY <1>1, NoChange
<1>3. PICK a \in check[id] \cup {CheckAnswer(id)} :
        /\ check' = [check EXCEPT ![id] = @ \cup {a}]
        /\ \/ a = "missing" /\ Respond(r, "notFound")
           \/ a = "inactive" /\ Respond(r, "inactive")
           \/ a = "active" /\ Goto(r, "issue", id)
  BY DEF Check
<1>4. a \in CheckAnswers /\ a # "missing"
  BY <1>1 DEF CheckAnswer, CheckAnswers, IInv, AuthTypeOK, ChecksHaveRows
<1>5. check' \in [Ids -> SUBSET CheckAnswers] /\ ChecksHaveRows'
  BY <1>1, <1>3, <1>4 DEF IInv, AuthTypeOK, ChecksHaveRows
<1>6. TokensHaveRows' /\ CredsHaveRows'
  BY <1>1 DEF IInv, TokensHaveRows, CredsHaveRows, Accepted
<1>7. /\ call' \in [Requests -> Call] /\ CallsAreSound'
      /\ missed' \in Ops \cup {Nil} /\ TokenFindsCustomer'
  <2>1. CASE Respond(r, "inactive")
    BY <1>2, <2>1, RespondFacts, ConstantFacts DEF Respond, TokenFindsCustomer, Ops
  <2>2. CASE Goto(r, "issue", id)
    <3>1. call[r].op \notin {"login", "signup"}
      BY <1>1 DEF IInv, CallsAreSound, Sound
    <3> QED BY <1>1, <1>2, <2>2, <3>1, GotoIssueFacts, ConstantFacts DEF TokenFindsCustomer, Ops
  <2> QED BY <1>3, <1>4, <2>1, <2>2
<1> QED BY <1>1, <1>5, <1>6, <1>7 DEF IInv, AuthTypeOK

LEMMA IssueKeeps ==
  ASSUME IInv, NEW r \in Requests, Issue(r)
  PROVE  IInv'
<1>1. call[r].id \in Ids /\ table[call[r].id] # Nil /\ UNCHANGED <<table, check, cred>>
  BY DEF Issue, IInv, CallsAreSound, Sound
<1>2. PICK result \in {"created", "ok", "serverError"} : Respond(r, result)
  BY DEF Issue
<1>3. RowsStay
  BY <1>1, NoChange
<1>4. call' \in [Requests -> Call] /\ CallsAreSound' /\ missed' = Nil
  BY <1>2, <1>3, RespondFacts DEF Respond
<1>5. tokens' \subseteq Ids \X Kinds /\ TokensHaveRows'
  BY <1>1 DEF Issue, IInv, AuthTypeOK, TokensHaveRows, Accepted
<1>6. ChecksHaveRows' /\ CredsHaveRows'
  BY <1>1 DEF IInv, ChecksHaveRows, CredsHaveRows
<1> QED BY <1>1, <1>4, <1>5, <1>6, ConstantFacts DEF IInv, AuthTypeOK, TokenFindsCustomer, Ops

LEMMA ReadKeeps ==
  ASSUME IInv, NEW r \in Requests, Read(r)
  PROVE  IInv'
<1>1. table[call[r].id] # Nil
  BY DEF Read, IInv, CallsAreSound, Sound
<1>2. Respond(r, "ok") /\ UNCHANGED <<table, check, cred, tokens>>
  BY <1>1 DEF Read
<1> QED BY <1>2, NoChange, RespondKeeps

LEMMA FailKeeps ==
  ASSUME IInv, NEW r \in Requests, Fail(r)
  PROVE  IInv'
BY NoChange, RespondKeeps DEF Fail

\* Dropping copies and tokens takes nothing away that the invariant asks for.
LEMMA DropKeeps ==
  ASSUME IInv, UNCHANGED <<table, call>>, missed' = Nil,
         check' \in [Ids -> SUBSET CheckAnswers], \A id \in Ids : check'[id] \subseteq check[id],
         cred' \in [Emails -> SUBSET CredAnswers], \A e \in Emails : cred'[e] \subseteq cred[e],
         tokens' \subseteq tokens
  PROVE  IInv'
<1>1. RowsStay
  BY NoChange
<1>2. CallsAreSound'
  BY <1>1, CallsUnchanged
<1>3. TokensHaveRows' /\ ChecksHaveRows' /\ CredsHaveRows'
  BY DEF IInv, TokensHaveRows, ChecksHaveRows, CredsHaveRows, Accepted
<1> QED BY <1>2, <1>3, ConstantFacts DEF IInv, AuthTypeOK, TokenFindsCustomer, Ops

LEMMA DeactivateKeeps ==
  ASSUME IInv, NEW id \in Ids, Deactivate(id)
  PROVE  IInv'
<1>1. table[id] \in Row
  BY DEF Deactivate, IInv, AuthTypeOK
<1>2. [table[id] EXCEPT !.active = FALSE] \in Row
  BY <1>1 DEF Row
<1>3. RowsStay
  BY <1>1, <1>2, RowWritten DEF Deactivate, Row
<1>4. CallsAreSound'
  BY <1>3, CallsUnchanged DEF Deactivate
<1>5. TokensHaveRows' /\ ChecksHaveRows' /\ CredsHaveRows'
  BY <1>3, KeptHaveRows DEF Deactivate
<1>6. AuthTypeOK' /\ TokenFindsCustomer'
  BY <1>3, ConstantFacts DEF Deactivate, IInv, AuthTypeOK, RowsStay, TokenFindsCustomer, Ops
<1> QED BY <1>4, <1>5, <1>6 DEF IInv

LEMMA NextIInv == IInv /\ [Next]_vars => IInv'
<1> SUFFICES ASSUME IInv, [Next]_vars PROVE IInv'
  OBVIOUS
<1>1. ASSUME NEW r \in Requests, Step(r) PROVE IInv'
  BY <1>1, InsertKeeps, LookupKeeps, CheckKeeps, IssueKeeps, ReadKeeps, UpdateKeeps, FailKeeps
  DEF Step
<1>2. ASSUME NEW r \in Requests, \E e \in Addresses, p \in Passwords : SignUp(r, e, p)
      PROVE  IInv'
  BY <1>2, SignUpKeeps
<1>3. ASSUME NEW r \in Requests, \E e \in Emails, p \in Passwords : Login(r, e, p) PROVE IInv'
  BY <1>3, LoginKeeps
<1>4. ASSUME NEW r \in Requests, NEW id \in Ids,
             \/ RefreshToken(r, id) \/ GetProfile(r, id)
             \/ \E e \in Addresses : UpdateProfile(r, id, e)
      PROVE  IInv'
  BY <1>4, RefreshTokenKeeps, GetProfileKeeps, UpdateProfileKeeps
<1>5. ASSUME NEW e \in Emails, NEW a \in cred[e], ForgetCred(e, a) PROVE IInv'
  <2>1. cred' \in [Emails -> SUBSET CredAnswers] /\ \A f \in Emails : cred'[f] \subseteq cred[f]
    BY <1>5 DEF ForgetCred, IInv, AuthTypeOK
  <2> QED BY <1>5, <2>1, DropKeeps DEF ForgetCred, IInv, AuthTypeOK
<1>6. ASSUME NEW id \in Ids, NEW a \in check[id], ForgetCheck(id, a) PROVE IInv'
  <2>1. check' \in [Ids -> SUBSET CheckAnswers] /\ \A i \in Ids : check'[i] \subseteq check[i]
    BY <1>6 DEF ForgetCheck, IInv, AuthTypeOK
  <2> QED BY <1>6, <2>1, DropKeeps DEF ForgetCheck, IInv, AuthTypeOK
<1>7. ASSUME NEW id \in Ids, NEW kind \in Kinds, ExpireToken(id, kind) PROVE IInv'
  BY <1>7, DropKeeps DEF ExpireToken, IInv, AuthTypeOK
<1>8. ASSUME NEW id \in Ids, Deactivate(id) PROVE IInv'
  BY <1>8, DeactivateKeeps
<1>9. CASE UNCHANGED vars
  <2>1. RowsStay
    BY <1>9, NoChange DEF vars
  <2>2. CallsAreSound'
    BY <1>9, <2>1, CallsUnchanged DEF vars
  <2>3. TokensHaveRows' /\ ChecksHaveRows' /\ CredsHaveRows'
    BY <1>9, <2>1, KeptHaveRows DEF vars
  <2> QED BY <1>9, <2>2, <2>3 DEF vars, IInv, AuthTypeOK, TokenFindsCustomer
<1> QED BY <1>1, <1>2, <1>3, <1>4, <1>5, <1>6, <1>7, <1>8, <1>9 DEF Next, Forget

LEMMA IInvAlways == Spec => []IInv
BY InitIInv, NextIInv, PTL DEF Spec

-----------------------------------------------------------------------------
(* The theorems                                                            *)

\* Type correctness of AuthService.
THEOREM AuthTypeCorrect == Spec => []AuthTypeOK
<1>1. IInv => AuthTypeOK
  BY DEF IInv
<1> QED BY <1>1, IInvAlways, PTL

\* Whoever has a token that was accepted is a customer: refresh and profile never
\* answer "customer not found", however the caches keep and drop their answers.
THEOREM TokensFindCustomers == Spec => []TokenFindsCustomer
<1>1. IInv => TokenFindsCustomer
  BY DEF IInv
<1> QED BY <1>1, IInvAlways, PTL

\* The tokens that a login or a sign-up is about to get are those of the customer
\* whose password was given, to whomever the e-mail address belongs by now.
THEOREM TokensGoToOwners == Spec => []TokensAreByOwner
<1>1. IInv => TokensAreByOwner
  BY DEF IInv, CallsAreSound, Sound, TokensAreByOwner
<1> QED BY <1>1, IInvAlways, PTL
=============================================================================
