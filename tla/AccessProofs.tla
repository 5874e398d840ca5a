----------------------------- MODULE AccessProofs -----------------------------
(***************************************************************************)
(* What the guard of a request guarantees for any number of users, scopes, *)
(* sessions, keys and requests.  The argument: whatever changes what the   *)
(* guard reads is stamped with a later moment than the ones at which the   *)
(* requests under way began.                                               *)
(***************************************************************************)
EXTENDS Access, TLAPS

Emails == {a.email : a \in Accounts}
Roles == {"client_admin", "client_ops", "partner"}
Scopes == [id : Relationships, since : Nat]
Users == [email : Emails, role : Roles, scopes : SUBSET Scopes,
          asked : SUBSET Relationships, cut : BOOLEAN]
Creations == [email : Emails, rest : Seq(Relationships)]
Credentials == [kind : {"session", "key"}, email : Emails \cup {"none"}, revoked : Int]
Answers == [by : {"none", "board", "client", "tenant"},
            asked : SUBSET Relationships, given : SUBSET Relationships]
Requests == [credential : Nat,
             pc : {"session", "key", "user", "scopes", "admitted", "refused"},
             began : Nat, role : Roles \cup {"none"}, scopes : SUBSET Relationships,
             answer : Answers]

AccessTypeOK ==
    /\ users \subseteq Users
    /\ creations \subseteq Creations
    /\ credentials \in Seq(Credentials)
    /\ guarded \in Seq(Requests)
    /\ moment \in Nat

(* An e-mail is one user's, a session an existing user's; no scope is given*)
(* later than now.                                                         *)
UsersKnown ==
    /\ \A u, v \in users : u.email = v.email => u = v
    /\ \A n \in DOMAIN credentials : credentials[n].kind = "session" =>
          \E u \in users : u.email = credentials[n].email
    /\ \A u \in users : \A s \in u.scopes : s.since <= moment

(* A request that is not refused holds a credential of the kind it is being*)
(* resolved as, which was live when the request came once it is past it.   *)
GuardAgrees ==
    \A q \in DOMAIN guarded :
        LET request == guarded[q]
        IN  /\ request.began <= moment
            /\ request.pc # "refused" => request.credential \in DOMAIN credentials
            /\ request.pc \in {"session", "user", "scopes"} => Holder(q).kind = "session"
            /\ request.pc = "key" => Holder(q).kind = "key"
            /\ request.pc \in {"user", "scopes"} =>
                  Holder(q).revoked = Live \/ Holder(q).revoked > request.began

(* What the guard has read: the role of the user, and of its scopes all it *)
(* had when the request came and none that it has not by now.              *)
ScopesSince(q) == {s.id : s \in {t \in User(Holder(q).email).scopes :
                                     t.since <= guarded[q].began}}
ReadsAgree ==
    \A q \in DOMAIN guarded :
        LET request == guarded[q]
            sessionRead == Holder(q).kind = "session" /\ request.pc \in {"scopes", "admitted"}
        IN  /\ request.pc = "admitted" /\ Holder(q).kind # "session" => IsClient(request.role)
            /\ sessionRead => request.role = User(Holder(q).email).role
            /\ sessionRead /\ request.pc = "admitted" =>
                  /\ ScopesSince(q) \subseteq request.scopes
                  /\ request.scopes \subseteq ScopesFor(Holder(q).email)

(* A handler has decided by what the guard read.                           *)
AnswersFollow ==
    \A q \in DOMAIN guarded :
        LET request == guarded[q]
            answer == request.answer
        IN  /\ answer # NoAnswer => request.pc = "admitted"
            /\ answer.by = "board" =>
                  answer.given = {r \in answer.asked : CanSeeRelationship(request, r)}
            /\ answer.by = "client" =>
                  answer.given = IF IsClient(request.role) THEN answer.asked ELSE {}

AccessInv == /\ AccessTypeOK /\ UsersKnown /\ GuardAgrees /\ ReadsAgree /\ AnswersFollow
             /\ AdmittedWasLive /\ CreatedWithItsScopes

-------------------------------------------------------------------------------
LEMMA UserIs ==
    ASSUME NEW S, NEW u \in S, \A v \in S : v.email = u.email => v = u
    PROVE  (CHOOSE v \in S : v.email = u.email) = u
OBVIOUS

LEMMA RestOf ==
    ASSUME NEW S, NEW s \in Seq(S)
    PROVE  /\ ToSet(s) \subseteq S
           /\ s # <<>> => /\ Head(s) \in S /\ Tail(s) \in Seq(S)
                          /\ ToSet(s) \subseteq {Head(s)} \cup ToSet(Tail(s))
           /\ s = <<>> => ToSet(s) = {}
<1>1. ToSet(s) \subseteq S /\ (s = <<>> => ToSet(s) = {})
  BY DEF ToSet
<1>2. ASSUME s # <<>>
      PROVE  /\ Head(s) \in S /\ Tail(s) \in Seq(S)
             /\ ToSet(s) \subseteq {Head(s)} \cup ToSet(Tail(s))
  <2>1. /\ Head(s) \in S /\ Tail(s) \in Seq(S) /\ Len(s) \in Nat \ {0}
        /\ Len(Tail(s)) = Len(s) - 1 /\ Head(s) = s[1]
        /\ \A n \in 1..Len(Tail(s)) : Tail(s)[n] = s[n + 1]
    BY <1>2
  <2>2. ASSUME NEW n \in DOMAIN s, n # 1
        PROVE  s[n] \in ToSet(Tail(s))
    <3>1. n - 1 \in DOMAIN Tail(s) /\ Tail(s)[n - 1] = s[n]
      BY <2>1, <2>2
    <3> QED BY <3>1 DEF ToSet
  <2> QED BY <2>1, <2>2 DEF ToSet
<1> QED BY <1>1, <1>2

LEMMA RequestsAre ==
    ASSUME AccessTypeOK
    PROVE  /\ moment \in Nat
           /\ \A q \in DOMAIN guarded : guarded[q] \in Requests /\ guarded[q].began \in Nat
           /\ \A n \in DOMAIN credentials : credentials[n] \in Credentials
<1>1. \A q \in DOMAIN guarded : guarded[q] \in Requests
  BY DEF AccessTypeOK
<1>2. \A n \in DOMAIN credentials : credentials[n] \in Credentials
  BY DEF AccessTypeOK
<1>3. \A request \in Requests : request.began \in Nat
  BY DEF Requests
<1> QED BY <1>1, <1>2, <1>3 DEF AccessTypeOK

(* What a step may do to the users: none is lost, a scope given meanwhile  *)
(* is of the next moment.                                                  *)
UsersGrow ==
    /\ moment' \in Nat /\ moment <= moment'
    /\ users' \subseteq Users
    /\ \A u, v \in users' : u.email = v.email => u = v
    /\ \A u \in users : \E v \in users' :
          /\ v.email = u.email /\ v.role = u.role /\ u.scopes \subseteq v.scopes
          /\ \A s \in v.scopes : s \in u.scopes \/ s.since > moment
    /\ \A v \in users' : \A s \in v.scopes : s.since <= moment'

(* What a request has read of its user is still so when the users change.  *)
LEMMA SeenStep ==
    ASSUME AccessInv, UsersGrow, UNCHANGED <<credentials, guarded>>
    PROVE  UsersKnown' /\ GuardAgrees' /\ AdmittedWasLive' /\ ReadsAgree' /\ AnswersFollow'
<1>1. UsersKnown'
  BY DEF AccessInv, UsersKnown, UsersGrow
<1>2. GuardAgrees' /\ AdmittedWasLive'
  BY RequestsAre DEF AccessInv, GuardAgrees, AdmittedWasLive, UsersGrow, Holder
<1>3. AnswersFollow'
  BY DEF AccessInv, AnswersFollow, CanSeeRelationship
<1>4. ReadsAgree'
  <2> SUFFICES ASSUME NEW q \in DOMAIN guarded, Holder(q).kind = "session",
                      guarded[q].pc \in {"scopes", "admitted"}
               PROVE  /\ guarded[q].role = (User(Holder(q).email).role)'
                      /\ guarded[q].pc = "admitted" =>
                            /\ ScopesSince(q)' \subseteq guarded[q].scopes
                            /\ guarded[q].scopes \subseteq (ScopesFor(Holder(q).email))'
    BY DEF AccessInv, ReadsAgree, Holder
  <2>1. /\ guarded[q].credential \in DOMAIN credentials
        /\ guarded[q].began <= moment /\ guarded[q].began \in Nat /\ moment \in Nat
    BY RequestsAre DEF AccessInv, GuardAgrees
  <2>2. PICK u \in users : u.email = Holder(q).email
    BY <2>1 DEF AccessInv, UsersKnown, Holder
  <2>3. PICK v \in users' : /\ v.email = u.email /\ v.role = u.role /\ u.scopes \subseteq v.scopes
                            /\ \A s \in v.scopes : s \in u.scopes \/ s.since > moment
    BY DEF UsersGrow
  <2>4. User(Holder(q).email) = u
    BY <2>2, UserIs DEF AccessInv, UsersKnown, User
  <2>5. (User(Holder(q).email))' = v
    BY <2>2, <2>3, UserIs DEF UsersGrow, User, Holder
  <2>6. \A s \in v.scopes : s.since \in Nat
    BY <2>3 DEF UsersGrow, Users, Scopes
  <2>7. {t \in v.scopes : t.since <= guarded[q].began}
            \subseteq {t \in u.scopes : t.since <= guarded[q].began}
    BY <2>1, <2>3, <2>6
  <2>8. /\ ScopesSince(q) = {s.id : s \in {t \in u.scopes : t.since <= guarded[q].began}}
        /\ ScopesSince(q)' = {s.id : s \in {t \in v.scopes : t.since <= guarded[q].began}}
        /\ ScopesFor(Holder(q).email) = {s.id : s \in u.scopes}
        /\ (ScopesFor(Holder(q).email))' = {s.id : s \in v.scopes}
    BY <2>4, <2>5 DEF ScopesSince, ScopesFor
  <2>9. /\ guarded[q].role = u.role
        /\ guarded[q].pc = "admitted" =>
              /\ ScopesSince(q) \subseteq guarded[q].scopes
              /\ guarded[q].scopes \subseteq ScopesFor(Holder(q).email)
    BY <2>4 DEF AccessInv, ReadsAgree
  <2> QED BY <2>3, <2>5, <2>7, <2>8, <2>9
<1> QED BY <1>1, <1>2, <1>3, <1>4

(* A scope added to the user of an e-mail.                                 *)
LEMMA ScopedGrow ==
    ASSUME AccessInv, NEW e, NEW r \in Relationships, users' = Scoped(e, r), Change
    PROVE  /\ UsersGrow
           /\ \A v \in users' : \E u \in users :
                 /\ v.email = u.email /\ v.asked = u.asked /\ v.cut = u.cut
                 /\ u.scopes \subseteq v.scopes
                 /\ u.email = e => r \in {s.id : s \in v.scopes}
<1> DEFINE new == [id |-> r, since |-> moment + 1]
           Grown(u) == [u EXCEPT !.scopes = IF u.email = e THEN u.scopes \cup {new} ELSE u.scopes]
<1>1. moment' = moment + 1 /\ moment \in Nat /\ new \in Scopes /\ new.id = r /\ new.since = moment + 1
  BY DEF Change, AccessInv, AccessTypeOK, Scopes
<1>2. /\ \A v \in users' : \E u \in users : v = Grown(u)
      /\ \A u \in users : Grown(u) \in users'
  <2>1. users' = {Grown(u) : u \in users}
    BY DEF Scoped
  <2> QED BY <2>1
<1>3. \A u \in users :
         /\ Grown(u) \in Users /\ Grown(u).email = u.email /\ Grown(u).asked = u.asked
         /\ Grown(u).cut = u.cut /\ Grown(u).role = u.role
         /\ Grown(u).scopes = IF u.email = e THEN u.scopes \cup {new} ELSE u.scopes
  BY <1>1 DEF AccessInv, AccessTypeOK, Users
<1> HIDE DEF Grown, new
<1>4. ASSUME NEW u \in users, NEW s \in Grown(u).scopes
      PROVE  s \in u.scopes \/ s.since > moment
  <2>1. s \in u.scopes \/ s = new
    BY <1>3
  <2> QED BY <1>1, <2>1
<1>5. ASSUME NEW u \in users, NEW s \in Grown(u).scopes
      PROVE  s.since <= moment'
  <2>1. s \in u.scopes \/ s = new
    BY <1>3
  <2>2. s \in u.scopes => s.since <= moment /\ s.since \in Nat
    BY DEF AccessInv, AccessTypeOK, UsersKnown, Users, Scopes
  <2> QED BY <1>1, <2>1, <2>2
<1>6. \A u \in users : u.email = e => r \in {s.id : s \in Grown(u).scopes}
  BY <1>1, <1>3
<1>7. UsersGrow
  <2>1. ASSUME NEW v \in users'
        PROVE  v \in Users
    <3>1. PICK u \in users : v = Grown(u)
      BY <1>2
    <3> QED BY <1>3, <3>1
  <2>2. ASSUME NEW v \in users', NEW w \in users', v.email = w.email
        PROVE  v = w
    <3>1. PICK u \in users : v = Grown(u)
      BY <1>2
    <3>2. PICK t \in users : w = Grown(t)
      BY <1>2
    <3>3. v.email = u.email /\ w.email = t.email
      BY <1>3, <3>1, <3>2
    <3>4. u = t
      BY <2>2, <3>3 DEF AccessInv, UsersKnown
    <3> QED BY <3>1, <3>2, <3>4
  <2>3. \A u \in users : /\ Grown(u) \in users' /\ Grown(u).email = u.email
                         /\ Grown(u).role = u.role /\ u.scopes \subseteq Grown(u).scopes
                         /\ \A s \in Grown(u).scopes : s \in u.scopes \/ s.since > moment
    BY <1>2, <1>3, <1>4
  <2>4. \A v \in users' : \A s \in v.scopes : s.since <= moment'
    BY <1>2, <1>5
  <2> QED BY <1>1, <2>1, <2>2, <2>3, <2>4 DEF UsersGrow
<1>8. ASSUME NEW v \in users'
      PROVE  \E u \in users :
                 /\ v.email = u.email /\ v.asked = u.asked /\ v.cut = u.cut
                 /\ u.scopes \subseteq v.scopes
                 /\ u.email = e => r \in {s.id : s \in v.scopes}
  <2>1. PICK u \in users : v = Grown(u)
    BY <1>2
  <2> QED BY <1>3, <1>6, <2>1
<1> QED BY <1>7, <1>8

-------------------------------------------------------------------------------
LEMMA CreateUserStep ==
    ASSUME AccessInv, NEW account \in Accounts, CreateUser(account)
    PROVE  AccessInv'
<1> DEFINE new == [email |-> account.email, role |-> account.role, scopes |-> {},
                   asked |-> ToSet(account.scopes), cut |-> FALSE]
           creation == [email |-> account.email, rest |-> account.scopes]
<1>1. new \in Users /\ creation \in Creations
  BY RestOf, AccessAssumption DEF Users, Creations, Emails, Roles
<1>2. AccessTypeOK'
  BY <1>1 DEF AccessInv, AccessTypeOK, CreateUser
<1>3. UsersGrow
  <2>1. users' = users \cup {new} /\ moment' = moment /\ moment \in Nat
        /\ \A u \in users : u.email # new.email
    BY DEF CreateUser, AccessInv, AccessTypeOK
  <2>2. new.scopes = {}
    OBVIOUS
  <2> HIDE DEF new
  <2>3. \A u, v \in users' : u.email = v.email => u = v
    BY <2>1 DEF AccessInv, UsersKnown
  <2>4. users' \subseteq Users
    BY <1>1, <2>1 DEF AccessInv, AccessTypeOK
  <2>5. \A v \in users' : \A s \in v.scopes : s.since <= moment'
    BY <2>1, <2>2 DEF AccessInv, UsersKnown
  <2> QED BY <2>1, <2>3, <2>4, <2>5 DEF UsersGrow
<1>4. CreatedWithItsScopes'
  <2>1. \A u \in users' : u \in users \/ u = new
    BY DEF CreateUser
  <2>2. creation \in creations' /\ creations \subseteq creations'
    BY DEF CreateUser
  <2> QED BY <2>1, <2>2 DEF AccessInv, CreatedWithItsScopes
<1> QED BY <1>2, <1>3, <1>4, SeenStep DEF AccessInv, CreateUser

LEMMA CreateScopeStep ==
    ASSUME AccessInv, NEW c \in creations, CreateScope(c)
    PROVE  AccessInv'
<1> DEFINE rest == [c EXCEPT !.rest = Tail(@)]
<1>1. c \in Creations /\ c.rest \in Seq(Relationships) /\ c.rest # <<>>
  BY DEF AccessInv, AccessTypeOK, Creations, CreateScope
<1>2. /\ Head(c.rest) \in Relationships /\ Tail(c.rest) \in Seq(Relationships)
      /\ ToSet(c.rest) \subseteq {Head(c.rest)} \cup ToSet(Tail(c.rest))
  BY <1>1, RestOf
<1>3. rest \in Creations /\ rest.email = c.email /\ rest.rest = Tail(c.rest)
  BY <1>1, <1>2 DEF Creations
<1>4. /\ UsersGrow
      /\ \A v \in users' : \E u \in users :
            /\ v.email = u.email /\ v.asked = u.asked /\ v.cut = u.cut
            /\ u.scopes \subseteq v.scopes
            /\ u.email = c.email => Head(c.rest) \in {s.id : s \in v.scopes}
  BY <1>2, ScopedGrow DEF CreateScope
<1>5. AccessTypeOK'
  BY <1>3, <1>4 DEF AccessInv, AccessTypeOK, CreateScope, UsersGrow
<1>6. CreatedWithItsScopes'
  <2> SUFFICES ASSUME NEW v \in users', ~(v.asked \subseteq {s.id : s \in v.scopes}), ~v.cut
               PROVE  \E d \in creations' : /\ d.email = v.email
                             /\ v.asked \subseteq {s.id : s \in v.scopes} \cup ToSet(d.rest)
    BY DEF CreatedWithItsScopes
  <2>1. PICK u \in users :
            /\ v.email = u.email /\ v.asked = u.asked /\ v.cut = u.cut
            /\ u.scopes \subseteq v.scopes
            /\ u.email = c.email => Head(c.rest) \in {s.id : s \in v.scopes}
    BY <1>4
  <2>2. {s.id : s \in u.scopes} \subseteq {s.id : s \in v.scopes}
    BY <2>1
  <2>3. PICK d \in creations : /\ d.email = u.email
                               /\ u.asked \subseteq {s.id : s \in u.scopes} \cup ToSet(d.rest)
    BY <2>1, <2>2 DEF AccessInv, CreatedWithItsScopes
  <2>4. CASE d = c
    <3>1. rest \in creations'
      BY DEF CreateScope
    <3>2. u.asked \subseteq {s.id : s \in v.scopes} \cup ToSet(Tail(c.rest))
      BY <1>2, <2>1, <2>2, <2>3, <2>4
    <3> QED BY <1>3, <2>1, <2>3, <2>4, <3>1, <3>2
  <2>5. CASE d # c
    <3>1. d \in creations'
      BY <2>5 DEF CreateScope
    <3> QED BY <2>1, <2>2, <2>3, <3>1
  <2> QED BY <2>4, <2>5
<1> QED BY <1>4, <1>5, <1>6, SeenStep DEF AccessInv, CreateScope

LEMMA CutCreationStep ==
    ASSUME AccessInv, NEW c \in creations, CutCreation(c)
    PROVE  AccessInv'
<1> DEFINE Cut(u) == [u EXCEPT !.cut = u.cut \/ u.email = c.email]
<1>1. /\ \A v \in users' : \E u \in users : v = Cut(u)
      /\ \A u \in users : Cut(u) \in users'
  <2>1. users' = {Cut(u) : u \in users}
    BY DEF CutCreation
  <2> QED BY <2>1
<1>2. \A u \in users : /\ Cut(u) \in Users /\ Cut(u).email = u.email
                       /\ Cut(u).scopes = u.scopes /\ Cut(u).asked = u.asked
                       /\ Cut(u).role = u.role
  BY DEF AccessInv, AccessTypeOK, Users
<1>3. \A u \in users : Cut(u).cut = (u.cut \/ u.email = c.email)
  BY DEF AccessInv, AccessTypeOK, Users
<1> HIDE DEF Cut
<1>4. UsersGrow
  <2>1. ASSUME NEW v \in users'
        PROVE  v \in Users /\ \A s \in v.scopes : s.since <= moment
    <3>1. PICK u \in users : v = Cut(u)
      BY <1>1
    <3> QED BY <1>2, <3>1 DEF AccessInv, UsersKnown
  <2>2. ASSUME NEW v \in users', NEW w \in users', v.email = w.email
        PROVE  v = w
    <3>1. PICK u \in users : v = Cut(u)
      BY <1>1
    <3>2. PICK t \in users : w = Cut(t)
      BY <1>1
    <3>3. u = t
      BY <1>2, <2>2, <3>1, <3>2 DEF AccessInv, UsersKnown
    <3> QED BY <3>1, <3>2, <3>3
  <2>3. \A u \in users : /\ Cut(u) \in users' /\ Cut(u).email = u.email
                         /\ Cut(u).scopes = u.scopes /\ Cut(u).role = u.role
    BY <1>1, <1>2
  <2>4. moment' = moment /\ moment \in Nat
    BY DEF CutCreation, AccessInv, AccessTypeOK
  <2> QED BY <2>1, <2>2, <2>3, <2>4 DEF UsersGrow
<1>5. AccessTypeOK'
  BY <1>4 DEF AccessInv, AccessTypeOK, CutCreation, UsersGrow
<1>6. CreatedWithItsScopes'
  <2> SUFFICES ASSUME NEW v \in users', ~(v.asked \subseteq {s.id : s \in v.scopes}), ~v.cut
               PROVE  \E d \in creations' : /\ d.email = v.email
                             /\ v.asked \subseteq {s.id : s \in v.scopes} \cup ToSet(d.rest)
    BY DEF CreatedWithItsScopes
  <2>2. PICK u \in users : v = Cut(u)
    BY <1>1
  <2>3. /\ v.email = u.email /\ v.scopes = u.scopes /\ v.asked = u.asked
        /\ ~u.cut /\ u.email # c.email
    BY <1>2, <1>3, <2>2
  <2>1. PICK d \in creations : /\ d.email = u.email
                               /\ u.asked \subseteq {s.id : s \in u.scopes} \cup ToSet(d.rest)
    BY <2>3 DEF AccessInv, CreatedWithItsScopes
  <2> QED BY <2>1, <2>3 DEF CutCreation
<1> QED BY <1>4, <1>5, <1>6, SeenStep DEF AccessInv, CutCreation

LEMMA EndCreationStep ==
    ASSUME AccessInv, NEW c \in creations, EndCreation(c)
    PROVE  AccessInv'
<1>1. UsersGrow
  BY DEF UsersGrow, AccessInv, AccessTypeOK, UsersKnown, EndCreation
<1>2. AccessTypeOK'
  BY DEF AccessInv, AccessTypeOK, EndCreation
<1>3. ToSet(c.rest) = {}
  BY DEF EndCreation, ToSet
<1>4. CreatedWithItsScopes'
  BY <1>3 DEF AccessInv, CreatedWithItsScopes, EndCreation
<1> QED BY <1>1, <1>2, <1>4, SeenStep DEF AccessInv, EndCreation

LEMMA AddScopeStep ==
    ASSUME AccessInv, NEW u \in users, NEW r \in Relationships, AddScope(u, r)
    PROVE  AccessInv'
<1>1. /\ UsersGrow
      /\ \A v \in users' : \E w \in users :
            /\ v.email = w.email /\ v.asked = w.asked /\ v.cut = w.cut
            /\ w.scopes \subseteq v.scopes
  BY ScopedGrow DEF AddScope
<1>2. AccessTypeOK'
  BY <1>1 DEF AccessInv, AccessTypeOK, AddScope, UsersGrow
<1>3. CreatedWithItsScopes'
  <2> SUFFICES ASSUME NEW v \in users', ~(v.asked \subseteq {s.id : s \in v.scopes}), ~v.cut
               PROVE  \E d \in creations' : /\ d.email = v.email
                             /\ v.asked \subseteq {s.id : s \in v.scopes} \cup ToSet(d.rest)
    BY DEF CreatedWithItsScopes
  <2>1. PICK w \in users : /\ v.email = w.email /\ v.asked = w.asked /\ v.cut = w.cut
                           /\ w.scopes \subseteq v.scopes
    BY <1>1
  <2>2. {s.id : s \in w.scopes} \subseteq {s.id : s \in v.scopes}
    BY <2>1
  <2>3. PICK d \in creations : /\ d.email = w.email
                               /\ w.asked \subseteq {s.id : s \in w.scopes} \cup ToSet(d.rest)
    BY <2>1, <2>2 DEF AccessInv, CreatedWithItsScopes
  <2> QED BY <2>1, <2>2, <2>3 DEF AddScope
<1> QED BY <1>1, <1>2, <1>3, SeenStep DEF AccessInv, AddScope

-------------------------------------------------------------------------------
(* What a step may do to the credentials: none is lost or changed but by   *)
(* being revoked from now on.                                              *)
CredentialsGrow ==
    /\ credentials' \in Seq(Credentials)
    /\ DOMAIN credentials \subseteq DOMAIN credentials'
    /\ moment' \in Nat /\ moment <= moment'
    /\ \A n \in DOMAIN credentials :
          /\ credentials'[n].kind = credentials[n].kind
          /\ credentials'[n].email = credentials[n].email
          /\ credentials'[n].revoked = credentials[n].revoked
             \/ credentials'[n].revoked > moment
    /\ \A n \in DOMAIN credentials' : credentials'[n].kind = "session" =>
          \E u \in users : u.email = credentials'[n].email

LEMMA CredentialsStep ==
    ASSUME AccessInv, CredentialsGrow, UNCHANGED <<users, creations, guarded>>
    PROVE  AccessInv'
<1>1. AccessTypeOK'
  BY DEF AccessInv, AccessTypeOK, CredentialsGrow
<1>2. UsersKnown'
  <2>1. \A u \in users : \A s \in u.scopes : s.since \in Nat
    BY DEF AccessInv, AccessTypeOK, Users, Scopes
  <2>2. \A u \in users : \A s \in u.scopes : s.since <= moment'
    BY <2>1 DEF AccessInv, AccessTypeOK, UsersKnown, CredentialsGrow
  <2> QED BY <2>2 DEF AccessInv, UsersKnown, CredentialsGrow
<1>3. \A q \in DOMAIN guarded : guarded[q].began \in Nat /\ guarded[q].began <= moment /\ moment \in Nat
  BY RequestsAre DEF AccessInv, GuardAgrees
<1>4. \A q \in DOMAIN guarded : guarded[q].credential \in DOMAIN credentials =>
         /\ Holder(q)'.kind = Holder(q).kind /\ Holder(q)'.email = Holder(q).email
         /\ Holder(q)'.revoked = Holder(q).revoked \/ Holder(q)'.revoked > moment
         /\ Holder(q)'.revoked \in Int
  <2>1. \A n \in DOMAIN credentials' : credentials'[n] \in Credentials
    BY DEF CredentialsGrow
  <2>2. \A credential \in Credentials : credential.revoked \in Int
    BY DEF Credentials
  <2> QED BY <2>1, <2>2 DEF CredentialsGrow, Holder
<1>5. GuardAgrees'
  BY <1>3, <1>4 DEF AccessInv, GuardAgrees, CredentialsGrow
<1>6. AdmittedWasLive'
  BY <1>3, <1>4 DEF AccessInv, GuardAgrees, AdmittedWasLive
<1>7. ReadsAgree' /\ AnswersFollow'
  <2>1. \A q \in DOMAIN guarded : guarded[q].pc \in {"scopes", "admitted"} =>
           guarded[q].credential \in DOMAIN credentials
    BY DEF AccessInv, GuardAgrees
  <2> QED BY <1>4, <2>1 DEF AccessInv, ReadsAgree, AnswersFollow, CanSeeRelationship,
                            ScopesSince, ScopesFor, User
<1>8. CreatedWithItsScopes'
  BY DEF AccessInv, CreatedWithItsScopes
<1> QED BY <1>1, <1>2, <1>5, <1>6, <1>7, <1>8 DEF AccessInv

LEMMA IssuedStep ==
    ASSUME AccessInv, NEW new \in Credentials, credentials' = Append(credentials, new),
           new.kind = "session" => \E u \in users : u.email = new.email,
           UNCHANGED <<users, creations, guarded, moment>>
    PROVE  AccessInv'
<1>1. CredentialsGrow
  BY DEF CredentialsGrow, AccessInv, AccessTypeOK, UsersKnown
<1> QED BY <1>1, CredentialsStep

LEMMA RevokeStep ==
    ASSUME AccessInv, NEW n \in DOMAIN credentials, Revoke(n)
    PROVE  AccessInv'
<1>1. CredentialsGrow
  <2>1. /\ credentials \in Seq(Credentials) /\ moment \in Nat /\ moment' = moment + 1
        /\ credentials' = [credentials EXCEPT ![n].revoked = moment + 1]
    BY DEF AccessInv, AccessTypeOK, Revoke, Change
  <2>2. /\ credentials' \in Seq(Credentials) /\ DOMAIN credentials' = DOMAIN credentials
        /\ \A m \in DOMAIN credentials :
              /\ credentials'[m].kind = credentials[m].kind
              /\ credentials'[m].email = credentials[m].email
              /\ credentials'[m].revoked = IF m = n THEN moment + 1 ELSE credentials[m].revoked
    <3>1. credentials[n] \in Credentials
      BY <2>1
    <3>2. [credentials[n] EXCEPT !.revoked = moment + 1] \in Credentials
      <4>1. \A credential \in Credentials, k \in Int :
               [credential EXCEPT !.revoked = k] \in Credentials
        BY DEF Credentials
      <4>2. moment + 1 \in Int
        BY <2>1
      <4> QED BY <3>1, <4>1, <4>2, Zenon
    <3>3. credentials' = [credentials EXCEPT ![n] = [credentials[n] EXCEPT !.revoked = moment + 1]]
      BY <2>1
    <3>4. credentials' \in Seq(Credentials) /\ DOMAIN credentials' = DOMAIN credentials
      BY <2>1, <3>2, <3>3
    <3>5. credentials[n] = [kind |-> credentials[n].kind, email |-> credentials[n].email,
                            revoked |-> credentials[n].revoked]
      BY <3>1 DEF Credentials
    <3>6. /\ credentials'[n].kind = credentials[n].kind
          /\ credentials'[n].email = credentials[n].email
          /\ credentials'[n].revoked = moment + 1
      BY <3>3, <3>5
    <3>7. \A m \in DOMAIN credentials : m # n => credentials'[m] = credentials[m]
      BY <3>3
    <3> QED BY <3>4, <3>6, <3>7
  <2> QED BY <2>1, <2>2 DEF CredentialsGrow, AccessInv, UsersKnown
<1> QED BY <1>1, CredentialsStep DEF Revoke

-------------------------------------------------------------------------------
(* A request that passes on to `next`.                                     *)
LEMMA GuardStep ==
    ASSUME AccessInv, NEW q \in DOMAIN guarded, NEW next \in Requests,
           guarded' = [guarded EXCEPT ![q] = next],
           UNCHANGED <<users, creations, credentials, moment>>,
           next.credential = guarded[q].credential, next.began = guarded[q].began,
           guarded[q].pc # "refused",
           next.pc \in {"user", "scopes", "admitted"} =>
              Holder(q).revoked = Live \/ Holder(q).revoked > guarded[q].began,
           next.pc \in {"user", "scopes"} => Holder(q).kind = "session",
           next.pc \in {"user", "scopes", "admitted", "refused"},
           next.pc = "scopes" => next.role = User(Holder(q).email).role,
           next.pc = "admitted" =>
              \/ Holder(q).kind # "session" /\ IsClient(next.role)
              \/ /\ Holder(q).kind = "session"
                 /\ next.role = User(Holder(q).email).role
                 /\ next.scopes = ScopesFor(Holder(q).email),
           next.answer = NoAnswer
    PROVE  AccessInv'
<1>1. AccessTypeOK' /\ DOMAIN guarded' = DOMAIN guarded /\ guarded'[q] = next
      /\ \A p \in DOMAIN guarded : p # q => guarded'[p] = guarded[p]
  BY DEF AccessInv, AccessTypeOK
<1>2. \A p \in DOMAIN guarded : Holder(p)' = Holder(p)
  BY <1>1 DEF Holder
<1>3. UsersKnown' /\ CreatedWithItsScopes'
  BY DEF AccessInv, UsersKnown, CreatedWithItsScopes
<1>4. GuardAgrees'
  BY <1>1, <1>2 DEF AccessInv, GuardAgrees
<1>5. AdmittedWasLive'
  BY <1>1, <1>2 DEF AccessInv, AdmittedWasLive
<1>6. AnswersFollow'
  <2>1. NoAnswer.by = "none"
    BY DEF NoAnswer
  <2> QED BY <1>1, <2>1 DEF AccessInv, AnswersFollow, CanSeeRelationship
<1>7. ReadsAgree'
  <2>1. /\ \A p \in DOMAIN guarded : (User(Holder(p).email))' = User(Holder(p).email)
        /\ \A p \in DOMAIN guarded : (ScopesFor(Holder(p).email))' = ScopesFor(Holder(p).email)
        /\ \A p \in DOMAIN guarded \ {q} : ScopesSince(p)' = ScopesSince(p)
    BY <1>1, <1>2 DEF User, ScopesFor, ScopesSince
  <2>2. ScopesSince(q)' \subseteq ScopesFor(Holder(q).email)
    BY <1>2, <2>1 DEF ScopesSince, ScopesFor
  <2> QED BY <1>1, <1>2, <2>1, <2>2 DEF AccessInv, ReadsAgree
<1> QED BY <1>1, <1>3, <1>4, <1>5, <1>6, <1>7 DEF AccessInv

(* A handler's answer changes nothing that the guard has read.             *)
LEMMA AnswerStep ==
    ASSUME AccessInv, NEW q \in DOMAIN guarded, NEW by \in {"board", "client", "tenant"},
           NEW asked \in SUBSET Relationships, NEW given \in SUBSET Relationships,
           Answer(q, by, asked, given),
           by = "board" => given = {r \in asked : CanSeeRelationship(guarded[q], r)},
           by = "client" => given = IF IsClient(guarded[q].role) THEN asked ELSE {}
    PROVE  AccessInv'
<1> DEFINE answer == [by |-> by, asked |-> asked, given |-> given]
           next == [guarded[q] EXCEPT !.answer = answer]
<1>1. /\ guarded[q] \in Requests /\ answer \in Answers /\ guarded[q].pc = "admitted"
      /\ guarded' = [guarded EXCEPT ![q] = next]
      /\ UNCHANGED <<users, creations, credentials, moment>>
      /\ answer.by = by /\ answer.asked = asked /\ answer.given = given
  BY RequestsAre DEF AccessInv, Answer, Guard, Answers
<1> HIDE DEF answer
<1>2. /\ next \in Requests /\ next.answer = answer
      /\ next.credential = guarded[q].credential /\ next.pc = guarded[q].pc
      /\ next.began = guarded[q].began /\ next.role = guarded[q].role
      /\ next.scopes = guarded[q].scopes
  BY <1>1 DEF Requests
<1> HIDE DEF next
<1>3. /\ AccessTypeOK' /\ DOMAIN guarded' = DOMAIN guarded /\ guarded'[q] = next
      /\ \A p \in DOMAIN guarded : p # q => guarded'[p] = guarded[p]
  BY <1>1, <1>2 DEF AccessInv, AccessTypeOK
<1>4. /\ \A p \in DOMAIN guarded :
            /\ guarded'[p].credential = guarded[p].credential /\ guarded'[p].pc = guarded[p].pc
            /\ guarded'[p].began = guarded[p].began /\ guarded'[p].role = guarded[p].role
            /\ guarded'[p].scopes = guarded[p].scopes
      /\ \A p \in DOMAIN guarded : Holder(p)' = Holder(p)
  BY <1>1, <1>2, <1>3 DEF Holder
<1>5. UsersKnown' /\ CreatedWithItsScopes' /\ GuardAgrees' /\ AdmittedWasLive'
  BY <1>1, <1>3, <1>4 DEF AccessInv, UsersKnown, CreatedWithItsScopes, GuardAgrees, AdmittedWasLive
<1>6. ReadsAgree'
  <2>1. /\ \A p \in DOMAIN guarded : (User(Holder(p).email))' = User(Holder(p).email)
        /\ \A p \in DOMAIN guarded : (ScopesFor(Holder(p).email))' = ScopesFor(Holder(p).email)
    BY <1>1, <1>4 DEF User, ScopesFor
  <2>2. \A p \in DOMAIN guarded : ScopesSince(p)' = ScopesSince(p)
    BY <1>4, <2>1 DEF ScopesSince
  <2> QED BY <1>3, <1>4, <2>1, <2>2 DEF AccessInv, ReadsAgree
<1>7. AnswersFollow'
  <2>1. ASSUME NEW p \in DOMAIN guarded, p # q
        PROVE  guarded'[p] = guarded[p]
    BY <1>3, <2>1
  <2>2. /\ guarded'[q].pc = "admitted" /\ guarded'[q].answer = answer
        /\ guarded'[q].role = guarded[q].role /\ guarded'[q].scopes = guarded[q].scopes
    BY <1>1, <1>2, <1>3
  <2> QED BY <1>1, <1>3, <2>1, <2>2 DEF AccessInv, AnswersFollow, CanSeeRelationship
<1> QED BY <1>3, <1>5, <1>6, <1>7 DEF AccessInv

LEMMA PresentStep ==
    ASSUME AccessInv, NEW n \in 0..Len(credentials), Present(n)
    PROVE  AccessInv'
<1> DEFINE new == [credential |-> n, pc |-> IF n = 0 THEN "refused" ELSE credentials[n].kind,
                   began |-> moment, role |-> "none", scopes |-> {}, answer |-> NoAnswer]
<1>1. new \in Requests /\ (n # 0 => n \in DOMAIN credentials /\ credentials[n] \in Credentials)
  <2>1. n # 0 => n \in DOMAIN credentials /\ credentials[n] \in Credentials
    BY RequestsAre DEF AccessInv, AccessTypeOK
  <2>2. n # 0 => credentials[n].kind \in {"session", "key"}
    BY <2>1 DEF Credentials
  <2>3. n \in Nat /\ moment \in Nat
    BY DEF AccessInv, AccessTypeOK
  <2> QED BY <2>1, <2>2, <2>3 DEF Requests, Answers, NoAnswer
<1>2. /\ AccessTypeOK' /\ DOMAIN guarded' = DOMAIN guarded \cup {Len(guarded) + 1}
      /\ guarded'[Len(guarded) + 1] = new
      /\ \A q \in DOMAIN guarded : guarded'[q] = guarded[q]
  BY <1>1 DEF AccessInv, AccessTypeOK, Present
<1>3. UNCHANGED <<users, creations, credentials, moment>>
  BY DEF Present
<1>4. UsersKnown' /\ CreatedWithItsScopes'
  BY <1>3 DEF AccessInv, UsersKnown, CreatedWithItsScopes
<1>5. new.pc \in {"refused", "session", "key"} /\ moment \in Nat
  BY <1>1 DEF Credentials, AccessInv, AccessTypeOK
<1>6. GuardAgrees'
  BY <1>1, <1>2, <1>3, <1>5 DEF AccessInv, GuardAgrees, Holder
<1>7. AdmittedWasLive'
  BY <1>2, <1>3, <1>5 DEF AccessInv, AdmittedWasLive, Holder
<1>8. AnswersFollow'
  <2>1. new.answer = NoAnswer /\ NoAnswer.by = "none"
    BY DEF NoAnswer
  <2> QED BY <1>2, <2>1 DEF AccessInv, AnswersFollow, CanSeeRelationship
<1>9. ReadsAgree'
  <2>1. \A q \in DOMAIN guarded : Holder(q)' = Holder(q)
    BY <1>2, <1>3 DEF Holder
  <2>2. /\ \A q \in DOMAIN guarded : (User(Holder(q).email))' = User(Holder(q).email)
        /\ \A q \in DOMAIN guarded : (ScopesFor(Holder(q).email))' = ScopesFor(Holder(q).email)
    BY <1>3, <2>1 DEF User, ScopesFor
  <2>3. \A q \in DOMAIN guarded : ScopesSince(q)' = ScopesSince(q)
    BY <1>2, <2>2 DEF ScopesSince
  <2>4. new.pc \notin {"scopes", "admitted"}
    BY <1>5
  <2> QED BY <1>2, <2>1, <2>2, <2>3, <2>4 DEF AccessInv, ReadsAgree
<1> QED BY <1>2, <1>4, <1>6, <1>7, <1>8, <1>9 DEF AccessInv

LEMMA ResolveStep ==
    ASSUME AccessInv, NEW q \in DOMAIN guarded,
           ResolveKey(q) \/ ReadSession(q) \/ ReadUser(q) \/ ReadScopes(q)
    PROVE  AccessInv'
<1>1. /\ guarded[q] \in Requests /\ moment \in Nat
      /\ guarded[q].pc # "refused" => guarded[q].credential \in DOMAIN credentials
      /\ guarded[q].pc # "refused" => Holder(q) \in Credentials
      /\ guarded[q].pc # "admitted" => guarded[q].answer = NoAnswer
  BY DEF AccessInv, AccessTypeOK, GuardAgrees, AnswersFollow, Holder
<1>2. ASSUME Holder(q).kind = "session", guarded[q].pc # "refused"
      PROVE  /\ User(Holder(q).email).role \in Roles
             /\ ScopesFor(Holder(q).email) \subseteq Relationships
  <2>1. PICK u \in users : u.email = Holder(q).email
    BY <1>1, <1>2 DEF AccessInv, UsersKnown, Holder
  <2>2. User(Holder(q).email) = u
    BY <2>1, UserIs DEF AccessInv, UsersKnown, User
  <2> QED BY <2>1, <2>2 DEF AccessInv, AccessTypeOK, Users, Scopes, ScopesFor
<1> HIDE DEF AccessInv
<1>3. CASE ResolveKey(q)
  <2> DEFINE next == [guarded[q] EXCEPT
                        !.pc = IF Holder(q).revoked = Live THEN "admitted" ELSE "refused",
                        !.role = "client_admin"]
  <2>1. /\ next \in Requests /\ next.credential = guarded[q].credential
        /\ next.began = guarded[q].began /\ next.role = "client_admin"
        /\ next.answer = guarded[q].answer
        /\ next.pc = IF Holder(q).revoked = Live THEN "admitted" ELSE "refused"
    BY <1>1 DEF Requests, Roles
  <2>2. /\ guarded' = [guarded EXCEPT ![q] = next] /\ guarded[q].pc = "key"
        /\ UNCHANGED <<users, creations, credentials, moment>>
    BY <1>3 DEF ResolveKey, Guard
  <2>3. IsClient(next.role) /\ Holder(q).kind # "session"
    BY <1>3, <2>1 DEF IsClient, AccessInv, GuardAgrees, ResolveKey, Guard
  <2> HIDE DEF next
  <2> QED BY <1>1, <2>1, <2>2, <2>3, GuardStep
<1>4. CASE ReadSession(q)
  <2> DEFINE next == [guarded[q] EXCEPT
                        !.pc = IF Holder(q).revoked = Live THEN "user" ELSE "refused"]
  <2>1. /\ next \in Requests /\ next.credential = guarded[q].credential
        /\ next.began = guarded[q].began /\ next.answer = guarded[q].answer
        /\ next.pc = IF Holder(q).revoked = Live THEN "user" ELSE "refused"
    BY <1>1 DEF Requests
  <2>2. Holder(q).kind = "session"
    BY <1>4 DEF AccessInv, GuardAgrees, ReadSession, Guard
  <2>3. /\ guarded' = [guarded EXCEPT ![q] = next] /\ guarded[q].pc = "session"
        /\ UNCHANGED <<users, creations, credentials, moment>>
    BY <1>4 DEF ReadSession, Guard
  <2> HIDE DEF next
  <2> QED BY <1>1, <2>1, <2>2, <2>3, GuardStep
<1>5. CASE ReadUser(q)
  <2> DEFINE next == [guarded[q] EXCEPT !.pc = "scopes", !.role = User(Holder(q).email).role]
  <2>1. /\ Holder(q).kind = "session" /\ guarded[q].pc = "user"
        /\ Holder(q).revoked = Live \/ Holder(q).revoked > guarded[q].began
    BY <1>5 DEF AccessInv, GuardAgrees, ReadUser, Guard
  <2>2. /\ next \in Requests /\ next.credential = guarded[q].credential
        /\ next.began = guarded[q].began /\ next.pc = "scopes"
        /\ next.answer = guarded[q].answer /\ next.role = User(Holder(q).email).role
    BY <1>1, <1>2, <2>1 DEF Requests
  <2> QED BY <1>1, <1>5, <2>1, <2>2, GuardStep DEF ReadUser, Guard
<1>6. CASE ReadScopes(q)
  <2> DEFINE next == [guarded[q] EXCEPT !.pc = "admitted", !.scopes = ScopesFor(Holder(q).email)]
  <2>1. /\ Holder(q).kind = "session" /\ guarded[q].pc = "scopes"
        /\ Holder(q).revoked = Live \/ Holder(q).revoked > guarded[q].began
        /\ guarded[q].role = User(Holder(q).email).role
    BY <1>6 DEF AccessInv, GuardAgrees, ReadsAgree, ReadScopes, Guard
  <2>2. /\ next \in Requests /\ next.credential = guarded[q].credential
        /\ next.began = guarded[q].began /\ next.pc = "admitted"
        /\ next.scopes = ScopesFor(Holder(q).email)
        /\ next.answer = guarded[q].answer /\ next.role = guarded[q].role
    BY <1>1, <1>2, <2>1 DEF Requests
  <2> QED BY <1>1, <1>6, <2>1, <2>2, GuardStep DEF ReadScopes, Guard
<1> QED BY <1>3, <1>4, <1>5, <1>6

-------------------------------------------------------------------------------
(* The inductive invariant of the guard and of user administration.        *)
THEOREM AccessInvHolds == AccessSpec => []AccessInv
<1>1. AccessInit => AccessInv
  BY DEF AccessInit, AccessInv, AccessTypeOK, UsersKnown, GuardAgrees, AdmittedWasLive,
         ReadsAgree, AnswersFollow, CreatedWithItsScopes
<1>2. ASSUME AccessInv, [AccessNext]_accessVars
      PROVE  AccessInv'
  <2>1. CASE \E account \in Accounts : CreateUser(account)
    BY <1>2, <2>1, CreateUserStep
  <2>2. CASE \E c \in creations : CreateScope(c) \/ CutCreation(c) \/ EndCreation(c)
    BY <1>2, <2>2, CreateScopeStep, CutCreationStep, EndCreationStep
  <2>3. CASE \E u \in users : Login(u)
    <3>1. PICK u \in users : Login(u)
      BY <2>3
    <3>2. [kind |-> "session", email |-> u.email, revoked |-> Live] \in Credentials
      BY <1>2 DEF AccessInv, AccessTypeOK, Users, Credentials, Live
    <3> QED BY <1>2, <3>1, <3>2, IssuedStep DEF Login
  <2>4. CASE \E u \in users : \E relationship \in Relationships : AddScope(u, relationship)
    BY <1>2, <2>4, AddScopeStep
  <2>5. CASE IssueKey
    <3>1. [kind |-> "key", email |-> "none", revoked |-> Live] \in Credentials
      BY DEF Credentials, Live
    <3> QED BY <1>2, <2>5, <3>1, IssuedStep DEF IssueKey
  <2>6. CASE \E n \in DOMAIN credentials : Revoke(n)
    BY <1>2, <2>6, RevokeStep
  <2>7. CASE \E n \in 0..Len(credentials) : Present(n)
    BY <1>2, <2>7, PresentStep
  <2>8. CASE \E q \in DOMAIN guarded :
                ResolveKey(q) \/ ReadSession(q) \/ ReadUser(q) \/ ReadScopes(q)
    BY <1>2, <2>8, ResolveStep
  <2>9. ASSUME NEW q \in DOMAIN guarded, ListSessions(q) \/ ListByTenant(q)
         PROVE  AccessInv'
    BY <1>2, <2>9, AnswerStep DEF ListSessions, ListByTenant
  <2>10. ASSUME NEW q \in DOMAIN guarded, NEW relationship \in Relationships,
                AccessSession(q, relationship) \/ AssertClient(q, relationship)
         PROVE  AccessInv'
    BY <1>2, <2>10, AnswerStep DEF AccessSession, AssertClient
  <2>11. CASE UNCHANGED accessVars
    <3>1. UsersGrow
      BY <1>2, <2>11 DEF UsersGrow, AccessInv, AccessTypeOK, UsersKnown, accessVars
    <3> QED BY <1>2, <2>11, <3>1, SeenStep
            DEF AccessInv, AccessTypeOK, CreatedWithItsScopes, accessVars
  <2> QED BY <1>2, <2>1, <2>2, <2>3, <2>4, <2>5, <2>6, <2>7, <2>8, <2>9, <2>10, <2>11
         DEF AccessNext
<1> QED BY <1>1, <1>2, PTL DEF AccessSpec

(* No request is admitted on a credential that was revoked when it came.   *)
THEOREM AdmittedRequestsWereLive == AccessSpec => []AdmittedWasLive
BY AccessInvHolds, PTL DEF AccessInv

(* The certification handlers give a partner what it was scoped to when its*)
(* request came and nothing it is not scoped to by now, a client all.      *)
THEOREM PartnersSeeTheirScopes == AccessSpec => []SeenIsScoped
<1>1. AccessInv => SeenIsScoped
  <2> SUFFICES ASSUME AccessInv, NEW q \in DOMAIN guarded,
                      guarded[q].answer.by \in {"board", "client"}
               PROVE  LET answer == guarded[q].answer
                      IN  /\ ClientAccount(q) => answer.given = answer.asked
                          /\ answer.by = "board" /\ ~ClientAccount(q) =>
                                /\ answer.asked \cap ScopesSince(q) \subseteq answer.given
                                /\ answer.given \subseteq ScopesFor(Holder(q).email)
                          /\ answer.by = "client" /\ ~ClientAccount(q) => answer.given = {}
    BY DEF SeenIsScoped, ScopesSince, ScopesFor
  <2>1. guarded[q].answer # NoAnswer
    BY DEF NoAnswer
  <2>2. /\ guarded[q].pc = "admitted" /\ guarded[q].credential \in DOMAIN credentials
        /\ Holder(q) \in Credentials
    BY <2>1, RequestsAre DEF AccessInv, AnswersFollow, GuardAgrees, Holder
  <2>3. Holder(q).kind \in {"session", "key"}
    BY <2>2 DEF Credentials
  <2>4. ClientAccount(q) <=> IsClient(guarded[q].role)
    BY <2>2, <2>3 DEF AccessInv, ReadsAgree, ClientAccount
  <2>5. ~ClientAccount(q) => /\ ScopesSince(q) \subseteq guarded[q].scopes
                             /\ guarded[q].scopes \subseteq ScopesFor(Holder(q).email)
    BY <2>2, <2>3 DEF AccessInv, ReadsAgree, ClientAccount
  <2> QED BY <2>4, <2>5 DEF AccessInv, AnswersFollow, CanSeeRelationship
<1> QED BY <1>1, AccessInvHolds, PTL

(* A user has its scopes when its creation is over.                        *)
THEOREM CreationScopesUsers == AccessSpec => []CreatedWithItsScopes
BY AccessInvHolds, PTL DEF AccessInv

(* The three of them: admission and what the certification board gives     *)
(* agree with what was granted, for any number of requests whose reads     *)
(* interleave with every change.                                           *)
THEOREM OnlyTheEntitledSee == AccessSpec => []AccessIsEntitled
BY AdmittedRequestsWereLive, PartnersSeeTheirScopes, CreationScopesUsers, PTL DEF AccessIsEntitled
==================================================================================
