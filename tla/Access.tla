--------------------------------- MODULE Access ---------------------------------
(***************************************************************************)
(* Console users with their relationship scopes, their sessions, and the   *)
(* tenant's API keys.  A user is created by one insert and one more for    *)
(* each scope; the guard of a request reads session, user and scopes one   *)
(* await after another, and a handler answers by what was read, while users*)
(* log in and out, keys are revoked and scopes are added.                  *)
(***************************************************************************)
EXTENDS Integers, Sequences, FiniteSets, SequencesExt

CONSTANTS
    Accounts,       \* users that may be created: [email, role, scopes]
    Relationships,
    MaxLogins,      \* bounds
    MaxKeys,
    MaxRequests,
    MaxChanges      \* logouts, revocations and scopes added later

ASSUME AccessAssumption ==
    /\ \A a \in Accounts : /\ a.role \in {"client_admin", "client_ops", "partner"}
                            /\ a.scopes \in Seq(Relationships)
    /\ {MaxLogins, MaxKeys, MaxRequests, MaxChanges} \subseteq Nat

VARIABLES
    users,      \* rows of console_user, with the user's rows of scopes
    creations,  \* createUser handlers at their loop of scopes
    credentials,\* sessions and keys, in the order they were issued
    guarded,    \* requests the guard has seen
    moment      \* counts the changes to what the guard reads

accessVars == <<users, creations, credentials, guarded, moment>>

-------------------------------------------------------------------------------
AccessInit ==
    /\ users = {}
    /\ creations = {}
    /\ credentials = <<>>
    /\ guarded = <<>>
    /\ moment = 0

User(email) == CHOOSE u \in users : u.email = email
ScopesFor(email) == {s.id : s \in User(email).scopes}
Scoped(email, relationship) ==
    {[u EXCEPT !.scopes = IF u.email = email
                          THEN @ \cup {[id |-> relationship, since |-> moment + 1]} ELSE @] :
        u \in users}
IsClient(role) == role \in {"client_admin", "client_ops"}
Change == moment < MaxChanges /\ moment' = moment + 1

(* createUser: the row first; an email that is there is rejected by its    *)
(* unique index.                                                           *)
CreateUser(account) ==
    /\ \A u \in users : u.email # account.email
    /\ users' = users \cup {[email |-> account.email, role |-> account.role, scopes |-> {},
                             asked |-> ToSet(account.scopes), cut |-> FALSE]}
    /\ creations' = creations \cup {[email |-> account.email, rest |-> account.scopes]}
    /\ UNCHANGED <<credentials, guarded, moment>>

(* A fault of the loop: it ends after the first scope.                     *)
CreateFirstScope(c) ==
    /\ Change
    /\ c.rest # <<>>
    /\ users' = Scoped(c.email, Head(c.rest))
    /\ creations' = (creations \ {c}) \cup {[c EXCEPT !.rest = <<>>]}
    /\ UNCHANGED <<credentials, guarded>>

(* The next of its scopes; a request that stops leaves the rest out.       *)
CreateScope(c) ==
    /\ Change
    /\ c.rest # <<>>
    /\ users' = Scoped(c.email, Head(c.rest))
    /\ creations' = (creations \ {c}) \cup {[c EXCEPT !.rest = Tail(@)]}
    /\ UNCHANGED <<credentials, guarded>>

CutCreation(c) ==
    /\ c.rest # <<>>
    /\ creations' = creations \ {c}
    /\ users' = {[u EXCEPT !.cut = @ \/ u.email = c.email] : u \in users}
    /\ UNCHANGED <<credentials, guarded, moment>>

EndCreation(c) ==
    /\ c.rest = <<>>
    /\ creations' = creations \ {c}
    /\ UNCHANGED <<users, credentials, guarded, moment>>

AddScope(u, relationship) ==
    /\ Change
    /\ users' = Scoped(u.email, relationship)
    /\ UNCHANGED <<creations, credentials, guarded>>

-------------------------------------------------------------------------------
Issued(kind) == Cardinality({n \in DOMAIN credentials : credentials[n].kind = kind})
Live == -1

(* login with the password of a user that is there; issue.                 *)
Login(u) ==
    /\ Issued("session") < MaxLogins
    /\ credentials' = Append(credentials, [kind |-> "session", email |-> u.email,
                                           revoked |-> Live])
    /\ UNCHANGED <<users, creations, guarded, moment>>

IssueKey ==
    /\ Issued("key") < MaxKeys
    /\ credentials' = Append(credentials, [kind |-> "key", email |-> "none", revoked |-> Live])
    /\ UNCHANGED <<users, creations, guarded, moment>>

(* logout and revoke.                                                      *)
Revoke(n) ==
    /\ Change
    /\ credentials[n].revoked = Live
    /\ credentials' = [credentials EXCEPT ![n].revoked = moment + 1]
    /\ UNCHANGED <<users, creations, guarded>>

(* A request presents a credential; 0 is one that is unknown.  What it     *)
(* asked a handler for, and was given, comes later.                        *)
NoAnswer == [by |-> "none", asked |-> {}, given |-> {}]
Present(n) ==
    /\ Len(guarded) < MaxRequests
    /\ guarded' = Append(guarded,
          [credential |-> n, pc |-> IF n = 0 THEN "refused" ELSE credentials[n].kind,
           began |-> moment, role |-> "none", scopes |-> {}, answer |-> NoAnswer])
    /\ UNCHANGED <<users, creations, credentials, moment>>

Guard(q, pc, next) ==
    /\ guarded[q].pc = pc
    /\ guarded' = [guarded EXCEPT ![q] = next]
    /\ UNCHANGED <<users, creations, credentials, moment>>
Holder(q) == credentials[guarded[q].credential]

(* An API key is a machine that administers its tenant.                    *)
ResolveKey(q) ==
    Guard(q, "key", [guarded[q] EXCEPT
        !.pc = IF Holder(q).revoked = Live THEN "admitted" ELSE "refused",
        !.role = "client_admin"])

(* A fault of resolveSession: the session is not asked to be live.         *)
ReadSessionOfAny(q) == Guard(q, "session", [guarded[q] EXCEPT !.pc = "user"])

ReadSession(q) ==
    Guard(q, "session", [guarded[q] EXCEPT
        !.pc = IF Holder(q).revoked = Live THEN "user" ELSE "refused"])

ReadUser(q) ==
    Guard(q, "user", [guarded[q] EXCEPT !.pc = "scopes", !.role = User(Holder(q).email).role])

(* A fault of scopesFor: the scopes asked for at creation.                 *)
ReadScopesAsked(q) ==
    Guard(q, "scopes", [guarded[q] EXCEPT !.pc = "admitted",
                                          !.scopes = User(Holder(q).email).asked])

ReadScopes(q) ==
    Guard(q, "scopes", [guarded[q] EXCEPT !.pc = "admitted",
                                          !.scopes = ScopesFor(Holder(q).email)])

-------------------------------------------------------------------------------
(* Handlers decide by what the guard has read, one of them for a request.  *)
CanSeeRelationship(request, relationship) ==
    IsClient(request.role) \/ relationship \in request.scopes

Answer(q, by, asked, given) ==
    /\ guarded[q].answer = NoAnswer
    /\ Guard(q, "admitted", [guarded[q] EXCEPT
          !.answer = [by |-> by, asked |-> asked, given |-> given]])

(* A fault of the board: the list is not filtered.                         *)
ListSessionsOfTenant(q) == Answer(q, "board", Relationships, Relationships)

(* The certification board: its list keeps the sessions of relationships   *)
(* that may be seen, a handler of a session or card asks for its own.      *)
ListSessions(q) ==
    Answer(q, "board", Relationships,
           {r \in Relationships : CanSeeRelationship(guarded[q], r)})

AccessSession(q, relationship) ==
    Answer(q, "board", {relationship},
           {r \in {relationship} : CanSeeRelationship(guarded[q], r)})

(* Opening, certifying, waiving and references are for clients.            *)
AssertClient(q, relationship) ==
    Answer(q, "client", {relationship},
           IF IsClient(guarded[q].role) THEN {relationship} ELSE {})

(* Relationships, documents and review items are listed by tenant: neither *)
(* role nor scopes are asked for.                                          *)
ListByTenant(q) == Answer(q, "tenant", Relationships, Relationships)

AccessNext ==
    \/ \E account \in Accounts : CreateUser(account)
    \/ \E c \in creations : CreateScope(c) \/ CutCreation(c) \/ EndCreation(c)
    \/ \E u \in users : Login(u) \/ \E relationship \in Relationships : AddScope(u, relationship)
    \/ IssueKey
    \/ \E n \in DOMAIN credentials : Revoke(n)
    \/ \E n \in 0..Len(credentials) : Present(n)
    \/ \E q \in DOMAIN guarded :
          \/ ResolveKey(q) \/ ReadSession(q) \/ ReadUser(q) \/ ReadScopes(q)
          \/ ListSessions(q) \/ ListByTenant(q)
          \/ \E relationship \in Relationships :
                AccessSession(q, relationship) \/ AssertClient(q, relationship)

AccessSpec == AccessInit /\ [][AccessNext]_accessVars

-------------------------------------------------------------------------------
(* An admitted request presented what was live when the request came, or   *)
(* was issued since, however sign-outs interleave with the guard's reads.  *)
AdmittedWasLive ==
    \A q \in DOMAIN guarded : guarded[q].pc = "admitted" =>
        Holder(q).revoked = Live \/ Holder(q).revoked > guarded[q].began

(* The certification handlers, which decide by what the guard read some    *)
(* awaits before, give a partner what it was scoped to when its request    *)
(* came and nothing it is not scoped to by now, not even the user of a     *)
(* creation that was cut off or is under way; they give a client all it    *)
(* asks for, and a partner nothing that is a client's.  Nothing is said of *)
(* the lists by tenant, which give a partner everything.                   *)
ClientAccount(q) == Holder(q).kind = "key" \/ IsClient(User(Holder(q).email).role)
SeenIsScoped ==
    \A q \in DOMAIN guarded :
        LET answer == guarded[q].answer
            scopes == User(Holder(q).email).scopes
            since == {s.id : s \in {t \in scopes : t.since <= guarded[q].began}}
        IN  /\ answer.by \in {"board", "client"} /\ ClientAccount(q) =>
                  answer.given = answer.asked
            /\ answer.by = "board" /\ ~ClientAccount(q) =>
                  /\ answer.asked \cap since \subseteq answer.given
                  /\ answer.given \subseteq {s.id : s \in scopes}
            /\ answer.by = "client" /\ ~ClientAccount(q) => answer.given = {}

(* A user has each scope it was created with once its creation is over,    *)
(* unless it was cut off.                                                  *)
CreatedWithItsScopes ==
    \A u \in users :
        \/ u.asked \subseteq {s.id : s \in u.scopes}
        \/ u.cut
        \/ \E c \in creations : /\ c.email = u.email
                                /\ u.asked \subseteq {s.id : s \in u.scopes} \cup ToSet(c.rest)

(* Only who is entitled is admitted, the certification board gives it what *)
(* it is entitled to, and a user has its scopes once it is created.        *)
AccessIsEntitled == AdmittedWasLive /\ SeenIsScoped /\ CreatedWithItsScopes
==================================================================================
