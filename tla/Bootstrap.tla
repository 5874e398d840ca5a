-------------------------------- MODULE Bootstrap --------------------------------
(***************************************************************************)
(* createSchema on every start of a server.  Servers may start at once, on *)
(* one database, stop at any statement and start again from the first; IF  *)
(* NOT EXISTS looks first and creates then.                                *)
(***************************************************************************)
EXTENDS Schema, FiniteSetsExt

CONSTANTS
    Servers,
    MaxCrashes   \* bound: servers stopped while they start

ASSUME MaxCrashesAssumption == MaxCrashes \in Nat

VARIABLES
    made,     \* the statements whose table or index is there
    reached,  \* the statement each server is at
    boot,     \* how far each server is with it
    crashes

bootstrapVars == <<made, reached, boot, crashes>>

-------------------------------------------------------------------------------
BootstrapInit ==
    /\ made = {}
    /\ reached = [s \in Servers |-> 1]
    /\ boot = [s \in Servers |-> "looks"]
    /\ crashes = 0

(* The table a statement needs: the one it refers to or is an index of.    *)
Needed(statement) ==
    IF statement.kind = "table"
    THEN {statement.parent[n].name : n \in DOMAIN statement.parent}
    ELSE {statement.name}
TablesOf(S) == {Statements[n].name : n \in {m \in S : Statements[m].kind = "table"}}
TablesMade == TablesOf(made)

Passes(s) ==
    /\ reached' = [reached EXCEPT ![s] = @ + 1]
    /\ boot' = [boot EXCEPT ![s] = "looks"]

(* The start fails; the next one begins with the first statement.          *)
Fails(s) ==
    /\ reached' = [reached EXCEPT ![s] = 1]
    /\ boot' = [boot EXCEPT ![s] = "failed"]

(* A fault of the bootstrap: statements that do not await one another.     *)
LookAhead(s) ==
    LET missing == {n \in reached[s]..Len(Statements) : n \notin made}
    IN  /\ boot[s] = "looks"
        /\ IF missing = {}
           THEN boot' = [boot EXCEPT ![s] = "ready"] /\ UNCHANGED reached
           ELSE /\ boot' = [boot EXCEPT ![s] = "creates"]
                /\ \E n \in missing : reached' = [reached EXCEPT ![s] = n]
        /\ UNCHANGED <<made, crashes>>

(* The catalog is looked up, for one statement after another as long as    *)
(* what they create is there (what is there stays there, so the lookups    *)
(* between two others' steps are one step).                                *)
Look(s) ==
    LET missing == {n \in reached[s]..Len(Statements) : n \notin made}
    IN  /\ boot[s] = "looks"
        /\ IF missing = {}
           THEN boot' = [boot EXCEPT ![s] = "ready"] /\ UNCHANGED reached
           ELSE /\ boot' = [boot EXCEPT ![s] = "creates"]
                /\ reached' = [reached EXCEPT ![s] = Min(missing)]
        /\ UNCHANGED <<made, crashes>>

(* A fault of IF NOT EXISTS: the server is done with what another created. *)
CreateLeavingEarly(s) ==
    /\ boot[s] = "creates"
    /\ IF reached[s] \in made
       THEN boot' = [boot EXCEPT ![s] = "ready"] /\ UNCHANGED <<made, reached>>
       ELSE made' = made \cup {reached[s]} /\ Passes(s)
    /\ UNCHANGED crashes

(* What was not there is created; created meanwhile by another server, or  *)
(* without the table it needs, the statement is rejected and the start     *)
(* fails with it.                                                          *)
Create(s) ==
    /\ boot[s] = "creates"
    /\ IF reached[s] \in made \/ ~(Needed(Statements[reached[s]]) \subseteq TablesMade)
       THEN Fails(s) /\ UNCHANGED made
       ELSE made' = made \cup {reached[s]} /\ Passes(s)
    /\ UNCHANGED crashes

CrashAtBoot(s) ==
    /\ boot[s] \in {"looks", "creates"}
    /\ crashes < MaxCrashes
    /\ crashes' = crashes + 1
    /\ Fails(s)
    /\ UNCHANGED made

(* A server that failed or crashed is started again.                       *)
StartAgain(s) ==
    /\ boot[s] = "failed"
    /\ boot' = [boot EXCEPT ![s] = "looks"]
    /\ UNCHANGED <<made, reached, crashes>>

BootstrapNext ==
    \E s \in Servers : Look(s) \/ Create(s) \/ CrashAtBoot(s) \/ StartAgain(s)

BootstrapSpec == BootstrapInit /\ [][BootstrapNext]_bootstrapVars

-------------------------------------------------------------------------------
BootstrapTypeOK ==
    /\ made \subseteq DOMAIN Statements
    /\ \A s \in Servers :
          /\ reached[s] \in 1..(Len(Statements) + 1)
          /\ boot[s] \in {"looks", "creates", "ready", "failed"}
    /\ crashes \in 0..MaxCrashes

(* Nothing is there without all that comes before it.                      *)
MadeInOrder == made = 1..Cardinality(made)

(* A statement finds the table m it refers to and the columns it names.    *)
Columns(t) == t.key \cup t.required \cup t.optional
Finds(statement, m) ==
    IF statement.kind = "table"
    THEN Statements[m].key = {"id"}
    ELSE statement.columns \subseteq Columns(Statements[m])
NamesOwnColumns(statement) ==
    statement.kind = "table" =>
        \A p \in ToSet(statement.parent) : p.column \in Columns(statement)

(* What is made is made of what was made before: whatever stops the servers*)
(* and however they overlap, what is there is what the first statements    *)
(* create, each with the table and the columns it refers to.               *)
SchemaGrowsInOrder ==
    /\ MadeInOrder
    /\ \A n \in made :
          LET Made(name) == CHOOSE m \in made : Statements[m].kind = "table"
                                                /\ Statements[m].name = name
          IN  /\ Needed(Statements[n]) \subseteq TablesMade
              /\ NamesOwnColumns(Statements[n])
              /\ \A name \in Needed(Statements[n]) : Finds(Statements[n], Made(name))

(* The tables of some statements are those the repositories are compiled   *)
(* for: every one with the columns schema.ts types, those that may be null *)
(* and no others, and a key or unique index for every conflict an upsert   *)
(* names and every row that is looked up as the only one.                  *)
UniqueIn(S, k) ==
    \E n \in S :
        /\ Statements[n].name = k.name
        /\ \/ Statements[n].kind = "table" /\ Statements[n].key = k.columns
           \/ Statements[n].kind = "unique" /\ Statements[n].columns = k.columns
FitsRepositories(S) ==
    /\ DOMAIN RowTypes = TablesOf(S)
    /\ \A n \in S :
          LET t == Statements[n]
          IN  t.kind = "table" =>
                 /\ RowTypes[t.name].required = t.key \cup t.required
                 /\ RowTypes[t.name].optional = t.optional
    /\ \A k \in ConflictTargets \cup SingleRows : UniqueIn(S, k)

(* What the list of statements itself must be for that: no table is created*)
(* twice, what a statement refers to is created by one before it, and all  *)
(* of them together are what the repositories are compiled for.            *)
ASSUME StatementsAssumption ==
    /\ \A m, n \in DOMAIN Statements :
          /\ Statements[m].kind = "table" /\ Statements[n].kind = "table"
          /\ Statements[m].name = Statements[n].name
          => m = n
    /\ \A n \in DOMAIN Statements :
          /\ NamesOwnColumns(Statements[n])
          /\ \A name \in Needed(Statements[n]) : \E m \in 1..(n - 1) :
                /\ Statements[m].kind = "table" /\ Statements[m].name = name
                /\ Finds(Statements[n], m)
    /\ FitsRepositories(DOMAIN Statements)

(* A server that has started finds the database its repositories fit.      *)
ReadyServerFitsItsDatabase ==
    (\E s \in Servers : boot[s] = "ready") => FitsRepositories(made)

(* However servers start, overlap and stop: the schema grows in its order, *)
(* and it is whole, and fits the repositories, when one of them is ready.  *)
DatabaseFitsServers == SchemaGrowsInOrder /\ ReadyServerFitsItsDatabase
===============================================================================
