----------------------------- MODULE Certification -----------------------------
(***************************************************************************)
(* Onboarding of one relationship on the certification board: a session    *)
(* with a card per configured document, test files dropped on the cards    *)
(* and judged, the authoritative side's reference samples, the thread, the *)
(* activity feed and the certify gate.  Requests of client and partner     *)
(* interleave at every awaited statement.  Only recordTestFile is a        *)
(* database transaction (READ COMMITTED: its reads take no lock, its       *)
(* UPDATE holds the card's row until the commit).                          *)
(***************************************************************************)
EXTENDS Naturals, Sequences, FiniteSets, FiniteSetsExt

CONSTANTS
    Handlers,     \* requests served, one handler each
    NoHandler,
    Roles,        \* role of each configured document, in order: its card's
    Uploads,      \* test files that may be dropped
    Conformant,   \* those that satisfy the document's specification
    Samples,      \* reference samples that may be attached
    NoSample,
    Answers,      \* the samples each upload correlates to
    MaxStops      \* bound: handlers that stop before they end

ASSUME RolesAssumption == Roles \in Seq({"anchor", "response", "standalone"})
ASSUME UploadsAssumption ==
    /\ Conformant \subseteq Uploads
    /\ Answers \in [Uploads -> SUBSET Samples]
ASSUME NobodyAssumption == NoHandler \notin Handlers /\ NoSample \notin Samples
ASSUME MaxStopsAssumption == MaxStops \in Nat

VARIABLES
    session,    \* certification_session: its status, "none" before the insert
    board,      \* certification_doc: the card of each document
    attempts,   \* certification_test_file
    thread,     \* certification_message: the handlers whose message is stored
    feed,       \* certification_event
    retained,   \* raw_artifact: bytes of uploads and samples
    locked,     \* the open transaction that has written each card's row
    job,        \* where each handler is, and its locals
    stopped     \* handlers that crashed or whose statement was rejected

certVars == <<session, board, attempts, thread, feed, retained, locked, job, stopped>>

-------------------------------------------------------------------------------
Cards == DOMAIN Roles
Blocking == {c \in Cards : Roles[c] = "response"}

NoCard == [status |-> "absent", count |-> 0, reference |-> NoSample]
NoJob == [pc |-> "idle", does |-> "nothing", card |-> 0, upload |-> NoSample,
          verdict |-> "none", count |-> 0, seq |-> 0, docs |-> {}]

Init ==
    /\ session = "none"
    /\ board = [c \in Cards |-> NoCard]
    /\ attempts = {}
    /\ thread = {}
    /\ feed = {}
    /\ retained = {}
    /\ locked = [c \in Cards |-> NoHandler]
    /\ job = [h \in Handlers |-> NoJob]
    /\ stopped = {}

Running(h) == h \notin stopped
At(h, pc) == Running(h) /\ job[h].pc = pc
OnBoard == {c \in Cards : board[c].status # "absent"}

(* A fault of the gate: an attempt of any verdict will do.                 *)
IsDocSatisfiedByAnyAttempt(status) == status \in {"passed", "issues", "waived"}

(* isDocSatisfied, and canCertify over the cards one listDocs returns.     *)
IsDocSatisfied(status) == status \in {"passed", "waived"}
CanCertify == \A c \in OnBoard \cap Blocking : IsDocSatisfied(board[c].status)

(* A fault of the feed: entries are counted, and two may share a number.   *)
NextSeqByCount == Cardinality(feed) + 1

(* logEventTx reads max(seq) in a statement of its own.                    *)
Seqs == {e.seq : e \in feed}
NextSeq == Max(Seqs \cup {0}) + 1

Verb(does) ==
    CASE does = "open"      -> "session_created"
      [] does = "drop"      -> "file_validated"
      [] does = "reference" -> "reference_set"
      [] does = "message"   -> "message_sent"
      [] does = "certify"   -> "certified"

Entry(h) == [seq |-> job[h].seq, of |-> h, verb |-> Verb(job[h].does),
             card |-> job[h].card, detail |-> job[h].verdict]

-------------------------------------------------------------------------------
(* openSession: the session's row, its event, then a card per document,    *)
(* each an INSERT of its own, visible to everybody at once.                *)
OpenSession(h) ==
    /\ At(h, "idle")
    /\ session = "none"
    /\ session' = "draft"
    /\ job' = [job EXCEPT ![h].pc = "readSeq", ![h].does = "open"]
    /\ UNCHANGED <<board, attempts, thread, feed, retained, locked, stopped>>

AddDoc(h) ==
    LET c == Cardinality(OnBoard) + 1
    IN  /\ At(h, "addDoc")
        /\ IF c \in Cards
           THEN /\ board' = [board EXCEPT ![c].status = "awaiting"]
                /\ UNCHANGED job
           ELSE /\ job' = [job EXCEPT ![h].pc = "done"]
                /\ UNCHANGED board
        /\ UNCHANGED <<session, attempts, thread, feed, retained, locked, stopped>>

(* dropFile: card and session are there; the bytes are retained before     *)
(* they are parsed.                                                        *)
DropFile(h, c, u) ==
    /\ At(h, "idle")
    /\ c \in OnBoard
    /\ retained' = retained \cup {u}
    /\ job' = [job EXCEPT ![h].pc = "judge", ![h].does = "drop",
                          ![h].card = c, ![h].upload = u]
    /\ UNCHANGED <<session, board, attempts, thread, feed, locked, stopped>>

(* resolveAnchorOrder: the sample on an anchor card, if there is one.      *)
AnchorSamples ==
    LET found == {board[a].reference : a \in {c \in OnBoard : Roles[c] = "anchor"}}
    IN  IF found = {} THEN {NoSample} ELSE found

(* A fault of the verdict: a mismatch is a warning only.                   *)
VerdictWithWarnings(u, c, sample) ==
    CASE u \notin Conformant -> "issues"
      [] u \in Conformant /\ c \in Blocking /\ sample # NoSample
           /\ sample \notin Answers[u] -> "warning"
      [] OTHER -> "passed"

(* Conformance always counts; correlation counts for a response when an    *)
(* order is there to correlate to.                                         *)
VerdictOn(u, c, sample) ==
    IF /\ u \in Conformant
       /\ c \in Blocking /\ sample # NoSample => sample \in Answers[u]
    THEN "passed" ELSE "issues"

Judge(h) ==
    /\ At(h, "judge")
    /\ \E sample \in AnchorSamples :
          job' = [job EXCEPT ![h].pc = "readCard",
                      ![h].verdict = VerdictOn(job[h].upload, job[h].card, sample)]
    /\ UNCHANGED <<session, board, attempts, thread, feed, retained, locked, stopped>>

(* recordTestFile's transaction: the card is read without a lock and the   *)
(* attempt numbered from what is read.  The inserted file and issues are   *)
(* invisible to others until the commit.                                   *)
ReadCard(h) ==
    /\ At(h, "readCard")
    /\ job' = [job EXCEPT ![h].pc = "updateCard", ![h].count = board[job[h].card].count]
    /\ UNCHANGED <<session, board, attempts, thread, feed, retained, locked, stopped>>

(* A fault of the transaction: the card is updated outside it.             *)
UpdateCardOutside(h) ==
    /\ At(h, "updateCard")
    /\ locked[job[h].card] = NoHandler
    /\ board' = [board EXCEPT ![job[h].card].status = job[h].verdict,
                              ![job[h].card].count = job[h].count + 1]
    /\ locked' = [locked EXCEPT ![job[h].card] = h]
    /\ job' = [job EXCEPT ![h].pc = "readSeq"]
    /\ UNCHANGED <<session, attempts, thread, feed, retained, stopped>>

(* The UPDATE of the card waits for whoever has written the row.           *)
UpdateCard(h) ==
    /\ At(h, "updateCard")
    /\ locked[job[h].card] = NoHandler
    /\ locked' = [locked EXCEPT ![job[h].card] = h]
    /\ job' = [job EXCEPT ![h].pc = "readSeq"]
    /\ UNCHANGED <<session, board, attempts, thread, feed, retained, stopped>>

ReadSeq(h) ==
    /\ At(h, "readSeq")
    /\ job' = [job EXCEPT ![h].pc = "logEvent", ![h].seq = NextSeq]
    /\ UNCHANGED <<session, board, attempts, thread, feed, retained, locked, stopped>>

(* The commit: file, card and event appear together.                       *)
CommitAttempt(h) ==
    LET c == job[h].card
    IN  /\ At(h, "logEvent")
        /\ job[h].does = "drop"
        /\ attempts' = attempts \cup {[card |-> c, of |-> h, no |-> job[h].count + 1,
                                       upload |-> job[h].upload,
                                       verdict |-> job[h].verdict]}
        /\ board' = [board EXCEPT ![c].status = job[h].verdict,
                                  ![c].count = job[h].count + 1]
        /\ feed' = feed \cup {Entry(h)}
        /\ locked' = [locked EXCEPT ![c] = NoHandler]
        /\ job' = [job EXCEPT ![h].pc = "done"]
        /\ UNCHANGED <<session, thread, retained, stopped>>

(* logEvent outside a transaction: the INSERT after the read of max(seq).  *)
LogEvent(h) ==
    /\ At(h, "logEvent")
    /\ job[h].does # "drop"
    /\ feed' = feed \cup {Entry(h)}
    /\ job' = [job EXCEPT ![h].pc = IF job[h].does = "open" THEN "addDoc" ELSE "done"]
    /\ UNCHANGED <<session, board, attempts, thread, retained, locked, stopped>>

(* waive: an operator's single UPDATE of the card.                         *)
Waive(h, c) ==
    /\ At(h, "idle")
    /\ c \in OnBoard
    /\ locked[c] = NoHandler
    /\ board' = [board EXCEPT ![c].status = "waived"]
    /\ job' = [job EXCEPT ![h].pc = "done", ![h].does = "waive", ![h].card = c]
    /\ UNCHANGED <<session, attempts, thread, feed, retained, locked, stopped>>

(* setReference, and generateReference which ends in it: the bytes are     *)
(* retained, then attached, then announced.                                *)
SetReference(h, c, sample) ==
    /\ At(h, "idle")
    /\ c \in OnBoard
    /\ retained' = retained \cup {sample}
    /\ job' = [job EXCEPT ![h].pc = "attach", ![h].does = "reference",
                          ![h].card = c, ![h].upload = sample]
    /\ UNCHANGED <<session, board, attempts, thread, feed, locked, stopped>>

AttachReference(h) ==
    /\ At(h, "attach")
    /\ locked[job[h].card] = NoHandler
    /\ board' = [board EXCEPT ![job[h].card].reference = job[h].upload]
    /\ job' = [job EXCEPT ![h].pc = "readSeq"]
    /\ UNCHANGED <<session, attempts, thread, feed, retained, locked, stopped>>

AddMessage(h) ==
    /\ At(h, "idle")
    /\ session # "none"
    /\ thread' = thread \cup {h}
    /\ job' = [job EXCEPT ![h].pc = "readSeq", ![h].does = "message"]
    /\ UNCHANGED <<session, board, attempts, feed, retained, locked, stopped>>

(* certify: the service asks canCertify, the repository asks again, and    *)
(* the session is updated in a third statement.  A refusal changes nothing.*)
Certify(h) ==
    /\ At(h, "idle")
    /\ session # "none"
    /\ CanCertify
    /\ job' = [job EXCEPT ![h].pc = "gate", ![h].does = "certify"]
    /\ UNCHANGED <<session, board, attempts, thread, feed, retained, locked, stopped>>

Gate(h) ==
    /\ At(h, "gate")
    /\ job' = [job EXCEPT ![h].pc = IF CanCertify THEN "certify" ELSE "done",
                          ![h].docs = OnBoard]
    /\ UNCHANGED <<session, board, attempts, thread, feed, retained, locked, stopped>>

(* A fault of certify: the event is logged, the session not updated.       *)
UpdateSessionLater(h) ==
    /\ At(h, "certify")
    /\ job' = [job EXCEPT ![h].pc = "readSeq"]
    /\ UNCHANGED <<session, board, attempts, thread, feed, retained, locked, stopped>>

UpdateSession(h) ==
    /\ At(h, "certify")
    /\ session' = "certified"
    /\ job' = [job EXCEPT ![h].pc = "readSeq"]
    /\ UNCHANGED <<board, attempts, thread, feed, retained, locked, stopped>>

-------------------------------------------------------------------------------
Ended(h) == h \in stopped \/ job[h].pc = "done"

(* A fault of the transaction: a failed request leaves its lock behind.    *)
StopKeepingLock(h) ==
    /\ ~Ended(h)
    /\ Cardinality(stopped) < MaxStops
    /\ stopped' = stopped \cup {h}
    /\ UNCHANGED <<session, board, attempts, thread, feed, retained, locked, job>>

(* The process dies or a call is rejected: an open transaction rolls back, *)
(* what was written outside one stays.                                     *)
Stop(h) ==
    /\ ~Ended(h)
    /\ Cardinality(stopped) < MaxStops
    /\ stopped' = stopped \cup {h}
    /\ locked' = [c \in Cards |-> IF locked[c] = h THEN NoHandler ELSE locked[c]]
    /\ UNCHANGED <<session, board, attempts, thread, feed, retained, job>>

Request(h) ==
    \/ OpenSession(h)
    \/ \E c \in Cards, u \in Uploads : DropFile(h, c, u)
    \/ \E c \in Cards : Waive(h, c)
    \/ \E c \in Cards, s \in Samples : SetReference(h, c, s)
    \/ AddMessage(h)
    \/ Certify(h)

Serve(h) ==
    \/ AddDoc(h)
    \/ Judge(h)
    \/ ReadCard(h)
    \/ UpdateCard(h)
    \/ ReadSeq(h)
    \/ CommitAttempt(h)
    \/ LogEvent(h)
    \/ AttachReference(h)
    \/ Gate(h)
    \/ UpdateSession(h)

Next == \E h \in Handlers : Request(h) \/ Serve(h) \/ Stop(h)

Spec == Init /\ [][Next]_certVars

-------------------------------------------------------------------------------
Pcs == {"idle", "addDoc", "judge", "readCard", "updateCard", "readSeq",
        "logEvent", "attach", "gate", "certify", "done"}
Requests == {"nothing", "open", "drop", "waive", "reference", "message", "certify"}
FileVerdicts == {"passed", "issues"}

Card == [status : {"absent", "awaiting", "waived"} \cup FileVerdicts,
         count : Nat, reference : Samples \cup {NoSample}]
Attempt == [card : Cards, of : Handlers, no : Nat \ {0}, upload : Uploads,
            verdict : FileVerdicts]
Event == [seq : Nat \ {0}, of : Handlers,
          verb : {Verb(d) : d \in Requests \ {"nothing", "waive"}},
          card : Cards \cup {0}, detail : FileVerdicts \cup {"none"}]
Job == [pc : Pcs, does : Requests, card : Cards \cup {0},
        upload : Uploads \cup Samples \cup {NoSample},
        verdict : FileVerdicts \cup {"none"}, count : Nat, seq : Nat,
        docs : SUBSET Cards]

(* Types of the board's state.                                             *)
CertificationTypeOK ==
    /\ session \in {"none", "draft", "certified"}
    /\ board \in [Cards -> Card]
    /\ attempts \subseteq Attempt
    /\ thread \subseteq Handlers
    /\ feed \subseteq Event
    /\ retained \subseteq Uploads \cup Samples
    /\ locked \in [Cards -> Handlers \cup {NoHandler}]
    /\ job \in [Handlers -> Job]
    /\ stopped \subseteq Handlers

AttemptsOn(c) == {f \in attempts : f.card = c}

(* What a card shows comes from one of its attempts, whole: its verdict is *)
(* that of an attempt with the number the card shows, whatever attempts    *)
(* raced, were rolled back or were overtaken by a waiver; a card that      *)
(* still awaits its first file has none.                                   *)
CardShowsAnAttempt ==
    \A c \in Cards :
        /\ board[c].status \in FileVerdicts =>
              \E f \in AttemptsOn(c) : f.no = board[c].count /\ f.verdict = board[c].status
        /\ board[c].status \in {"absent", "awaiting"} => AttemptsOn(c) = {}

(* A card's row is locked by an open attempt only, so no stopped request   *)
(* keeps anybody from the card.                                            *)
LocksMatchAttempts ==
    \A c \in Cards, h \in Handlers :
        locked[c] = h <=> /\ Running(h)
                          /\ job[h].does = "drop"
                          /\ job[h].card = c
                          /\ job[h].pc \in {"readSeq", "logEvent"}

(* Attempts of a card are numbered without a gap from one, the number the  *)
(* card shows is one of them, and feed entries are numbered without a gap  *)
(* too, although a number may be given twice and a card's may fall.        *)
Dense(numbers) == \A n \in numbers : 1..n \subseteq numbers
NumbersOn(c) == {f.no : f \in AttemptsOn(c)}
NumberedWithoutGaps ==
    /\ \A c \in Cards : Dense(NumbersOn(c)) /\ board[c].count \in NumbersOn(c) \cup {0}
    /\ Dense(Seqs)

(* The feed never runs ahead of what it reports: an entry's session,       *)
(* attempt, sample, message or certificate is on record by then.           *)
FeedTellsTheTruth ==
    \A e \in feed :
        /\ session # "none"
        /\ e.verb = "certified" => session = "certified"
        /\ e.verb = "message_sent" => e.of \in thread
        /\ e.verb = "reference_set" => board[e.card].reference \in retained
        /\ e.verb = "file_validated" =>
              \E f \in AttemptsOn(e.card) :
                  f.of = e.of /\ f.verdict = e.detail /\ f.upload \in retained

(* A certificate rests on evidence: of every blocking card that the gate   *)
(* found on the board there is a passed attempt on record, or an operator  *)
(* has waived it.                                                          *)
CertifiedOnEvidence ==
    \A h \in Handlers :
        job[h].does = "certify" /\ job[h].pc \in {"certify", "readSeq", "logEvent"} =>
            \A c \in job[h].docs \cap Blocking :
                \/ \E f \in AttemptsOn(c) : f.verdict = "passed" /\ f.upload \in Conformant
                \/ \E g \in Handlers : job[g].does = "waive" /\ job[g].card = c

(* The gate: "a session can't be certified while a blocking doc is         *)
(* unsatisfied" (certification.repository.ts:14), at the step that         *)
(* certifies it.                                                           *)
GateHolds ==
    [][session' = "certified" /\ session # "certified" => CanCertify]_session
===============================================================================
