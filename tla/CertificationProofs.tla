-------------------------- MODULE CertificationProofs --------------------------
(***************************************************************************)
(* What the certification board guarantees for any number of requests,     *)
(* documents, uploads and samples, and any pattern of failures.            *)
(***************************************************************************)
EXTENDS Certification, TLAPS, FiniteSetTheorems

-------------------------------------------------------------------------------
(* The inductive invariant: what each kind of request has done by the time *)
(* it stands at a given statement.                                         *)
RequestsAgree ==
    \A h \in Handlers :
        /\ job[h].pc = "idle" <=> job[h].does = "nothing"
        /\ job[h].pc \in {"judge", "readCard", "updateCard"} => job[h].does = "drop"
        /\ job[h].pc = "addDoc" => job[h].does = "open"
        /\ job[h].pc = "attach" => job[h].does = "reference"
        /\ job[h].pc \in {"gate", "certify"} => job[h].does = "certify"
        /\ job[h].pc \in {"readSeq", "logEvent"} =>
              job[h].does \in Requests \ {"nothing", "waive"}
        /\ job[h].does # "nothing" => session # "none"

DropAgrees(h) ==
    job[h].does = "drop" =>
        /\ job[h].card \in OnBoard
        /\ job[h].upload \in Uploads \cap retained
        /\ job[h].pc \in {"readCard", "updateCard", "readSeq", "logEvent"} =>
              /\ job[h].verdict \in FileVerdicts
              /\ job[h].verdict = "passed" => job[h].upload \in Conformant
        /\ job[h].pc \in {"updateCard", "readSeq", "logEvent"} =>
              job[h].count \in NumbersOn(job[h].card) \cup {0}

OtherAgrees(h) ==
    /\ job[h].does = "reference" =>
          /\ job[h].card \in Cards
          /\ job[h].upload \in Samples \cap retained
          /\ job[h].pc \in {"readSeq", "logEvent"} =>
                board[job[h].card].reference \in retained
    /\ job[h].does = "message" => h \in thread
    /\ job[h].does = "certify" /\ job[h].pc \in {"readSeq", "logEvent"} =>
          session = "certified"
    /\ job[h].pc = "logEvent" =>
          job[h].seq # 0 /\ 1..(job[h].seq - 1) \subseteq Seqs

DropsAgree == \A h \in Handlers : DropAgrees(h)
OthersAgree == \A h \in Handlers : OtherAgrees(h)

BoardAgrees ==
    /\ \E k \in 0..Len(Roles) : OnBoard = 1..k
    /\ session = "none" => OnBoard = {}
    /\ \A c \in Cards : board[c].status = "waived" =>
          \E g \in Handlers : job[g].does = "waive" /\ job[g].card = c
    /\ \A f \in attempts : /\ f.upload \in retained
                           /\ f.verdict = "passed" => f.upload \in Conformant

(* The feed's numbers have an end, so that max(seq) is defined.            *)
FeedEnds == \E n \in Nat : Seqs = 1..n

(* An entry about a sample names the sample's card.                        *)
SamplesNamed == \A e \in feed : e.verb = "reference_set" => e.card \in Cards

CertificationInv ==
    /\ CertificationTypeOK
    /\ RequestsAgree
    /\ DropsAgree
    /\ OthersAgree
    /\ BoardAgrees
    /\ FeedEnds
    /\ SamplesNamed
    /\ CardShowsAnAttempt
    /\ LocksMatchAttempts
    /\ NumberedWithoutGaps
    /\ FeedTellsTheTruth
    /\ CertifiedOnEvidence

-------------------------------------------------------------------------------
LEMMA RolesType == /\ Len(Roles) \in Nat
                   /\ Cards = 1..Len(Roles)
BY RolesAssumption DEF Cards

(* max(seq) + 1 is one more than the number of the last entry.             *)
LEMMA NextSeqIs ==
    ASSUME NEW n \in Nat, Seqs = 1..n
    PROVE  NextSeq = n + 1
<1>1. Seqs \cup {0} = 0..n
  OBVIOUS
<1>2. Max(0..n) = n
  BY DEF Max
<1> QED BY <1>1, <1>2 DEF NextSeq

(* The next card is one that is not on the board.                          *)
LEMMA NextCardIsAbsent ==
    ASSUME BoardAgrees, Cardinality(OnBoard) + 1 \in Cards
    PROVE  Cardinality(OnBoard) + 1 \notin OnBoard
<1>1. PICK k \in 0..Len(Roles) : OnBoard = 1..k
  BY DEF BoardAgrees
<1>2. k \in Nat /\ Cardinality(1..k) = k
  BY <1>1, RolesType, FS_Interval
<1> QED BY <1>1, <1>2

-------------------------------------------------------------------------------
LEMMA TypeStep ==
    CertificationTypeOK /\ RequestsAgree /\ DropsAgree /\ OthersAgree /\ FeedEnds
        /\ [Next]_certVars => CertificationTypeOK'
<1> SUFFICES ASSUME CertificationTypeOK, RequestsAgree, DropsAgree, OthersAgree,
                    FeedEnds, [Next]_certVars
             PROVE  CertificationTypeOK'
  OBVIOUS
<1> USE DEF CertificationTypeOK
<1>1. ASSUME NEW h \in Handlers, OpenSession(h) \/ AddMessage(h) \/ Certify(h)
      PROVE  CertificationTypeOK'
  <2>1. job' \in [Handlers -> Job]
    BY <1>1 DEF OpenSession, AddMessage, Certify, Job, Pcs, Requests
  <2> QED BY <1>1, <2>1 DEF OpenSession, AddMessage, Certify
<1>2. ASSUME NEW h \in Handlers, NEW c \in Cards,
             \/ \E u \in Uploads : DropFile(h, c, u)
             \/ \E s \in Samples : SetReference(h, c, s)
      PROVE  CertificationTypeOK'
  <2>1. job' \in [Handlers -> Job]
    BY <1>2 DEF DropFile, SetReference, Job, Pcs, Requests
  <2> QED BY <1>2, <2>1 DEF DropFile, SetReference
<1>3. ASSUME NEW h \in Handlers, NEW c \in Cards, Waive(h, c)
      PROVE  CertificationTypeOK'
  <2>1. job' \in [Handlers -> Job]
    <3>1. job' = [job EXCEPT ![h] = [job[h] EXCEPT !.pc = "done", !.does = "waive",
                                                   !.card = c]]
      BY <1>3 DEF Waive
    <3>2. [job[h] EXCEPT !.pc = "done", !.does = "waive", !.card = c] \in Job
      BY DEF Job, Pcs, Requests
    <3> QED BY <3>1, <3>2
  <2>2. board' \in [Cards -> Card]
    BY <1>3 DEF Waive, Card
  <2> QED BY <1>3, <2>1, <2>2 DEF Waive
<1>4. ASSUME NEW h \in Handlers, AddDoc(h)
      PROVE  CertificationTypeOK'
  <2>1. job' \in [Handlers -> Job]
    BY <1>4 DEF AddDoc, Job, Pcs
  <2>2. board' \in [Cards -> Card]
    BY <1>4 DEF AddDoc, Card
  <2> QED BY <1>4, <2>1, <2>2 DEF AddDoc
<1>5. ASSUME NEW h \in Handlers, Judge(h)
      PROVE  CertificationTypeOK'
  <2>1. PICK sample \in AnchorSamples :
           job' = [job EXCEPT ![h].pc = "readCard",
                       ![h].verdict = VerdictOn(job[h].upload, job[h].card, sample)]
    BY <1>5 DEF Judge
  <2>2. VerdictOn(job[h].upload, job[h].card, sample) \in FileVerdicts
    BY DEF VerdictOn, FileVerdicts
  <2>3. PICK v \in FileVerdicts :
           job' = [job EXCEPT ![h] = [job[h] EXCEPT !.pc = "readCard", !.verdict = v]]
    BY <2>1, <2>2
  <2>4. [job[h] EXCEPT !.pc = "readCard", !.verdict = v] \in Job
    BY DEF Job, Pcs
  <2>5. job' \in [Handlers -> Job]
    BY <2>3, <2>4
  <2> QED BY <1>5, <2>5 DEF Judge
<1>6. ASSUME NEW h \in Handlers, ReadCard(h) \/ UpdateCard(h)
      PROVE  CertificationTypeOK'
  <2>1. job[h].card \in Cards
    BY <1>6 DEF ReadCard, UpdateCard, At, RequestsAgree, DropsAgree, DropAgrees, OnBoard
  <2>2. board[job[h].card].count \in Nat
    BY <2>1 DEF Card
  <2>3. job' \in [Handlers -> Job]
    BY <1>6, <2>2 DEF ReadCard, UpdateCard, Job, Pcs
  <2> QED BY <1>6, <2>1, <2>3 DEF ReadCard, UpdateCard
<1>7. ASSUME NEW h \in Handlers, ReadSeq(h)
      PROVE  CertificationTypeOK'
  <2>1. NextSeq \in Nat
    <3>1. PICK n \in Nat : Seqs = 1..n
      BY DEF FeedEnds
    <3> QED BY <3>1, NextSeqIs
  <2>2. PICK n \in Nat :
           job' = [job EXCEPT ![h] = [job[h] EXCEPT !.pc = "logEvent", !.seq = n]]
    BY <1>7, <2>1 DEF ReadSeq
  <2>3. [job[h] EXCEPT !.pc = "logEvent", !.seq = n] \in Job
    BY DEF Job, Pcs
  <2>4. job' \in [Handlers -> Job]
    BY <2>2, <2>3
  <2> QED BY <1>7, <2>4 DEF ReadSeq
<1>8. ASSUME NEW h \in Handlers, At(h, "logEvent")
      PROVE  Entry(h) \in Event
  BY <1>8 DEF At, Entry, RequestsAgree, OthersAgree, OtherAgrees, Event, Job
<1>9. ASSUME NEW h \in Handlers, CommitAttempt(h)
      PROVE  CertificationTypeOK'
  <2>1. /\ job[h].card \in Cards /\ job[h].upload \in Uploads
        /\ job[h].verdict \in FileVerdicts /\ job[h].count + 1 \in Nat \ {0}
    BY <1>9 DEF CommitAttempt, At, DropsAgree, DropAgrees, OnBoard, Job
  <2>2. attempts' \subseteq Attempt
    BY <1>9, <2>1 DEF CommitAttempt, Attempt
  <2>3. board' \in [Cards -> Card]
    BY <1>9, <2>1 DEF CommitAttempt, Card
  <2>4. job' \in [Handlers -> Job]
    BY <1>9 DEF CommitAttempt, Job, Pcs
  <2> QED BY <1>9, <1>8, <2>2, <2>3, <2>4 DEF CommitAttempt
<1>10. ASSUME NEW h \in Handlers, LogEvent(h)
       PROVE  CertificationTypeOK'
  <2>1. job' \in [Handlers -> Job]
    BY <1>10 DEF LogEvent, Job, Pcs
  <2> QED BY <1>10, <1>8, <2>1 DEF LogEvent
<1>11. ASSUME NEW h \in Handlers, AttachReference(h)
       PROVE  CertificationTypeOK'
  <2>1. job[h].card \in Cards /\ job[h].upload \in Samples
    BY <1>11 DEF AttachReference, At, RequestsAgree, OthersAgree, OtherAgrees
  <2>2. board' \in [Cards -> Card]
    BY <1>11, <2>1 DEF AttachReference, Card
  <2>3. job' \in [Handlers -> Job]
    BY <1>11 DEF AttachReference, Job, Pcs
  <2> QED BY <1>11, <2>2, <2>3 DEF AttachReference
<1>12. ASSUME NEW h \in Handlers, Gate(h) \/ UpdateSession(h)
       PROVE  CertificationTypeOK'
  <2>1. job' \in [Handlers -> Job]
    BY <1>12 DEF Gate, UpdateSession, OnBoard, Job, Pcs
  <2> QED BY <1>12, <2>1 DEF Gate, UpdateSession
<1>13. ASSUME NEW h \in Handlers, Stop(h)
       PROVE  CertificationTypeOK'
  BY <1>13 DEF Stop
<1>14. CASE UNCHANGED certVars
  BY <1>14 DEF certVars
<1> QED BY <1>1, <1>2, <1>3, <1>4, <1>5, <1>6, <1>7, <1>9, <1>10, <1>11, <1>12, <1>13, <1>14
        DEF Next, Request, Serve

-------------------------------------------------------------------------------
(* What is on record stays on record.                                      *)
LEMMA RecordGrows ==
    ASSUME CertificationTypeOK, [Next]_certVars
    PROVE  /\ attempts \subseteq attempts' /\ feed \subseteq feed'
           /\ thread \subseteq thread' /\ retained \subseteq retained'
           /\ session # "none" => session' # "none"
           /\ session = "certified" => session' = "certified"
<1>1. ASSUME NEW h \in Handlers, Request(h)
      PROVE  /\ attempts \subseteq attempts' /\ feed \subseteq feed'
             /\ thread \subseteq thread' /\ retained \subseteq retained'
             /\ session' = session \/ (session = "none" /\ session' = "draft")
  BY <1>1 DEF Request, OpenSession, DropFile, Waive, SetReference, AddMessage, Certify
<1>2. ASSUME NEW h \in Handlers, Serve(h)
      PROVE  /\ attempts \subseteq attempts' /\ feed \subseteq feed'
             /\ thread \subseteq thread' /\ retained \subseteq retained'
             /\ session' = session \/ session' = "certified"
  BY <1>2 DEF Serve, AddDoc, Judge, ReadCard, UpdateCard, ReadSeq, CommitAttempt,
              LogEvent, AttachReference, Gate, UpdateSession
<1>3. ASSUME (\E h \in Handlers : Stop(h)) \/ UNCHANGED certVars
      PROVE  UNCHANGED <<attempts, feed, thread, retained, session>>
  BY <1>3 DEF Stop, certVars
<1> QED BY <1>1, <1>2, <1>3 DEF Next

(* A card never leaves the board.                                          *)
LEMMA BoardGrows ==
    ASSUME CertificationTypeOK, RequestsAgree, DropsAgree, OthersAgree, [Next]_certVars
    PROVE  OnBoard \subseteq OnBoard'
<1> USE DEF CertificationTypeOK, OnBoard
<1>1. ASSUME NEW h \in Handlers, AddDoc(h)
      PROVE  OnBoard \subseteq OnBoard'
  BY <1>1 DEF AddDoc, Card
<1>2. ASSUME NEW h \in Handlers, CommitAttempt(h)
      PROVE  OnBoard \subseteq OnBoard'
  <2>1. job[h].verdict \in {"passed", "issues"}
    BY <1>2 DEF CommitAttempt, At, DropsAgree, DropAgrees, FileVerdicts
  <2> QED BY <1>2, <2>1 DEF CommitAttempt, Card
<1>3. ASSUME NEW h \in Handlers, NEW c \in Cards, Waive(h, c)
      PROVE  OnBoard \subseteq OnBoard'
  BY <1>3 DEF Waive, Card
<1>4. ASSUME NEW h \in Handlers, AttachReference(h)
      PROVE  OnBoard \subseteq OnBoard'
  BY <1>4 DEF AttachReference, Card
<1>5. ASSUME UNCHANGED board
      PROVE  OnBoard \subseteq OnBoard'
  BY <1>5
<1> QED BY <1>1, <1>2, <1>3, <1>4, <1>5
        DEF Next, Request, Serve, OpenSession, DropFile, SetReference, AddMessage,
            Certify, Judge, ReadCard, UpdateCard, ReadSeq, LogEvent, Gate,
            UpdateSession, Stop, certVars

(* The job of a handler changes in its own steps only.                     *)
LEMMA OneHandlerMoves ==
    ASSUME CertificationTypeOK, NEW h \in Handlers,
           Request(h) \/ Serve(h) \/ Stop(h),
           NEW g \in Handlers, g # h
    PROVE  job'[g] = job[g]
BY DEF CertificationTypeOK, Request, Serve, OpenSession, DropFile, Waive, SetReference,
       AddMessage, Certify, AddDoc, Judge, ReadCard, UpdateCard, ReadSeq, CommitAttempt,
       LogEvent, AttachReference, Gate, UpdateSession, Stop

LEMMA RequestsStep ==
    CertificationTypeOK /\ RequestsAgree /\ DropsAgree /\ OthersAgree
        /\ BoardAgrees /\ [Next]_certVars => RequestsAgree'
<1> SUFFICES ASSUME CertificationTypeOK, RequestsAgree, DropsAgree, OthersAgree,
                    BoardAgrees, [Next]_certVars
             PROVE  RequestsAgree'
  OBVIOUS
<1>1. session # "none" => session' # "none"
  BY RecordGrows
<1>2. ASSUME NEW h \in Handlers,
             OpenSession(h) \/ AddMessage(h) \/ Certify(h)
      PROVE  RequestsAgree'
  BY <1>1, <1>2 DEF CertificationTypeOK, RequestsAgree, Job, OpenSession, AddMessage,
                    Certify, Requests
<1>3. ASSUME NEW h \in Handlers, NEW c \in Cards,
             \/ \E u \in Uploads : DropFile(h, c, u)
             \/ \E s \in Samples : SetReference(h, c, s)
             \/ Waive(h, c)
      PROVE  RequestsAgree'
  <2>1. session # "none"
    BY <1>3 DEF DropFile, SetReference, Waive, BoardAgrees
  <2> QED BY <1>1, <1>3, <2>1 DEF CertificationTypeOK, RequestsAgree, Job, DropFile,
                                  SetReference, Waive, Requests
<1>4. ASSUME NEW h \in Handlers,
             \/ AddDoc(h) \/ Judge(h) \/ ReadCard(h) \/ UpdateCard(h) \/ ReadSeq(h)
      PROVE  RequestsAgree'
  BY <1>1, <1>4 DEF CertificationTypeOK, RequestsAgree, Job, At, AddDoc, Judge,
                    ReadCard, UpdateCard, ReadSeq, Requests
<1>5. ASSUME NEW h \in Handlers,
             \/ CommitAttempt(h) \/ LogEvent(h) \/ AttachReference(h) \/ Gate(h)
             \/ UpdateSession(h)
      PROVE  RequestsAgree'
  BY <1>1, <1>5 DEF CertificationTypeOK, RequestsAgree, Job, At, CommitAttempt,
                    LogEvent, AttachReference, Gate, UpdateSession, Requests
<1>6. ASSUME UNCHANGED <<job, session>>
      PROVE  RequestsAgree'
  BY <1>6 DEF RequestsAgree
<1> QED BY <1>2, <1>3, <1>4, <1>5, <1>6 DEF Next, Request, Serve, Stop, certVars

-------------------------------------------------------------------------------
(* A request that does not move keeps its agreement.                       *)
LEMMA DropUnmoved ==
    ASSUME CertificationTypeOK, RequestsAgree, DropsAgree, OthersAgree, [Next]_certVars,
           NEW g \in Handlers, job'[g] = job[g]
    PROVE  DropAgrees(g)'
<1>1. OnBoard \subseteq OnBoard' /\ attempts \subseteq attempts' /\ retained \subseteq retained'
  BY BoardGrows, RecordGrows
<1>2. NumbersOn(job[g].card) \subseteq NumbersOn(job[g].card)'
  BY <1>1 DEF NumbersOn, AttemptsOn
<1>3. DropAgrees(g)
  BY DEF DropsAgree
<1> QED BY <1>1, <1>2, <1>3 DEF DropAgrees

LEMMA DropsStep ==
    CertificationTypeOK /\ RequestsAgree /\ DropsAgree /\ OthersAgree
        /\ NumberedWithoutGaps /\ [Next]_certVars => DropsAgree'
<1> SUFFICES ASSUME CertificationTypeOK, RequestsAgree, DropsAgree, OthersAgree,
                    NumberedWithoutGaps, [Next]_certVars,
                    NEW g \in Handlers
             PROVE  DropAgrees(g)'
  BY DEF DropsAgree
<1>0. DropAgrees(g)
  BY DEF DropsAgree
<1>1. job'[g] = job[g] => DropAgrees(g)'
  BY DropUnmoved
<1>2. /\ OnBoard \subseteq OnBoard' /\ retained \subseteq retained'
      /\ \A c \in Cards : NumbersOn(c) \subseteq NumbersOn(c)'
  BY BoardGrows, RecordGrows DEF NumbersOn, AttemptsOn
<1>3. ASSUME NEW c \in Cards, NEW u \in Uploads, DropFile(g, c, u)
      PROVE  DropAgrees(g)'
  BY <1>2, <1>3 DEF DropFile, CertificationTypeOK, Job, DropAgrees
<1>4. ASSUME Judge(g)
      PROVE  DropAgrees(g)'
  BY <1>0, <1>2, <1>4 DEF Judge, CertificationTypeOK, Job, DropAgrees, VerdictOn,
                          FileVerdicts
<1>5. ASSUME ReadCard(g)
      PROVE  DropAgrees(g)'
  <2>1. job[g].does = "drop" /\ job[g].card \in Cards
    BY <1>0, <1>5 DEF ReadCard, At, RequestsAgree, DropAgrees, OnBoard
  <2>2. PICK c \in Cards : c = job[g].card
    BY <2>1
  <2>3. board[c].count \in NumbersOn(c)' \cup {0}
    BY <1>2 DEF NumberedWithoutGaps
  <2> QED BY <1>0, <1>2, <1>5, <2>1, <2>2, <2>3 DEF ReadCard, At, CertificationTypeOK, Job,
                                              DropAgrees
<1>6. ASSUME \/ UpdateCard(g) \/ ReadSeq(g) \/ CommitAttempt(g) \/ LogEvent(g)
      PROVE  DropAgrees(g)'
  <2>1. job[g].does = "drop" => job[g].card \in Cards
    BY <1>0 DEF DropAgrees, OnBoard
  <2> QED BY <1>0, <1>2, <1>6, <2>1 DEF UpdateCard, ReadSeq, CommitAttempt, LogEvent, At,
                                        CertificationTypeOK, Job, DropAgrees
<1>7. ASSUME \/ OpenSession(g) \/ AddMessage(g) \/ Certify(g)
             \/ \E c \in Cards : Waive(g, c)
             \/ \E c \in Cards, s \in Samples : SetReference(g, c, s)
      PROVE  DropAgrees(g)'
  <2>1. job'[g].does # "drop"
    <3>1. CASE OpenSession(g) \/ AddMessage(g) \/ Certify(g)
      BY <3>1 DEF OpenSession, AddMessage, Certify, CertificationTypeOK, Job
    <3>2. ASSUME NEW c \in Cards, Waive(g, c)
          PROVE  job'[g].does = "waive"
      BY <3>2 DEF Waive, CertificationTypeOK, Job
    <3>3. ASSUME NEW c \in Cards, NEW s \in Samples, SetReference(g, c, s)
          PROVE  job'[g].does = "reference"
      BY <3>3 DEF SetReference, CertificationTypeOK, Job
    <3> QED BY <1>7, <3>1, <3>2, <3>3
  <2> QED BY <2>1 DEF DropAgrees
<1>8. ASSUME AddDoc(g) \/ AttachReference(g) \/ Gate(g) \/ UpdateSession(g)
      PROVE  DropAgrees(g)'
  <2>1. job[g].does # "drop"
    BY <1>8 DEF AddDoc, AttachReference, Gate, UpdateSession, At, RequestsAgree
  <2>2. job'[g].does = job[g].does
    BY <1>8 DEF AddDoc, AttachReference, Gate, UpdateSession, CertificationTypeOK, Job
  <2> QED BY <2>1, <2>2 DEF DropAgrees
<1>9. CASE \E h \in Handlers : Request(h) \/ Serve(h) \/ Stop(h)
  <2>1. PICK h \in Handlers : Request(h) \/ Serve(h) \/ Stop(h)
    BY <1>9
  <2>2. CASE h # g
    BY <1>1, <2>1, <2>2, OneHandlerMoves
  <2>3. CASE h = g
    BY <1>1, <1>3, <1>4, <1>5, <1>6, <1>7, <1>8, <2>1, <2>3
       DEF Request, Serve, Stop
  <2> QED BY <2>2, <2>3
<1>10. CASE UNCHANGED certVars
  BY <1>1, <1>10 DEF certVars
<1> QED BY <1>9, <1>10 DEF Next

-------------------------------------------------------------------------------
(* The steps that write a card, and the one that records an attempt.       *)
LEMMA BoardChanges ==
    ASSUME [Next]_certVars
    PROVE  \/ UNCHANGED board
           \/ \E h \in Handlers : AddDoc(h) \/ CommitAttempt(h) \/ AttachReference(h)
           \/ \E h \in Handlers, c \in Cards : Waive(h, c)
<1>1. ASSUME NEW h \in Handlers, Request(h)
      PROVE  UNCHANGED board \/ \E c \in Cards : Waive(h, c)
  BY <1>1 DEF Request, OpenSession, DropFile, SetReference, AddMessage, Certify
<1>2. ASSUME NEW h \in Handlers, Serve(h)
      PROVE  UNCHANGED board \/ AddDoc(h) \/ CommitAttempt(h) \/ AttachReference(h)
  BY <1>2 DEF Serve, Judge, ReadCard, UpdateCard, ReadSeq, LogEvent, Gate, UpdateSession
<1>3. ASSUME (\E h \in Handlers : Stop(h)) \/ UNCHANGED certVars
      PROVE  UNCHANGED board
  BY <1>3 DEF Stop, certVars
<1> QED BY <1>1, <1>2, <1>3 DEF Next

LEMMA OnlyCommits ==
    ASSUME [Next]_certVars
    PROVE  UNCHANGED attempts \/ \E h \in Handlers : CommitAttempt(h)
<1>1. ASSUME NEW h \in Handlers, Request(h)
      PROVE  UNCHANGED attempts
  BY <1>1 DEF Request, OpenSession, DropFile, Waive, SetReference, AddMessage, Certify
<1>2. ASSUME NEW h \in Handlers, Serve(h)
      PROVE  UNCHANGED attempts \/ CommitAttempt(h)
  BY <1>2 DEF Serve, AddDoc, Judge, ReadCard, UpdateCard, ReadSeq, LogEvent,
              AttachReference, Gate, UpdateSession
<1>3. ASSUME (\E h \in Handlers : Stop(h)) \/ UNCHANGED certVars
      PROVE  UNCHANGED attempts
  BY <1>3 DEF Stop, certVars
<1> QED BY <1>1, <1>2, <1>3 DEF Next

LEMMA OnlyLogs ==
    ASSUME [Next]_certVars
    PROVE  UNCHANGED feed \/ \E h \in Handlers : CommitAttempt(h) \/ LogEvent(h)
<1>1. ASSUME NEW h \in Handlers, Request(h)
      PROVE  UNCHANGED feed
  BY <1>1 DEF Request, OpenSession, DropFile, Waive, SetReference, AddMessage, Certify
<1>2. ASSUME NEW h \in Handlers, Serve(h)
      PROVE  UNCHANGED feed \/ CommitAttempt(h) \/ LogEvent(h)
  BY <1>2 DEF Serve, AddDoc, Judge, ReadCard, UpdateCard, ReadSeq, AttachReference, Gate,
              UpdateSession
<1>3. ASSUME (\E h \in Handlers : Stop(h)) \/ UNCHANGED certVars
      PROVE  UNCHANGED feed
  BY <1>3 DEF Stop, certVars
<1> QED BY <1>1, <1>2, <1>3 DEF Next

(* A waiver is one statement: its request is over when it is on record.    *)
LEMMA WaiversAreDone ==
    ASSUME CertificationTypeOK, RequestsAgree, [Next]_certVars,
           NEW g \in Handlers, job[g].does = "waive"
    PROVE  job'[g] = job[g]
<1>1. job[g].pc \notin {"idle", "judge", "readCard", "updateCard", "attach", "gate",
                       "certify", "readSeq", "logEvent", "addDoc"}
  BY DEF RequestsAgree
<1>2. ~Request(g) /\ ~Serve(g)
  BY <1>1 DEF Request, Serve, OpenSession, DropFile, Waive, SetReference, AddMessage,
              Certify, AddDoc, Judge, ReadCard, UpdateCard, ReadSeq, CommitAttempt,
              LogEvent, AttachReference, Gate, UpdateSession, At
<1>3. (\E h \in Handlers : Stop(h)) \/ UNCHANGED certVars => job'[g] = job[g]
  BY DEF Stop, certVars
<1> QED BY <1>2, <1>3, OneHandlerMoves DEF Next

(* A sample on a card is replaced by another retained one only.            *)
LEMMA ReferencesKept ==
    ASSUME CertificationTypeOK, RequestsAgree, OthersAgree, [Next]_certVars,
           NEW c \in Cards, board[c].reference \in retained
    PROVE  board'[c].reference \in retained'
<1>1. retained \subseteq retained'
  BY RecordGrows
<1>2. ASSUME NEW h \in Handlers, AttachReference(h)
      PROVE  board'[c].reference \in retained'
  <2>1. job[h].upload \in retained /\ job[h].card \in Cards
    BY <1>2 DEF AttachReference, At, RequestsAgree, OthersAgree, OtherAgrees
  <2> QED BY <1>1, <1>2, <2>1 DEF AttachReference, CertificationTypeOK, Card
<1>3. ASSUME NEW h \in Handlers,
             AddDoc(h) \/ CommitAttempt(h) \/ \E d \in Cards : Waive(h, d)
      PROVE  board'[c].reference = board[c].reference
  BY <1>3 DEF AddDoc, CommitAttempt, Waive, CertificationTypeOK, Card
<1>4. ASSUME UNCHANGED board
      PROVE  board'[c].reference \in retained'
  BY <1>1, <1>4
<1> QED BY <1>1, <1>2, <1>3, <1>4, BoardChanges

LEMMA OthersStep ==
    CertificationTypeOK /\ RequestsAgree /\ OthersAgree /\ FeedEnds
        /\ [Next]_certVars => OthersAgree'
<1> SUFFICES ASSUME CertificationTypeOK, RequestsAgree, OthersAgree, FeedEnds,
                    [Next]_certVars, NEW g \in Handlers
             PROVE  OtherAgrees(g)'
  BY DEF OthersAgree
<1>0. OtherAgrees(g)
  BY DEF OthersAgree
<1>1. /\ thread \subseteq thread' /\ retained \subseteq retained' /\ Seqs \subseteq Seqs'
      /\ session = "certified" => session' = "certified"
  BY RecordGrows DEF Seqs
<1>2. ASSUME NEW c \in Cards, board[c].reference \in retained
      PROVE  board'[c].reference \in retained'
  BY <1>2, ReferencesKept
<1>3. ASSUME job'[g] = job[g]
      PROVE  OtherAgrees(g)'
  BY <1>0, <1>1, <1>2, <1>3 DEF OtherAgrees
<1>4. ASSUME job'[g].does \notin {"reference", "message", "certify"},
             job'[g].pc # "logEvent"
      PROVE  OtherAgrees(g)'
  BY <1>4 DEF OtherAgrees
<1>5. CASE OpenSession(g) \/ Certify(g) \/ AddMessage(g)
  BY <1>4, <1>5 DEF OpenSession, Certify, AddMessage, OtherAgrees, CertificationTypeOK, Job
<1>6. ASSUME NEW c \in Cards, Waive(g, c) \/ \E u \in Uploads : DropFile(g, c, u)
      PROVE  OtherAgrees(g)'
  BY <1>4, <1>6 DEF DropFile, Waive, CertificationTypeOK, Job
<1>7. ASSUME NEW c \in Cards, NEW s \in Samples, SetReference(g, c, s)
      PROVE  OtherAgrees(g)'
  BY <1>7 DEF SetReference, OtherAgrees, CertificationTypeOK, Job
<1>8. CASE Judge(g) \/ ReadCard(g) \/ UpdateCard(g) \/ AddDoc(g)
  <2>1. job[g].does \in {"drop", "open"}
    BY <1>8 DEF Judge, ReadCard, UpdateCard, AddDoc, At, RequestsAgree
  <2>2. job'[g] = job[g] \/ (job'[g].does = job[g].does /\ job'[g].pc # "logEvent")
    BY <1>8 DEF Judge, ReadCard, UpdateCard, AddDoc, CertificationTypeOK, Job
  <2> QED BY <1>3, <1>4, <2>1, <2>2
<1>9. CASE ReadSeq(g)
  <2>1. PICK n \in Nat : Seqs = 1..n
    BY DEF FeedEnds
  <2>2. job' = [job EXCEPT ![g].pc = "logEvent", ![g].seq = n + 1]
    BY <1>9, <2>1, NextSeqIs DEF ReadSeq
  <2>3. /\ job'[g].seq = n + 1 /\ job'[g].pc = "logEvent"
        /\ job'[g].does = job[g].does /\ job'[g].card = job[g].card
        /\ job'[g].upload = job[g].upload
    BY <2>2 DEF CertificationTypeOK, Job
  <2>4. job[g].pc = "readSeq" /\ UNCHANGED <<board, retained, thread, session, feed>>
    BY <1>9 DEF ReadSeq, At
  <2>5. job'[g].seq # 0 /\ 1..(job'[g].seq - 1) \subseteq Seqs'
    <3>1. Seqs' = 1..n
      BY <2>1, <2>4 DEF Seqs
    <3>2. n + 1 - 1 = n /\ n + 1 # 0
      OBVIOUS
    <3> QED BY <3>1, <3>2, <2>3
  <2> QED BY <1>0, <2>3, <2>4, <2>5 DEF OtherAgrees
<1>10. CASE CommitAttempt(g) \/ LogEvent(g)
  <2>1. /\ job'[g].does = job[g].does /\ job'[g].card = job[g].card
        /\ job'[g].upload = job[g].upload /\ job'[g].pc \in {"addDoc", "done"}
    BY <1>10 DEF CommitAttempt, LogEvent, CertificationTypeOK, Job
  <2> QED BY <1>0, <1>1, <2>1 DEF OtherAgrees
<1>11. CASE AttachReference(g)
  <2>1. job[g].does = "reference"
    BY <1>11 DEF AttachReference, At, RequestsAgree
  <2>2. /\ job'[g].does = "reference" /\ job'[g].card = job[g].card
        /\ job'[g].upload = job[g].upload /\ job'[g].pc = "readSeq"
    BY <1>11, <2>1 DEF AttachReference, CertificationTypeOK, Job
  <2>3. board'[job[g].card].reference = job[g].upload
    BY <1>0, <1>11, <2>1 DEF AttachReference, OtherAgrees, CertificationTypeOK, Card
  <2>4. /\ job[g].card \in Cards /\ job[g].upload \in Samples
        /\ job[g].upload \in retained'
    BY <1>0, <1>1, <2>1 DEF OtherAgrees
  <2> QED BY <2>2, <2>3, <2>4 DEF OtherAgrees
<1>12. CASE Gate(g) \/ UpdateSession(g)
  <2>1. job[g].does = "certify"
    BY <1>12 DEF Gate, UpdateSession, At, RequestsAgree
  <2>2. /\ job'[g].does = "certify" /\ job'[g].pc # "logEvent"
        /\ job'[g].pc = "readSeq" => session' = "certified"
    BY <1>12, <2>1 DEF Gate, UpdateSession, CertificationTypeOK, Job
  <2> QED BY <2>2 DEF OtherAgrees
<1>13. CASE \E h \in Handlers : Request(h) \/ Serve(h) \/ Stop(h)
  <2>1. PICK h \in Handlers : Request(h) \/ Serve(h) \/ Stop(h)
    BY <1>13
  <2>2. CASE h # g
    BY <1>3, <2>1, <2>2, OneHandlerMoves
  <2>3. CASE h = g
    <3>1. CASE Request(g)
      <4>1. CASE \E c \in Cards, u \in Uploads : DropFile(g, c, u)
        BY <1>6, <4>1
      <4>2. CASE \E c \in Cards : Waive(g, c)
        BY <1>6, <4>2
      <4>3. CASE \E c \in Cards, s \in Samples : SetReference(g, c, s)
        BY <1>7, <4>3
      <4> QED BY <1>5, <3>1, <4>1, <4>2, <4>3 DEF Request
    <3>2. CASE Serve(g)
      BY <1>8, <1>9, <1>10, <1>11, <1>12, <3>2 DEF Serve
    <3>3. CASE Stop(g)
      BY <1>3, <3>3 DEF Stop
    <3> QED BY <2>1, <2>3, <3>1, <3>2, <3>3
  <2> QED BY <2>2, <2>3
<1>14. CASE UNCHANGED certVars
  BY <1>3, <1>14 DEF certVars
<1> QED BY <1>13, <1>14 DEF Next

-------------------------------------------------------------------------------
(* Cards come onto the board one after another, behind the last one.       *)
LEMMA BoardStep ==
    CertificationTypeOK /\ RequestsAgree /\ DropsAgree /\ OthersAgree
        /\ BoardAgrees /\ [Next]_certVars => BoardAgrees'
<1> SUFFICES ASSUME CertificationTypeOK, RequestsAgree, DropsAgree, OthersAgree,
                    BoardAgrees, [Next]_certVars
             PROVE  BoardAgrees'
  OBVIOUS
<1> DEFINE Waived(c) == \E g \in Handlers : job[g].does = "waive" /\ job[g].card = c
<1>1. /\ retained \subseteq retained' /\ OnBoard \subseteq OnBoard'
      /\ session # "none" => session' # "none"
  BY RecordGrows, BoardGrows
<1>2. \E k \in 0..Len(Roles) : OnBoard' = 1..k
  <2>1. PICK k \in 0..Len(Roles) : OnBoard = 1..k
    BY DEF BoardAgrees
  <2>2. k \in Nat /\ Cardinality(OnBoard) = k
    BY <2>1, RolesType, FS_Interval
  <2>3. OnBoard' = OnBoard \/ (k + 1 \in Cards /\ OnBoard' = OnBoard \cup {k + 1})
    <3>1. ASSUME NEW h \in Handlers, AddDoc(h)
          PROVE  OnBoard' = OnBoard \/ (k + 1 \in Cards /\ OnBoard' = OnBoard \cup {k + 1})
      BY <2>2, <3>1 DEF AddDoc, OnBoard, CertificationTypeOK, Card
    <3>2. ASSUME NEW h \in Handlers, CommitAttempt(h) \/ AttachReference(h)
          PROVE  OnBoard' = OnBoard
      <4>1. CASE CommitAttempt(h)
        <5>1. job[h].card \in OnBoard
          BY <4>1 DEF CommitAttempt, DropsAgree, DropAgrees
        <5>2. \A c \in Cards : c # job[h].card => board'[c] = board[c]
          BY <4>1 DEF CommitAttempt, CertificationTypeOK
        <5> QED BY <1>1, <5>1, <5>2 DEF OnBoard
      <4>2. CASE AttachReference(h)
        <5>1. \A c \in Cards : board'[c].status = board[c].status
          BY <4>2 DEF AttachReference, CertificationTypeOK, Card
        <5> QED BY <5>1 DEF OnBoard
      <4> QED BY <3>2, <4>1, <4>2
    <3>3. ASSUME NEW h \in Handlers, NEW c \in Cards, Waive(h, c)
          PROVE  OnBoard' = OnBoard
      BY <1>1, <3>3 DEF Waive, OnBoard, CertificationTypeOK, Card
    <3>4. ASSUME UNCHANGED board
          PROVE  OnBoard' = OnBoard
      BY <3>4 DEF OnBoard
    <3> QED BY <3>1, <3>2, <3>3, <3>4, BoardChanges
  <2>4. CASE OnBoard' = OnBoard
    BY <2>1, <2>4
  <2>5. CASE k + 1 \in Cards /\ OnBoard' = OnBoard \cup {k + 1}
    BY <2>1, <2>2, <2>5, RolesType
  <2> QED BY <2>3, <2>4, <2>5
<1>3. session' = "none" => OnBoard' = {}
  <2>1. ASSUME session' = "none"
        PROVE  OnBoard = {} /\ \A h \in Handlers : job[h].pc = "idle"
    <3>1. session = "none"
      BY <1>1, <2>1
    <3> QED BY <3>1 DEF RequestsAgree, BoardAgrees
  <2>2. ASSUME session' = "none"
        PROVE  UNCHANGED board
    <3>1. OnBoard = {} /\ \A h \in Handlers : job[h].pc = "idle"
      BY <2>1, <2>2
    <3>2. ASSUME NEW h \in Handlers,
                 AddDoc(h) \/ CommitAttempt(h) \/ AttachReference(h)
          PROVE  FALSE
      BY <3>1, <3>2 DEF AddDoc, CommitAttempt, AttachReference, At
    <3>3. ASSUME NEW h \in Handlers, NEW c \in Cards, Waive(h, c)
          PROVE  FALSE
      BY <3>1, <3>3 DEF Waive
    <3> QED BY <3>2, <3>3, BoardChanges
  <2> QED BY <2>1, <2>2 DEF OnBoard
<1>4. ASSUME NEW c \in Cards, board'[c].status = "waived"
      PROVE  Waived(c)'
  <2>1. board[c].status = "waived" => Waived(c)
    BY DEF BoardAgrees
  <2>2. Waived(c) => Waived(c)'
    <3>1. ASSUME NEW g \in Handlers, job[g].does = "waive"
          PROVE  job'[g] = job[g]
      BY <3>1, WaiversAreDone
    <3> QED BY <3>1
  <2>3. ASSUME NEW h \in Handlers, Waive(h, c)
        PROVE  Waived(c)'
    <3>1. job'[h].does = "waive" /\ job'[h].card = c
      BY <2>3 DEF Waive, CertificationTypeOK, Job
    <3> QED BY <3>1
  <2>4. board[c].status = "waived" \/ \E h \in Handlers : Waive(h, c)
    <3>1. ASSUME NEW h \in Handlers, NEW d \in Cards, d # c, Waive(h, d)
          PROVE  board'[c] = board[c]
      BY <3>1 DEF Waive, CertificationTypeOK
    <3>2. ASSUME NEW h \in Handlers, AddDoc(h) \/ AttachReference(h)
          PROVE  board'[c].status \in {board[c].status, "awaiting"}
      BY <3>2 DEF AddDoc, AttachReference, CertificationTypeOK, Card
    <3>3. ASSUME NEW h \in Handlers, CommitAttempt(h)
          PROVE  board'[c].status \in {board[c].status, "passed", "issues"}
      BY <3>3 DEF CommitAttempt, At, DropsAgree, DropAgrees, FileVerdicts,
                  CertificationTypeOK, Card
    <3> QED BY <1>4, <3>1, <3>2, <3>3, BoardChanges
  <2> QED BY <2>1, <2>2, <2>3, <2>4
<1>5. ASSUME NEW f \in attempts'
      PROVE  f.upload \in retained' /\ (f.verdict = "passed" => f.upload \in Conformant)
  <2>1. CASE f \in attempts
    BY <1>1, <2>1 DEF BoardAgrees
  <2>2. CASE f \notin attempts
    <3>1. PICK h \in Handlers : CommitAttempt(h)
      BY <1>5, <2>2, OnlyCommits
    <3>2. f.upload = job[h].upload /\ f.verdict = job[h].verdict
      BY <1>5, <2>2, <3>1 DEF CommitAttempt
    <3>3. job[h].does = "drop" /\ job[h].pc = "logEvent"
      BY <3>1 DEF CommitAttempt, At
    <3>4. /\ job[h].upload \in retained
          /\ job[h].verdict = "passed" => job[h].upload \in Conformant
      BY <3>3 DEF DropsAgree, DropAgrees
    <3> QED BY <1>1, <3>2, <3>4
  <2> QED BY <2>1, <2>2
<1> QED BY <1>2, <1>3, <1>4, <1>5 DEF BoardAgrees

-------------------------------------------------------------------------------
(* A number read before another entry came is that entry's or an earlier   *)
(* one's: the feed stays without a gap.                                    *)
LEMMA FeedEndsStep ==
    CertificationTypeOK /\ OthersAgree /\ FeedEnds /\ [Next]_certVars => FeedEnds'
<1> SUFFICES ASSUME CertificationTypeOK, OthersAgree, FeedEnds, [Next]_certVars
             PROVE  FeedEnds'
  OBVIOUS
<1>1. PICK n \in Nat : Seqs = 1..n
  BY DEF FeedEnds
<1>2. CASE UNCHANGED feed
  BY <1>1, <1>2 DEF FeedEnds, Seqs
<1>3. ASSUME NEW h \in Handlers, At(h, "logEvent"), feed' = feed \cup {Entry(h)}
      PROVE  FeedEnds'
  <2>1. /\ job[h].seq \in Nat \ {0}
        /\ 1..(job[h].seq - 1) \subseteq 1..n
    BY <1>1, <1>3 DEF At, OthersAgree, OtherAgrees, CertificationTypeOK, Job
  <2>2. job[h].seq \in 1..(n + 1)
    <3>1. CASE job[h].seq = 1
      BY <3>1
    <3>2. CASE job[h].seq # 1
      <4>1. job[h].seq - 1 \in 1..(job[h].seq - 1)
        BY <2>1, <3>2
      <4>2. job[h].seq - 1 \in 1..n
        BY <2>1, <4>1
      <4> QED BY <2>1, <4>2
    <3> QED BY <3>1, <3>2
  <2>3. Seqs' = 1..n \cup {job[h].seq}
    <3>1. Entry(h).seq = job[h].seq
      BY DEF Entry
    <3> QED BY <1>1, <1>3, <3>1 DEF Seqs
  <2>4. CASE job[h].seq \in 1..n
    BY <2>3, <2>4 DEF FeedEnds
  <2>5. CASE job[h].seq = n + 1
    <3>1. Seqs' = 1..(n + 1)
      BY <2>3, <2>5
    <3> QED BY <3>1 DEF FeedEnds
  <2> QED BY <2>2, <2>4, <2>5
<1> QED BY <1>2, <1>3, OnlyLogs DEF CommitAttempt, LogEvent

-------------------------------------------------------------------------------
LEMMA LocksStep ==
    CertificationTypeOK /\ RequestsAgree /\ DropsAgree /\ LocksMatchAttempts
        /\ [Next]_certVars => LocksMatchAttempts'
<1> SUFFICES ASSUME CertificationTypeOK, RequestsAgree, DropsAgree, LocksMatchAttempts,
                    [Next]_certVars
             PROVE  LocksMatchAttempts'
  OBVIOUS
<1> DEFINE Open(g) == /\ g \notin stopped
                      /\ job[g].does = "drop"
                      /\ job[g].pc \in {"readSeq", "logEvent"}
<1>0. ASSUME NEW c \in Cards, NEW g \in Handlers
      PROVE  locked[c] = g <=> Open(g) /\ job[g].card = c
  BY DEF LocksMatchAttempts, Running
<1>1. ASSUME NEW h \in Handlers, UpdateCard(h)
      PROVE  LocksMatchAttempts'
  <2>1. /\ job[h].does = "drop" /\ job[h].card \in Cards /\ h \notin stopped
        /\ job[h].pc = "updateCard"
    BY <1>1 DEF UpdateCard, At, Running, RequestsAgree, DropsAgree, DropAgrees, OnBoard
  <2>2. \A g \in Handlers : locked[job[h].card] # g
    BY <1>1, NobodyAssumption DEF UpdateCard
  <2>3. /\ job'[h].does = "drop" /\ job'[h].card = job[h].card /\ job'[h].pc = "readSeq"
        /\ \A g \in Handlers : g # h => job'[g] = job[g]
    BY <1>1, <2>1 DEF UpdateCard, CertificationTypeOK, Job
  <2>4. stopped' = stopped /\ locked' = [locked EXCEPT ![job[h].card] = h]
    BY <1>1 DEF UpdateCard
  <2> QED BY <1>0, <2>1, <2>2, <2>3, <2>4
          DEF LocksMatchAttempts, Running, CertificationTypeOK
<1>2. ASSUME NEW h \in Handlers, CommitAttempt(h)
      PROVE  LocksMatchAttempts'
  <2>1. /\ job[h].does = "drop" /\ job[h].card \in Cards /\ h \notin stopped
        /\ job[h].pc = "logEvent"
    BY <1>2 DEF CommitAttempt, At, Running, DropsAgree, DropAgrees, OnBoard
  <2>2. locked[job[h].card] = h
    BY <1>0, <2>1
  <2>3. /\ job'[h].pc = "done"
        /\ \A g \in Handlers : g # h => job'[g] = job[g]
    BY <1>2 DEF CommitAttempt, CertificationTypeOK, Job
  <2>4. stopped' = stopped /\ locked' = [locked EXCEPT ![job[h].card] = NoHandler]
    BY <1>2 DEF CommitAttempt
  <2> QED BY <1>0, <2>1, <2>2, <2>3, <2>4, NobodyAssumption
          DEF LocksMatchAttempts, Running, CertificationTypeOK
<1>3. ASSUME NEW h \in Handlers, Stop(h)
      PROVE  LocksMatchAttempts'
  BY <1>0, <1>3, NobodyAssumption DEF Stop, LocksMatchAttempts, Running, CertificationTypeOK
<1>4. ASSUME NEW h \in Handlers, UNCHANGED <<locked, stopped>>,
             \A g \in Handlers : g # h => job'[g] = job[g],
             Open(h)' <=> Open(h),
             Open(h) => job'[h].card = job[h].card
      PROVE  LocksMatchAttempts'
  BY <1>0, <1>4 DEF LocksMatchAttempts, Running
<1>5. ASSUME NEW h \in Handlers, Request(h)
      PROVE  LocksMatchAttempts'
  <2>1. job[h].pc = "idle" /\ UNCHANGED <<locked, stopped>>
    BY <1>5 DEF Request, OpenSession, DropFile, Waive, SetReference, AddMessage, Certify, At
  <2>2. ~Open(h)
    BY <2>1
  <2>3. ~(job'[h].does = "drop" /\ job'[h].pc \in {"readSeq", "logEvent"})
    <3>1. CASE OpenSession(h) \/ AddMessage(h) \/ Certify(h)
      BY <3>1 DEF OpenSession, AddMessage, Certify, CertificationTypeOK, Job
    <3>2. ASSUME NEW c \in Cards, Waive(h, c) \/ (\E u \in Uploads : DropFile(h, c, u))
                                    \/ (\E s \in Samples : SetReference(h, c, s))
          PROVE  job'[h].pc \notin {"readSeq", "logEvent"}
      BY <3>2 DEF Waive, DropFile, SetReference, CertificationTypeOK, Job
    <3> QED BY <1>5, <3>1, <3>2 DEF Request
  <2>4. \A g \in Handlers : g # h => job'[g] = job[g]
    BY <1>5, OneHandlerMoves
  <2> QED BY <1>4, <2>1, <2>2, <2>3, <2>4
<1>6. ASSUME NEW h \in Handlers,
             AddDoc(h) \/ Judge(h) \/ ReadCard(h) \/ ReadSeq(h)
      PROVE  LocksMatchAttempts'
  <2>1. /\ UNCHANGED <<locked, stopped>>
        /\ job'[h].does = job[h].does /\ job'[h].card = job[h].card
        /\ job'[h].pc \in {"readSeq", "logEvent"} <=> job[h].pc \in {"readSeq", "logEvent"}
    BY <1>6 DEF AddDoc, Judge, ReadCard, ReadSeq, At, CertificationTypeOK, Job
  <2>2. \A g \in Handlers : g # h => job'[g] = job[g]
    BY <1>6, OneHandlerMoves DEF Serve
  <2> QED BY <1>4, <2>1, <2>2
<1>7. ASSUME NEW h \in Handlers,
             LogEvent(h) \/ AttachReference(h) \/ Gate(h) \/ UpdateSession(h)
      PROVE  LocksMatchAttempts'
  <2>1. /\ UNCHANGED <<locked, stopped>>
        /\ job[h].does # "drop" /\ job'[h].does # "drop"
    BY <1>7 DEF LogEvent, AttachReference, Gate, UpdateSession, At, RequestsAgree,
                CertificationTypeOK, Job
  <2>2. \A g \in Handlers : g # h => job'[g] = job[g]
    BY <1>7, OneHandlerMoves DEF Serve
  <2> QED BY <1>4, <2>1, <2>2
<1>8. CASE UNCHANGED certVars
  BY <1>8 DEF certVars, LocksMatchAttempts, Running
<1> QED BY <1>1, <1>2, <1>3, <1>5, <1>6, <1>7, <1>8 DEF Next, Serve

-------------------------------------------------------------------------------
(* The attempt that a commit puts on record, and the card it leaves.       *)
LEMMA CommitIs ==
    ASSUME CertificationTypeOK, DropsAgree, NEW h \in Handlers, CommitAttempt(h)
    PROVE  /\ job[h].card \in OnBoard /\ job[h].verdict \in FileVerdicts
           /\ job[h].count \in NumbersOn(job[h].card) \cup {0}
           /\ board'[job[h].card].status = job[h].verdict
           /\ board'[job[h].card].count = job[h].count + 1
           /\ \A c \in Cards : c # job[h].card => board'[c] = board[c]
<1>1. /\ job[h].card \in OnBoard /\ job[h].verdict \in FileVerdicts
      /\ job[h].count \in NumbersOn(job[h].card) \cup {0}
  BY DEF CommitAttempt, At, DropsAgree, DropAgrees
<1> QED BY <1>1 DEF CommitAttempt, CertificationTypeOK, Card, OnBoard

Filed(h) == [card |-> job[h].card, of |-> h, no |-> job[h].count + 1,
             upload |-> job[h].upload, verdict |-> job[h].verdict]

LEMMA CommitFiles ==
    ASSUME NEW h \in Handlers, CommitAttempt(h), NEW c \in Cards
    PROVE  /\ c = job[h].card =>
                /\ AttemptsOn(c)' = AttemptsOn(c) \cup {Filed(h)}
                /\ NumbersOn(c)' = NumbersOn(c) \cup {job[h].count + 1}
           /\ c # job[h].card =>
                AttemptsOn(c)' = AttemptsOn(c) /\ NumbersOn(c)' = NumbersOn(c)
<1>1. attempts' = attempts \cup {Filed(h)}
  BY DEF CommitAttempt, Filed
<1>2. Filed(h).card = job[h].card /\ Filed(h).no = job[h].count + 1
  BY DEF Filed
<1>3. CASE c = job[h].card
  <2>1. AttemptsOn(c)' = AttemptsOn(c) \cup {Filed(h)}
    BY <1>1, <1>2, <1>3 DEF AttemptsOn
  <2>2. NumbersOn(c)' = NumbersOn(c) \cup {job[h].count + 1}
    BY <1>2, <2>1 DEF NumbersOn
  <2> QED BY <1>3, <2>1, <2>2
<1>4. CASE c # job[h].card
  <2>1. AttemptsOn(c)' = AttemptsOn(c)
    BY <1>1, <1>2, <1>4 DEF AttemptsOn
  <2> QED BY <1>4, <2>1 DEF NumbersOn
<1> QED BY <1>3, <1>4

LEMMA CardStep ==
    CertificationTypeOK /\ DropsAgree /\ BoardAgrees /\ CardShowsAnAttempt
        /\ [Next]_certVars => CardShowsAnAttempt'
<1> SUFFICES ASSUME CertificationTypeOK, DropsAgree, BoardAgrees, CardShowsAnAttempt,
                    [Next]_certVars, NEW c \in Cards
             PROVE  /\ board'[c].status \in FileVerdicts =>
                          \E f \in AttemptsOn(c)' :
                              f.no = board'[c].count /\ f.verdict = board'[c].status
                    /\ board'[c].status \in {"absent", "awaiting"} => AttemptsOn(c)' = {}
  BY DEF CardShowsAnAttempt, AttemptsOn
<1>1. ASSUME NEW h \in Handlers, CommitAttempt(h), job[h].card = c
      PROVE  \E f \in AttemptsOn(c)' :
                f.no = board'[c].count /\ f.verdict = board'[c].status
  <2>1. Filed(h) \in AttemptsOn(c)'
    BY <1>1, CommitFiles
  <2>2. Filed(h).no = board'[c].count /\ Filed(h).verdict = board'[c].status
    BY <1>1, CommitIs DEF Filed
  <2> QED BY <2>1, <2>2
<1>2. ASSUME NEW h \in Handlers, CommitAttempt(h), job[h].card = c
      PROVE  board'[c].status \notin {"absent", "awaiting"}
  BY <1>2, CommitIs DEF FileVerdicts
<1>3. ASSUME NEW h \in Handlers, CommitAttempt(h), job[h].card # c
      PROVE  AttemptsOn(c)' = AttemptsOn(c) /\ board'[c] = board[c]
  BY <1>3, CommitIs, CommitFiles
<1>4. ASSUME UNCHANGED attempts
      PROVE  AttemptsOn(c)' = AttemptsOn(c)
  BY <1>4 DEF AttemptsOn
<1>5. ASSUME NEW h \in Handlers, AddDoc(h)
      PROVE  UNCHANGED attempts /\ \/ board'[c] = board[c]
                                   \/ /\ board[c].status = "absent"
                                      /\ board'[c].status = "awaiting"
  <2>1. CASE Cardinality(OnBoard) + 1 = c
    <3>1. board[c].status = "absent"
      BY <2>1, NextCardIsAbsent DEF OnBoard
    <3> QED BY <1>5, <2>1, <3>1 DEF AddDoc, CertificationTypeOK, Card
  <2>2. CASE Cardinality(OnBoard) + 1 # c
    BY <1>5, <2>2 DEF AddDoc, CertificationTypeOK
  <2> QED BY <2>1, <2>2
<1>6. ASSUME NEW h \in Handlers, AttachReference(h)
      PROVE  /\ UNCHANGED attempts
             /\ board'[c].status = board[c].status /\ board'[c].count = board[c].count
  BY <1>6 DEF AttachReference, CertificationTypeOK, Card
<1>7. ASSUME NEW h \in Handlers, NEW d \in Cards, Waive(h, d)
      PROVE  UNCHANGED attempts /\ (board'[c] = board[c] \/ board'[c].status = "waived")
  BY <1>7 DEF Waive, CertificationTypeOK, Card
<1>8. CASE \E h \in Handlers : CommitAttempt(h)
  BY <1>1, <1>2, <1>3, <1>8 DEF CardShowsAnAttempt
<1>9. CASE UNCHANGED <<attempts, board>>
  BY <1>4, <1>9 DEF CardShowsAnAttempt
<1>10. CASE /\ UNCHANGED attempts /\ ~UNCHANGED board
            /\ ~\E h \in Handlers : CommitAttempt(h)
  <2>1. \/ board'[c].status = board[c].status /\ board'[c].count = board[c].count
        \/ board[c].status = "absent" /\ board'[c].status = "awaiting"
        \/ board'[c].status = "waived"
    <3>1. CASE \E h \in Handlers : AddDoc(h)
      BY <1>5, <3>1
    <3>2. CASE \E h \in Handlers : AttachReference(h)
      BY <1>6, <3>2
    <3>3. CASE \E h \in Handlers, d \in Cards : Waive(h, d)
      BY <1>7, <3>3
    <3> QED BY <1>10, <3>1, <3>2, <3>3, BoardChanges
  <2> QED BY <1>4, <1>10, <2>1 DEF CardShowsAnAttempt, FileVerdicts
<1> QED BY <1>8, <1>9, <1>10, OnlyCommits

-------------------------------------------------------------------------------
LEMMA NumbersStep ==
    CertificationTypeOK /\ DropsAgree /\ FeedEnds /\ FeedEnds' /\ NumberedWithoutGaps
        /\ [Next]_certVars => NumberedWithoutGaps'
<1> SUFFICES ASSUME CertificationTypeOK, DropsAgree, FeedEnds, FeedEnds',
                    NumberedWithoutGaps, [Next]_certVars
             PROVE  NumberedWithoutGaps'
  OBVIOUS
<1>1. Dense(Seqs')
  <2>1. PICK n \in Nat : Seqs' = 1..n
    BY DEF FeedEnds
  <2> QED BY <2>1 DEF Dense
<1>2. ASSUME NEW c \in Cards
      PROVE  Dense(NumbersOn(c)') /\ board'[c].count \in NumbersOn(c)' \cup {0}
  <2>0. /\ Dense(NumbersOn(c)) /\ board[c].count \in NumbersOn(c) \cup {0}
        /\ NumbersOn(c) \subseteq Nat
    BY DEF NumberedWithoutGaps, NumbersOn, AttemptsOn, CertificationTypeOK, Attempt
  <2>1. ASSUME NEW h \in Handlers, CommitAttempt(h), job[h].card = c
        PROVE  Dense(NumbersOn(c)') /\ board'[c].count \in NumbersOn(c)' \cup {0}
    <3>1. PICK k \in Nat : k = job[h].count
      BY DEF CertificationTypeOK, Job
    <3>2. NumbersOn(c)' = NumbersOn(c) \cup {k + 1}
      BY <2>1, <3>1, CommitFiles
    <3>3. 1..k \subseteq NumbersOn(c)
      <4>1. k \in NumbersOn(c) \/ k = 0
        BY <2>1, <3>1, CommitIs
      <4> QED BY <2>0, <4>1 DEF Dense
    <3>4. Dense(NumbersOn(c) \cup {k + 1})
      BY <2>0, <3>3 DEF Dense
    <3>5. board'[c].count = k + 1
      BY <2>1, <3>1, CommitIs
    <3> QED BY <3>2, <3>4, <3>5
  <2>2. ASSUME NEW h \in Handlers, CommitAttempt(h), job[h].card # c
        PROVE  NumbersOn(c)' = NumbersOn(c) /\ board'[c] = board[c]
    BY <2>2, CommitIs, CommitFiles
  <2>3. ASSUME UNCHANGED attempts
        PROVE  NumbersOn(c)' = NumbersOn(c)
    BY <2>3 DEF NumbersOn, AttemptsOn
  <2>4. ASSUME ~\E h \in Handlers : CommitAttempt(h)
        PROVE  board'[c].count = board[c].count
    <3>1. ASSUME NEW h \in Handlers, AddDoc(h) \/ AttachReference(h)
          PROVE  board'[c].count = board[c].count
      BY <3>1 DEF AddDoc, AttachReference, CertificationTypeOK, Card
    <3>2. ASSUME NEW h \in Handlers, NEW d \in Cards, Waive(h, d)
          PROVE  board'[c].count = board[c].count
      BY <3>2 DEF Waive, CertificationTypeOK, Card
    <3> QED BY <2>4, <3>1, <3>2, BoardChanges
  <2> QED BY <2>0, <2>1, <2>2, <2>3, <2>4, OnlyCommits
<1> QED BY <1>1, <1>2 DEF NumberedWithoutGaps, NumbersOn, AttemptsOn

-------------------------------------------------------------------------------
(* An entry is written after what it reports, by the request that did it.  *)
LEMMA FeedStep ==
    CertificationTypeOK /\ RequestsAgree /\ DropsAgree /\ OthersAgree /\ SamplesNamed
        /\ FeedTellsTheTruth /\ [Next]_certVars => FeedTellsTheTruth' /\ SamplesNamed'
<1> SUFFICES ASSUME CertificationTypeOK, RequestsAgree, DropsAgree, OthersAgree,
                    SamplesNamed, FeedTellsTheTruth, [Next]_certVars, NEW e \in feed'
             PROVE  /\ session' # "none"
                    /\ e.verb = "certified" => session' = "certified"
                    /\ e.verb = "message_sent" => e.of \in thread'
                    /\ e.verb = "reference_set" => /\ e.card \in Cards
                                                   /\ board'[e.card].reference \in retained'
                    /\ e.verb = "file_validated" =>
                          \E f \in attempts' : /\ f.card = e.card /\ f.of = e.of
                                               /\ f.verdict = e.detail
                                               /\ f.upload \in retained'
  BY DEF FeedTellsTheTruth, SamplesNamed, AttemptsOn
<1>1. /\ attempts \subseteq attempts' /\ thread \subseteq thread'
      /\ retained \subseteq retained'
      /\ session # "none" => session' # "none"
      /\ session = "certified" => session' = "certified"
  BY RecordGrows
<1>2. ASSUME NEW c \in Cards, board[c].reference \in retained
      PROVE  board'[c].reference \in retained'
  BY <1>2, ReferencesKept
<1>3. CASE e \in feed
  <2>1. /\ session # "none"
        /\ e.verb = "certified" => session = "certified"
        /\ e.verb = "message_sent" => e.of \in thread
        /\ e.verb = "reference_set" => /\ e.card \in Cards
                                       /\ board[e.card].reference \in retained
        /\ e.verb = "file_validated" =>
              \E f \in attempts : /\ f.card = e.card /\ f.of = e.of
                                  /\ f.verdict = e.detail /\ f.upload \in retained
    BY <1>3 DEF FeedTellsTheTruth, SamplesNamed, AttemptsOn
  <2> QED BY <1>1, <1>2, <2>1
<1>4. CASE e \notin feed
  <2>1. PICK h \in Handlers : CommitAttempt(h) \/ LogEvent(h)
    BY <1>4, OnlyLogs
  <2>2. e = Entry(h) /\ job[h].pc = "logEvent"
    BY <1>4, <2>1 DEF CommitAttempt, LogEvent, At
  <2>3. /\ e.of = h /\ e.card = job[h].card /\ e.detail = job[h].verdict
        /\ e.verb = Verb(job[h].does)
    BY <2>2 DEF Entry
  <2>4. /\ job[h].does \in {"open", "drop", "reference", "message", "certify"}
        /\ session # "none"
    BY <2>2 DEF RequestsAgree, Requests
  <2>5. /\ e.verb = "certified" <=> job[h].does = "certify"
        /\ e.verb = "message_sent" <=> job[h].does = "message"
        /\ e.verb = "reference_set" <=> job[h].does = "reference"
        /\ e.verb = "file_validated" <=> job[h].does = "drop"
    BY <2>3, <2>4 DEF Verb
  <2>6. OtherAgrees(h) /\ DropAgrees(h)
    BY DEF OthersAgree, DropsAgree
  <2>7. ASSUME job[h].does = "drop"
        PROVE  \E f \in attempts' : /\ f.card = e.card /\ f.of = e.of
                                    /\ f.verdict = e.detail /\ f.upload \in retained'
    <3>1. Filed(h) \in attempts'
      BY <2>1, <2>7 DEF CommitAttempt, LogEvent, Filed
    <3>2. job[h].upload \in retained
      BY <2>6, <2>7 DEF DropAgrees
    <3> QED BY <1>1, <2>3, <3>1, <3>2 DEF Filed
  <2>8. job[h].does = "reference" => /\ e.card \in Cards
                                     /\ board'[e.card].reference \in retained'
    BY <1>2, <2>2, <2>3, <2>6 DEF OtherAgrees
  <2>9. job[h].does = "certify" => session = "certified"
    BY <2>2, <2>6 DEF OtherAgrees
  <2>10. job[h].does = "message" => e.of \in thread
    BY <2>3, <2>6 DEF OtherAgrees
  <2> QED BY <1>1, <2>4, <2>5, <2>7, <2>8, <2>9, <2>10
<1> QED BY <1>3, <1>4

-------------------------------------------------------------------------------
(* Evidence stays: attempts and waivers are never taken back.              *)
LEMMA EvidenceStep ==
    CertificationTypeOK /\ RequestsAgree /\ BoardAgrees /\ CardShowsAnAttempt
        /\ CertifiedOnEvidence /\ [Next]_certVars => CertifiedOnEvidence'
<1> SUFFICES ASSUME CertificationTypeOK, RequestsAgree, BoardAgrees, CardShowsAnAttempt,
                    CertifiedOnEvidence, [Next]_certVars,
                    NEW h \in Handlers, job'[h].does = "certify",
                    job'[h].pc \in {"certify", "readSeq", "logEvent"},
                    NEW c \in job'[h].docs \cap Blocking
             PROVE  \/ \E f \in attempts' : /\ f.card = c /\ f.verdict = "passed"
                                            /\ f.upload \in Conformant
                    \/ \E g \in Handlers : job'[g].does = "waive" /\ job'[g].card = c
  BY DEF CertifiedOnEvidence, AttemptsOn
<1> DEFINE Passed == \E f \in attempts : /\ f.card = c /\ f.verdict = "passed"
                                         /\ f.upload \in Conformant
           Waived == \E g \in Handlers : job[g].does = "waive" /\ job[g].card = c
<1>1. attempts \subseteq attempts'
  BY RecordGrows
<1>2. ASSUME NEW g \in Handlers, job[g].does = "waive"
      PROVE  job'[g] = job[g]
  BY <1>2, WaiversAreDone
<1>3. SUFFICES Passed \/ Waived
  BY <1>1, <1>2, <1>3
<1>4. c \in Cards
  BY DEF Blocking
<1>5. CASE job'[h] = job[h]
  BY <1>5 DEF CertifiedOnEvidence, AttemptsOn
<1>6. CASE Gate(h)
  <2>1. job' = [job EXCEPT ![h].pc = IF CanCertify THEN "certify" ELSE "done",
                           ![h].docs = OnBoard]
    BY <1>6 DEF Gate
  <2>2. job'[h].docs = OnBoard /\ (~CanCertify => job'[h].pc = "done")
    BY <2>1 DEF CertificationTypeOK, Job
  <2>3. c \in OnBoard /\ IsDocSatisfied(board[c].status)
    BY <2>2 DEF CanCertify
  <2>4. CASE board[c].status = "passed"
    BY <1>4, <2>4 DEF CardShowsAnAttempt, AttemptsOn, BoardAgrees, FileVerdicts
  <2>5. CASE board[c].status = "waived"
    BY <1>4, <2>5 DEF BoardAgrees
  <2> QED BY <2>3, <2>4, <2>5 DEF IsDocSatisfied
<1>7. CASE UpdateSession(h) \/ ReadSeq(h)
  <2>1. /\ job[h].pc \in {"certify", "readSeq"}
        /\ job'[h].does = job[h].does /\ job'[h].docs = job[h].docs
    BY <1>7 DEF UpdateSession, ReadSeq, At, CertificationTypeOK, Job
  <2> QED BY <2>1 DEF CertifiedOnEvidence, AttemptsOn
<1>8. ASSUME Request(h)
      PROVE  job'[h].does # "certify" \/ job'[h].pc = "gate"
  <2>1. CASE OpenSession(h) \/ AddMessage(h) \/ Certify(h)
    BY <2>1 DEF OpenSession, AddMessage, Certify, CertificationTypeOK, Job
  <2>2. ASSUME NEW d \in Cards, Waive(h, d) \/ (\E u \in Uploads : DropFile(h, d, u))
                                  \/ (\E s \in Samples : SetReference(h, d, s))
        PROVE  job'[h].does # "certify"
    BY <2>2 DEF Waive, DropFile, SetReference, CertificationTypeOK, Job
  <2> QED BY <1>8, <2>1, <2>2 DEF Request
<1>9. ASSUME \/ AddDoc(h) \/ Judge(h) \/ ReadCard(h) \/ UpdateCard(h)
             \/ CommitAttempt(h) \/ AttachReference(h)
      PROVE  job'[h].does # "certify"
  BY <1>9 DEF AddDoc, Judge, ReadCard, UpdateCard, CommitAttempt, AttachReference, At,
              RequestsAgree, CertificationTypeOK, Job
<1>10. ASSUME LogEvent(h)
       PROVE  job'[h].pc \in {"addDoc", "done"}
  BY <1>10 DEF LogEvent, CertificationTypeOK, Job
<1>11. job'[h] = job[h] \/ Request(h) \/ Serve(h)
  <2>1. CASE \E g \in Handlers : Request(g) \/ Serve(g) \/ Stop(g)
    <3>1. PICK g \in Handlers : Request(g) \/ Serve(g) \/ Stop(g)
      BY <2>1
    <3>2. g # h => job'[h] = job[h]
      BY <3>1, OneHandlerMoves
    <3>3. Stop(g) => job'[h] = job[h]
      BY DEF Stop
    <3> QED BY <3>1, <3>2, <3>3
  <2>2. CASE UNCHANGED certVars
    BY <2>2 DEF certVars
  <2> QED BY <2>1, <2>2 DEF Next
<1> QED BY <1>5, <1>6, <1>7, <1>8, <1>9, <1>10, <1>11 DEF Serve

-------------------------------------------------------------------------------
LEMMA InitInv == Init => CertificationInv
<1> SUFFICES ASSUME Init
             PROVE  CertificationInv
  OBVIOUS
<1> USE DEF Init, NoJob, NoCard
<1>1. CertificationTypeOK
  BY DEF CertificationTypeOK, Card, Job, Pcs, Requests
<1>2. RequestsAgree /\ DropsAgree /\ OthersAgree
  BY DEF RequestsAgree, DropsAgree, DropAgrees, OthersAgree, OtherAgrees
<1>3. OnBoard = {}
  BY DEF OnBoard
<1>4. BoardAgrees
  <2>1. 0 \in 0..Len(Roles) /\ 1..0 = {}
    BY RolesType
  <2> QED BY <1>3, <2>1 DEF BoardAgrees
<1>5. Seqs = 1..0
  BY DEF Seqs
<1>6. FeedEnds
  BY <1>5 DEF FeedEnds
<1>7. \A c \in Cards : AttemptsOn(c) = {} /\ NumbersOn(c) = {}
  BY DEF AttemptsOn, NumbersOn
<1>8. CardShowsAnAttempt
  BY <1>7 DEF CardShowsAnAttempt, FileVerdicts
<1>9. NumberedWithoutGaps
  BY <1>5, <1>7 DEF NumberedWithoutGaps, Dense
<1>10. LocksMatchAttempts
  BY NobodyAssumption DEF LocksMatchAttempts
<1>11. SamplesNamed /\ FeedTellsTheTruth /\ CertifiedOnEvidence
  BY DEF SamplesNamed, FeedTellsTheTruth, CertifiedOnEvidence
<1> QED BY <1>1, <1>2, <1>4, <1>6, <1>8, <1>9, <1>10, <1>11 DEF CertificationInv

LEMMA NextInv == CertificationInv /\ [Next]_certVars => CertificationInv'
BY TypeStep, RequestsStep, DropsStep, OthersStep, BoardStep, FeedEndsStep, LocksStep,
   CardStep, NumbersStep, FeedStep, EvidenceStep DEF CertificationInv

LEMMA Inductive == Spec => []CertificationInv
BY InitInv, NextInv, PTL DEF Spec

-------------------------------------------------------------------------------
(* The board's state has its types whatever requests interleave or fail.   *)
THEOREM BoardTypeCorrect == Spec => []CertificationTypeOK
<1>1. CertificationInv => CertificationTypeOK
  BY DEF CertificationInv
<1> QED BY <1>1, Inductive, PTL

(* A card shows one of its attempts, whole, or none if it awaits its first,*)
(* however many test files are judged at the same time.                    *)
THEOREM CardsShowAttempts == Spec => []CardShowsAnAttempt
<1>1. CertificationInv => CardShowsAnAttempt
  BY DEF CertificationInv
<1> QED BY <1>1, Inductive, PTL

(* Only an open attempt holds a card's row: a request that stopped never   *)
(* does.                                                                   *)
THEOREM LocksAreReleased == Spec => []LocksMatchAttempts
<1>1. CertificationInv => LocksMatchAttempts
  BY DEF CertificationInv
<1> QED BY <1>1, Inductive, PTL

(* Attempts and feed entries are numbered without a gap, although both     *)
(* numbers are taken from a read that locks nothing.                       *)
THEOREM NumbersHaveNoGap == Spec => []NumberedWithoutGaps
<1>1. CertificationInv => NumberedWithoutGaps
  BY DEF CertificationInv
<1> QED BY <1>1, Inductive, PTL

(* Whatever the feed reports is on record.                                 *)
THEOREM FeedIsTrue == Spec => []FeedTellsTheTruth
<1>1. CertificationInv => FeedTellsTheTruth
  BY DEF CertificationInv
<1> QED BY <1>1, Inductive, PTL

(* A session is certified only on a passed attempt or a waiver for every   *)
(* blocking card that the gate found.                                      *)
THEOREM CertificatesRestOnEvidence == Spec => []CertifiedOnEvidence
<1>1. CertificationInv => CertifiedOnEvidence
  BY DEF CertificationInv
<1> QED BY <1>1, Inductive, PTL
===============================================================================
