--------------------------- MODULE Epistemic_proofs ---------------------------
(***************************************************************************)
(* Proofs about Epistemic and its report for every set of processes,       *)
(* candidates, scores and bodies, and every bound on the histories.        *)
(***************************************************************************)
EXTENDS EpistemicReport, TLAPS

USE SentinelAssumption, BoundAssumption

-----------------------------------------------------------------------------
(* Types *)

\* A task of each shape has the fields its shape promises.
LEMMA TaskFields ==
  ASSUME NEW t \in Task
  PROVE  /\ t.op \in {"idle", "confidence", "supersession", "disposition"}
         /\ t.op = "confidence" => t \in ConfidenceTask
         /\ t.op = "supersession" => t \in SupersessionTask
         /\ t.op = "disposition" => t \in DispositionTask
  BY DEF Task, Idle, ConfidenceTask, SupersessionTask, DispositionTask

\* A record inserted anywhere leaves a history of records.
LEMMA InsertAtType ==
  ASSUME NEW h \in Seq(Disposition), NEW i \in 1..(Len(h) + 1), NEW r \in Disposition
  PROVE  InsertAt(h, i, r) \in Seq(Disposition)
<1>1. SubSeq(h, 1, i - 1) \in Seq(Disposition) /\ SubSeq(h, i, Len(h)) \in Seq(Disposition)
  OBVIOUS
<1>2. <<r>> \in Seq(Disposition)
  OBVIOUS
<1>3. SubSeq(h, 1, i - 1) \o <<r>> \in Seq(Disposition)
  BY <1>1, <1>2
<1> QED
  BY <1>1, <1>3 DEF InsertAt

\* A record inserted behind all others is appended.
LEMMA InsertAtEnd ==
  ASSUME NEW h \in Seq(Disposition), NEW r \in Disposition
  PROVE  /\ Len(InsertAt(h, Len(h) + 1, r)) = Len(h) + 1
         /\ InsertAt(h, Len(h) + 1, r)[Len(h) + 1] = r
         /\ \A i \in 1..Len(h) : InsertAt(h, Len(h) + 1, r)[i] = h[i]
<1>1. SubSeq(h, 1, (Len(h) + 1) - 1) = h
  OBVIOUS
<1>2. SubSeq(h, Len(h) + 1, Len(h)) = <<>>
  OBVIOUS
<1>3. InsertAt(h, Len(h) + 1, r) = h \o <<r>> \o <<>>
  BY <1>1, <1>2 DEF InsertAt
<1>4. h \o <<r>> \in Seq(Disposition) /\ h \o <<r>> \o <<>> = h \o <<r>>
  OBVIOUS
<1> QED
  BY <1>3, <1>4

\* A status derived from a typed history is a status.
LEMMA StatusType ==
  ASSUME TypeOK, NEW c \in CandidateId
  PROVE  Latest(c) \in Target /\ EpistemicStatus(c) \in Status
<1>1. CASE history[c] = <<>>
  BY <1>1 DEF Latest, Target, EpistemicStatus, Status
<1>2. CASE history[c] # <<>>
  <2>1. history[c][Len(history[c])] \in Disposition
    BY <1>2 DEF TypeOK
  <2>2. Latest(c) = history[c][Len(history[c])].target
    BY <1>2 DEF Latest, Last
  <2> QED
    BY <2>1, <2>2 DEF Disposition, EpistemicStatus, Status
<1> QED
  BY <1>1, <1>2

LEMMA TypeInit == Init => TypeOK
  BY DEF Init, TypeOK, Task

LEMMA TypeStep == TypeOK /\ [Next]_vars => TypeOK'
<1> SUFFICES ASSUME TypeOK, [Next]_vars PROVE TypeOK'
  OBVIOUS
<1> USE DEF TypeOK
<1>1. ASSUME NEW w \in Worker, NEW c \in CandidateId, Accept(w, c) \/ Promote(w, c)
      PROVE  TypeOK'
  BY <1>1 DEF Accept, Promote, records
<1>2. ASSUME NEW w \in Worker, NEW c \in CandidateId, NEW s \in Score, ConfidenceRead(w, c, s)
      PROVE  TypeOK'
  BY <1>2 DEF ConfidenceRead, records, Task, ConfidenceTask
<1>3. ASSUME NEW w \in Worker, ConfidenceCommit(w)
      PROVE  TypeOK'
  <2>1. task[w] \in ConfidenceTask
    BY <1>3, TaskFields DEF ConfidenceCommit
  <2> QED
    BY <1>3, <2>1 DEF ConfidenceCommit, InsertConfidence, ConfidenceTask, Task
<1>4. ASSUME NEW w \in Worker, NEW c \in CandidateId, NEW d \in CandidateId,
             SupersessionRead(w, c, d)
      PROVE  TypeOK'
  BY <1>4 DEF SupersessionRead, records, Task, SupersessionTask
<1>5. ASSUME NEW w \in Worker, SupersessionCommit(w)
      PROVE  TypeOK'
  <2>1. task[w] \in SupersessionTask
    BY <1>5, TaskFields DEF SupersessionCommit
  <2> QED
    BY <1>5, <2>1 DEF SupersessionCommit, SupersessionTask, Task
<1>6. ASSUME NEW w \in Worker, NEW c \in CandidateId, NEW target \in Target,
             DispositionRead(w, c, target)
      PROVE  TypeOK'
  <2>1. [prior |-> EpistemicStatus(c), target |-> target] \in Disposition
    BY StatusType DEF Disposition
  <2>2. Len(history[c]) \in Nat
    OBVIOUS
  <2> QED
    BY <1>6, <2>1, <2>2 DEF DispositionRead, records, Task, DispositionTask
<1>7. ASSUME NEW w \in Worker, DispositionCommit(w)
      PROVE  TypeOK'
  <2>1. task[w] \in DispositionTask
    BY <1>7, TaskFields DEF DispositionCommit
  <2>2. PICK c \in CandidateId, r \in Disposition, n \in Nat :
          c = task[w].candidate /\ r = task[w].record /\ n = task[w].seen
    BY <2>1 DEF DispositionTask
  <2>3. PICK i \in (n + 1)..(Len(history[c]) + 1) :
          history' = [history EXCEPT ![c] = InsertAt(@, i, r)]
    BY <1>7, <2>2 DEF DispositionCommit
  <2>4. InsertAt(history[c], i, r) \in Seq(Disposition)
    BY <2>3, InsertAtType
  <2> QED
    BY <1>7, <2>3, <2>4 DEF DispositionCommit, Task
<1>8. ASSUME NEW w \in Worker, Abandon(w)
      PROVE  TypeOK'
  BY <1>8 DEF Abandon, records, Task
<1>9. CASE UNCHANGED vars
  BY <1>9 DEF vars
<1> QED
  BY <1>1, <1>2, <1>3, <1>4, <1>5, <1>6, <1>7, <1>8, <1>9 DEF Next, Step

\* Tables and calls keep their types.
THEOREM TypeCorrect == Spec => []TypeOK
<1> QED
  BY TypeInit, TypeStep, PTL DEF Spec

-----------------------------------------------------------------------------
(* Overlapping calls *)

LEMMA SoundInit == Init => Sound
  BY TypeInit DEF Init, Sound, Idle

\* Acceptance is never taken back, so what a call has seen of it stays true.
LEMMA SoundStep == Sound /\ [Next]_vars => Sound'
<1> SUFFICES ASSUME Sound, [Next]_vars PROVE Sound'
  OBVIOUS
<1>t. TypeOK'
  BY TypeStep DEF Sound
<1> USE DEF Sound, TypeOK
<1>1. ASSUME NEW w \in Worker, NEW c \in CandidateId, Accept(w, c) \/ Promote(w, c)
      PROVE  Sound'
  BY <1>1, <1>t DEF Accept, Promote, records
<1>2. ASSUME NEW w \in Worker, NEW c \in CandidateId, NEW s \in Score, ConfidenceRead(w, c, s)
      PROVE  Sound'
  BY <1>2, <1>t DEF ConfidenceRead, records
<1>3. ASSUME NEW w \in Worker, ConfidenceCommit(w)
      PROVE  Sound'
  BY <1>3, <1>t DEF ConfidenceCommit, InsertConfidence, Idle
<1>4. ASSUME NEW w \in Worker, NEW c \in CandidateId, NEW d \in CandidateId,
             SupersessionRead(w, c, d)
      PROVE  Sound'
  BY <1>4, <1>t DEF SupersessionRead, records
<1>5. ASSUME NEW w \in Worker, SupersessionCommit(w)
      PROVE  Sound'
  BY <1>5, <1>t DEF SupersessionCommit, Idle
<1>6. ASSUME NEW w \in Worker, NEW c \in CandidateId, NEW target \in Target,
             DispositionRead(w, c, target)
      PROVE  Sound'
  BY <1>6, <1>t DEF DispositionRead, records
<1>7. ASSUME NEW w \in Worker, DispositionCommit(w)
      PROVE  Sound'
  BY <1>7, <1>t DEF DispositionCommit, Idle
<1>8. ASSUME NEW w \in Worker, Abandon(w)
      PROVE  Sound'
  BY <1>8, <1>t DEF Abandon, records, Idle
<1>9. CASE UNCHANGED vars
  BY <1>9 DEF vars
<1> QED
  BY <1>1, <1>2, <1>3, <1>4, <1>5, <1>6, <1>7, <1>8, <1>9 DEF Next, Step

\* What a step may not do to an assessment or a supersession.
KeepsWritten ==
  \A c \in CandidateId :
    /\ confidence[c] # NoScore => confidence'[c] = confidence[c]
    /\ superseded[c] # NoCandidate => superseded'[c] = superseded[c]

LEMMA WrittenStep == Sound /\ [Next]_vars => KeepsWritten
<1> SUFFICES ASSUME Sound, [Next]_vars PROVE KeepsWritten
  OBVIOUS
<1> USE DEF Sound, TypeOK, KeepsWritten
<1>1. ASSUME NEW w \in Worker, ConfidenceCommit(w)
      PROVE  KeepsWritten
  BY <1>1 DEF ConfidenceCommit, InsertConfidence
<1>2. ASSUME NEW w \in Worker, SupersessionCommit(w)
      PROVE  KeepsWritten
  BY <1>2 DEF SupersessionCommit
<1>3. CASE UNCHANGED <<confidence, superseded>>
  BY <1>3
<1> QED
  BY <1>1, <1>2, <1>3 DEF Next, Step, vars, records, Accept, Promote, ConfidenceRead,
     SupersessionRead, DispositionRead, DispositionCommit, Abandon

\* Assessments and supersessions are written once and for accepted candidates
\* only, whoever overlaps whom.
THEOREM RecordsAreWrittenOnce == Spec => WrittenOnce
<1>1. Spec => []Sound
  BY SoundInit, SoundStep, PTL DEF Spec
<1>2. Sound /\ [Next]_vars => [KeepsWritten]_vars
  BY WrittenStep
<1>3. Sound => \A c \in CandidateId :
                 /\ confidence[c] # NoScore => c \in accepted
                 /\ superseded[c] # NoCandidate => {c, superseded[c]} \subseteq accepted
  BY DEF Sound
<1> QED
  BY <1>1, <1>2, <1>3, PTL DEF Spec, WrittenOnce, KeepsWritten

-----------------------------------------------------------------------------
(* One call at a time *)

LEMMA SerialInit == Init => SerialInv
<1> SUFFICES ASSUME Init PROVE SerialInv
  OBVIOUS
<1>1. NoSupersessionCycle
  <2> SUFFICES ASSUME NEW S \in (SUBSET CandidateId) \ {{}}
               PROVE  \E c \in S : superseded[c] \notin S
    BY DEF NoSupersessionCycle
  <2>1. PICK c \in S : TRUE
    OBVIOUS
  <2>2. superseded[c] = NoCandidate /\ NoCandidate \notin S
    BY DEF Init
  <2> QED
    BY <2>1, <2>2
<1>2. HistoryIsWalk
  BY DEF Init, HistoryIsWalk
<1> QED
  BY <1>1, <1>2, TypeInit DEF SerialInv, Init, ReadIsCurrent, Idle

\* A replacement that is superseded by nothing leads out of every set it is in,
\* so superseding one more candidate by it closes no circle.
LEMMA NewSupersession ==
  ASSUME TypeOK, NoSupersessionCycle, NEW p \in CandidateId, NEW r \in CandidateId,
         ReplacementAllowed(p, r), superseded' = [superseded EXCEPT ![p] = r]
  PROVE  NoSupersessionCycle'
<1> SUFFICES ASSUME NEW S \in (SUBSET CandidateId) \ {{}}
             PROVE  \E c \in S : superseded'[c] \notin S
  BY DEF NoSupersessionCycle
<1>1. CASE r \in S
  BY <1>1 DEF ReplacementAllowed, TypeOK
<1>2. CASE r \notin S /\ p \in S
  BY <1>2 DEF TypeOK
<1>3. CASE p \notin S
  <2>1. PICK c \in S : superseded[c] \notin S
    BY DEF NoSupersessionCycle
  <2> QED
    BY <1>3, <2>1 DEF TypeOK
<1> QED
  BY <1>1, <1>2, <1>3

\* The last record of a walk says what the status was derived from, and no
\* transition leaves a retraction.
LEMMA NextRecord ==
  ASSUME TypeOK, HistoryIsWalk, NEW c \in CandidateId, NEW r \in Disposition,
         r.prior = EpistemicStatus(c), r.target \in AllowedTransitions(r.prior),
         history' = [history EXCEPT ![c] = InsertAt(@, Len(@) + 1, r)]
  PROVE  HistoryIsWalk'
<1> DEFINE h == history[c]
           n == Len(history[c])
<1>1. h \in Seq(Disposition) /\ n \in Nat /\ DOMAIN h = 1..n
  BY DEF TypeOK
<1>2. PICK g \in Seq(Disposition) :
        /\ g = InsertAt(h, n + 1, r)
        /\ Len(g) = n + 1
        /\ g[n + 1] = r
        /\ \A i \in 1..n : g[i] = h[i]
  <2>1. Len(h) + 1 \in 1..(Len(h) + 1)
    BY <1>1
  <2>2. InsertAt(h, Len(h) + 1, r) \in Seq(Disposition)
    BY <1>1, <2>1, InsertAtType
  <2>3. /\ Len(InsertAt(h, Len(h) + 1, r)) = Len(h) + 1
        /\ InsertAt(h, Len(h) + 1, r)[Len(h) + 1] = r
        /\ \A i \in 1..Len(h) : InsertAt(h, Len(h) + 1, r)[i] = h[i]
    BY <1>1, InsertAtEnd
  <2> QED
    BY <2>2, <2>3
<1>3. history'[c] = g /\ \A d \in CandidateId \ {c} : history'[d] = history[d]
  BY <1>2 DEF TypeOK
<1>4. r.prior \in {"active", "weakened"} /\ r.prior = Latest(c)
  BY StatusType DEF AllowedTransitions, EpistemicStatus, Target
<1>5. n = 0 => r.prior = "active"
  BY <1>1, <1>4 DEF Latest
<1>6. n > 0 => r.prior = h[n].target
  BY <1>1, <1>4 DEF Latest, Last
<1> HIDE DEF h, n
<1>7. /\ n > 0 => h[1].prior = "active"
      /\ \A i \in 1..n : /\ i > 1 => h[i].prior = h[i - 1].target
                         /\ h[i].prior \in {"active", "weakened"}
                         /\ h[i].target = "retracted" => i = n
  <2>1. n > 0 => h # <<>>
    BY <1>1
  <2> QED
    BY <1>1, <2>1 DEF HistoryIsWalk, h, n
<1>8. DOMAIN g = 1..(n + 1) /\ g # <<>>
  BY <1>1, <1>2
<1>9. g[1].prior = "active"
  BY <1>1, <1>2, <1>5, <1>7
<1>10. ASSUME NEW i \in 1..(n + 1)
       PROVE  /\ i > 1 => g[i].prior = g[i - 1].target
              /\ g[i].prior \in {"active", "weakened"}
              /\ g[i].target = "retracted" => i = n + 1
  <2>1. CASE i = n + 1
    <3>1. i > 1 => g[i - 1] = h[n] /\ n > 0
      BY <1>1, <1>2, <2>1
    <3> QED
      BY <1>2, <1>4, <1>6, <2>1, <3>1
  <2>2. CASE i \in 1..n
    <3>1. g[i] = h[i] /\ (i > 1 => g[i - 1] = h[i - 1])
      BY <1>1, <1>2, <2>2
    <3>2. h[i].target # "retracted"
      <4>1. CASE i = n
        BY <1>4, <1>6, <2>2, <4>1
      <4>2. CASE i # n
        BY <1>7, <2>2, <4>2
      <4> QED
        BY <4>1, <4>2
    <3> QED
      BY <1>7, <2>2, <3>1, <3>2
  <2> QED
    BY <1>1, <2>1, <2>2
<1> QED
  BY <1>2, <1>3, <1>8, <1>9, <1>10 DEF HistoryIsWalk

\* Every step of the one process keeps the invariant.
LEMMA SerialStep == Serial /\ SerialInv /\ [Next]_vars => SerialInv'
<1> SUFFICES ASSUME Serial, SerialInv, [Next]_vars PROVE SerialInv'
  OBVIOUS
<1>t. TypeOK /\ TypeOK'
  BY TypeStep DEF SerialInv
<1>i. ReadIsCurrent(Idle)'
  BY DEF ReadIsCurrent, Idle
<1>1. ASSUME NEW w \in Worker, NEW c \in CandidateId, Accept(w, c) \/ Promote(w, c)
      PROVE  SerialInv'
  <2>1. task' = task /\ \A v \in Worker : task[v] = Idle
    BY <1>1 DEF Serial, Accept, Promote
  <2>2. NoSupersessionCycle' /\ HistoryIsWalk'
    <3>1. UNCHANGED <<superseded, history>>
      BY <1>1 DEF Accept, Promote, records
    <3> QED
      BY <3>1 DEF SerialInv, NoSupersessionCycle, HistoryIsWalk
  <2> QED
    BY <1>t, <1>i, <2>1, <2>2 DEF SerialInv, ReadIsCurrent, Idle
<1>2. ASSUME NEW w \in Worker, NEW c \in CandidateId, NEW s \in Score, ConfidenceRead(w, c, s)
      PROVE  SerialInv'
  <2>1. \A v \in Worker : task'[v] = [op |-> "confidence", candidate |-> c, score |-> s]
    BY <1>2, <1>t DEF Serial, ConfidenceRead, TypeOK
  <2>2. NoSupersessionCycle' /\ HistoryIsWalk'
    BY <1>2 DEF ConfidenceRead, records, SerialInv, NoSupersessionCycle, HistoryIsWalk
  <2> QED
    BY <1>t, <2>1, <2>2 DEF SerialInv, ReadIsCurrent
<1>3. ASSUME NEW w \in Worker, ConfidenceCommit(w)
      PROVE  SerialInv'
  <2>1. \A v \in Worker : task'[v] = Idle
    BY <1>3, <1>t DEF Serial, ConfidenceCommit, TypeOK
  <2>2. NoSupersessionCycle' /\ HistoryIsWalk'
    BY <1>3 DEF ConfidenceCommit, SerialInv, NoSupersessionCycle, HistoryIsWalk
  <2> QED
    BY <1>t, <2>1, <2>2 DEF SerialInv, ReadIsCurrent, Idle
<1>4. ASSUME NEW w \in Worker, NEW c \in CandidateId, NEW d \in CandidateId,
             SupersessionRead(w, c, d)
      PROVE  SerialInv'
  <2>1. \A v \in Worker :
          task'[v] = [op |-> "supersession", candidate |-> c, replacement |-> d]
    BY <1>4, <1>t DEF Serial, SupersessionRead, TypeOK
  <2>2. NoSupersessionCycle' /\ HistoryIsWalk' /\ ReplacementAllowed(c, d)'
    BY <1>4 DEF SupersessionRead, records, SerialInv, NoSupersessionCycle, HistoryIsWalk,
       ReplacementAllowed
  <2> QED
    BY <1>t, <2>1, <2>2 DEF SerialInv, ReadIsCurrent
<1>5. ASSUME NEW w \in Worker, SupersessionCommit(w)
      PROVE  SerialInv'
  <2>1. \A v \in Worker : task'[v] = Idle
    BY <1>5, <1>t DEF Serial, SupersessionCommit, TypeOK
  <2>2. task[w] \in SupersessionTask /\ ReadIsCurrent(task[w])
    BY <1>5, <1>t, TaskFields DEF SupersessionCommit, SerialInv, TypeOK
  <2>3. PICK p \in CandidateId, r \in CandidateId :
          p = task[w].candidate /\ r = task[w].replacement
    BY <2>2 DEF SupersessionTask
  <2>4. ReplacementAllowed(p, r)
    BY <1>5, <2>2, <2>3 DEF SupersessionCommit, ReadIsCurrent
  <2>5. NoSupersessionCycle'
    BY <1>5, <1>t, <2>3, <2>4, NewSupersession DEF SupersessionCommit, SerialInv
  <2>6. HistoryIsWalk'
    BY <1>5 DEF SupersessionCommit, SerialInv, HistoryIsWalk
  <2> QED
    BY <1>t, <2>1, <2>5, <2>6 DEF SerialInv, ReadIsCurrent, Idle
<1>6. ASSUME NEW w \in Worker, NEW c \in CandidateId, NEW target \in Target,
             DispositionRead(w, c, target)
      PROVE  SerialInv'
  <2>1. PICK st \in Status, n \in Nat : st = EpistemicStatus(c) /\ n = Len(history[c])
    BY <1>t, StatusType DEF TypeOK
  <2>2. \A v \in Worker :
          task'[v] = [op |-> "disposition", candidate |-> c,
                      record |-> [prior |-> st, target |-> target], seen |-> n]
    BY <1>6, <1>t, <2>1 DEF Serial, DispositionRead, TypeOK
  <2>3. EpistemicStatus(c)' = st /\ Len(history'[c]) = n /\ target \in AllowedTransitions(st)
    BY <1>6, <2>1 DEF DispositionRead, records, EpistemicStatus, SupersededInGraph, Latest
  <2>4. NoSupersessionCycle' /\ HistoryIsWalk'
    BY <1>6 DEF DispositionRead, records, SerialInv, NoSupersessionCycle, HistoryIsWalk
  <2> QED
    BY <1>t, <2>2, <2>3, <2>4 DEF SerialInv, ReadIsCurrent
<1>7. ASSUME NEW w \in Worker, DispositionCommit(w)
      PROVE  SerialInv'
  <2>1. \A v \in Worker : task'[v] = Idle
    BY <1>7, <1>t DEF Serial, DispositionCommit, TypeOK
  <2>2. task[w] \in DispositionTask /\ ReadIsCurrent(task[w])
    BY <1>7, <1>t, TaskFields DEF DispositionCommit, SerialInv, TypeOK
  <2>3. PICK c \in CandidateId, r \in Disposition, n \in Nat :
          c = task[w].candidate /\ r = task[w].record /\ n = task[w].seen
    BY <2>2 DEF DispositionTask
  <2>4. /\ r.prior = EpistemicStatus(c)
        /\ r.target \in AllowedTransitions(r.prior)
        /\ n = Len(history[c])
    BY <1>7, <2>2, <2>3 DEF DispositionCommit, ReadIsCurrent
  <2>5. history' = [history EXCEPT ![c] = InsertAt(@, Len(@) + 1, r)]
    <3>1. PICK i \in (n + 1)..(Len(history[c]) + 1) :
            history' = [history EXCEPT ![c] = InsertAt(@, i, r)]
      BY <1>7, <2>3 DEF DispositionCommit
    <3>2. i = Len(history[c]) + 1
      BY <2>4, <3>1
    <3> QED
      BY <3>1, <3>2
  <2>6. HistoryIsWalk'
    BY <1>t, <2>4, <2>5, NextRecord DEF SerialInv
  <2>7. NoSupersessionCycle'
    BY <1>7 DEF DispositionCommit, SerialInv, NoSupersessionCycle
  <2> QED
    BY <1>t, <2>1, <2>6, <2>7 DEF SerialInv, ReadIsCurrent, Idle
<1>8. ASSUME NEW w \in Worker, Abandon(w)
      PROVE  SerialInv'
  <2>1. \A v \in Worker : task'[v] = Idle
    BY <1>8, <1>t DEF Serial, Abandon, TypeOK
  <2>2. NoSupersessionCycle' /\ HistoryIsWalk'
    BY <1>8 DEF Abandon, records, SerialInv, NoSupersessionCycle, HistoryIsWalk
  <2> QED
    BY <1>t, <2>1, <2>2 DEF SerialInv, ReadIsCurrent, Idle
<1>9. CASE UNCHANGED vars
  BY <1>9, <1>t DEF vars, SerialInv, NoSupersessionCycle, HistoryIsWalk, ReadIsCurrent,
     ReplacementAllowed, EpistemicStatus, SupersededInGraph, Latest
<1> QED
  BY <1>1, <1>2, <1>3, <1>4, <1>5, <1>6, <1>7, <1>8, <1>9 DEF Next, Step

\* One process at a time, whatever it calls and however often it is killed,
\* never supersedes candidates in a circle.
THEOREM SerialForest == Serial => (Spec => []NoSupersessionCycle)
<1> SUFFICES ASSUME Serial PROVE Spec => []NoSupersessionCycle
  OBVIOUS
<1>1. SerialInv /\ [Next]_vars => SerialInv'
  BY SerialStep
<1>2. SerialInv => NoSupersessionCycle
  BY DEF SerialInv
<1> QED
  BY <1>1, <1>2, SerialInit, PTL DEF Spec

\* One process at a time writes disposition histories that are walks over the
\* allowed transitions, with nothing after a retraction.
THEOREM SerialWalk == Serial => (Spec => []HistoryIsWalk)
<1> SUFFICES ASSUME Serial PROVE Spec => []HistoryIsWalk
  OBVIOUS
<1>1. SerialInv /\ [Next]_vars => SerialInv'
  BY SerialStep
<1>2. SerialInv => HistoryIsWalk
  BY DEF SerialInv
<1> QED
  BY <1>1, <1>2, SerialInit, PTL DEF Spec
-----------------------------------------------------------------------------
(* Terminal statuses *)

\* What a step may not do to a retracted or a superseded assertion.
KeepsTerminal ==
  \A c \in CandidateId :
    EpistemicStatus(c) \in {"retracted", "superseded"} => EpistemicStatus(c)' = EpistemicStatus(c)

\* A status is that of its history and its replacement; what leaves both alone
\* leaves it alone.
LEMMA TerminalStep == Serial /\ SerialInv /\ [Next]_vars => KeepsTerminal
<1> SUFFICES ASSUME Serial, SerialInv, [Next]_vars,
                    NEW c \in CandidateId, EpistemicStatus(c) \in {"retracted", "superseded"}
             PROVE  EpistemicStatus(c)' = EpistemicStatus(c)
  BY DEF KeepsTerminal
<1>t. TypeOK
  BY DEF SerialInv
<1> USE DEF EpistemicStatus, SupersededInGraph, Latest
<1>1. ASSUME NEW w \in Worker, NEW d \in CandidateId, Accept(w, d) \/ Promote(w, d)
      PROVE  EpistemicStatus(c)' = EpistemicStatus(c)
  <2>1. UNCHANGED <<superseded, history>> /\ promoted \subseteq promoted'
    BY <1>1 DEF Accept, Promote, records
  <2> QED
    BY <2>1
<1>2. ASSUME NEW w \in Worker, SupersessionCommit(w)
      PROVE  EpistemicStatus(c)' = EpistemicStatus(c)
  <2>1. UNCHANGED <<promoted, history>>
    BY <1>2 DEF SupersessionCommit
  <2>2. superseded[c] # NoCandidate => superseded'[c] = superseded[c]
    BY <1>2, <1>t DEF SupersessionCommit, TypeOK
  <2> QED
    BY <2>1, <2>2
<1>3. ASSUME NEW w \in Worker, DispositionCommit(w)
      PROVE  EpistemicStatus(c)' = EpistemicStatus(c)
  <2>1. ReadIsCurrent(task[w]) /\ task[w] \in DispositionTask
    BY <1>3, <1>t, TaskFields DEF SerialInv, DispositionCommit, TypeOK
  <2>2. task[w].record.target \in AllowedTransitions(EpistemicStatus(task[w].candidate))
    BY <1>3, <2>1 DEF DispositionCommit, ReadIsCurrent
  <2>3. task[w].candidate # c
    BY <2>2 DEF AllowedTransitions
  <2>4. history'[c] = history[c] /\ UNCHANGED <<promoted, superseded>>
    BY <1>3, <1>t, <2>3 DEF DispositionCommit, TypeOK
  <2> QED
    BY <2>4
<1>4. CASE UNCHANGED <<promoted, superseded, history>>
  BY <1>4
<1> QED
  BY <1>1, <1>2, <1>3, <1>4 DEF Next, Step, vars, records, ConfidenceRead, ConfidenceCommit,
     SupersessionRead, DispositionRead, Abandon

\* With one call at a time, a retracted assertion stays retracted and a
\* superseded one superseded (_build_assertion_snapshot).
THEOREM SerialTerminal == Serial => (Spec => TerminalStaysTerminal)
<1> SUFFICES ASSUME Serial PROVE Spec => TerminalStaysTerminal
  OBVIOUS
<1>1. SerialInv /\ [Next]_vars => SerialInv'
  BY SerialStep
<1>2. SerialInv /\ [Next]_vars => [KeepsTerminal]_vars
  BY TerminalStep
<1> QED
  BY <1>1, <1>2, SerialInit, PTL DEF Spec, TerminalStaysTerminal, KeepsTerminal

-----------------------------------------------------------------------------
(* The report: what it relates stood when it began, however many calls, made
   one at a time, overtake it. *)

\* The report knows a status, or that there is none to know.
ReportTypeOK ==
  /\ current \in CandidateId \cup {NoCandidate}
  /\ status \in [CandidateId -> Status \cup {"listed", "unlisted"}]

\* What the report has still to read, or has read to stand, stood when it
\* began; of the assertion in hand that is so unless it turns out replaced.
StoodSoFar ==
  \A c \in CandidateId :
    /\ status[c] = "listed" /\ EpistemicStatus(c) \in Standing => c \in stood
    /\ status[c] \in Standing => c \in stood \/ (c = current /\ SupersededInGraph(c))

ReportInv == SerialInv /\ ReportTypeOK /\ StoodSoFar

\* The status the report derives is the one the service derives.
LEMMA StatusOfLatest ==
  ASSUME NEW c \in CandidateId
  PROVE  EpistemicStatus(c) = StatusOf(c, Latest(c))
  BY DEF EpistemicStatus, StatusOf

\* Everything a report relates is among what it takes to stand.
LEMMA RelatedAmong ==
  ASSUME NEW S, NEW body
  PROVE  UNION Related(S, body) \subseteq S
<1>1. UNION CorroborationGroups(S, body) \subseteq S
  BY DEF CorroborationGroups
<1>2. UNION Tensions(S, body) \subseteq S
  BY DEF Tensions, Rivals, kSubset
<1> QED
  BY <1>1, <1>2 DEF Related

\* A replacement in the graph stays one.
LEMMA ReplacedForGood ==
  ASSUME TypeOK, [Next]_vars, NEW c \in CandidateId, SupersededInGraph(c)
  PROVE  SupersededInGraph(c)'
<1> USE DEF SupersededInGraph
<1>1. promoted \subseteq promoted'
  BY DEF Next, Step, vars, records, Accept, Promote, ConfidenceRead, ConfidenceCommit,
     SupersessionRead, SupersessionCommit, DispositionRead, DispositionCommit, Abandon
<1>2. superseded'[c] = superseded[c]
  <2>1. ASSUME NEW w \in Worker, SupersessionCommit(w)
        PROVE  superseded'[c] = superseded[c]
    BY <2>1 DEF SupersessionCommit, TypeOK
  <2>2. CASE UNCHANGED superseded
    BY <2>2
  <2> QED
    BY <2>1, <2>2 DEF Next, Step, vars, records, Accept, Promote, ConfidenceRead,
       ConfidenceCommit, SupersessionRead, DispositionRead, DispositionCommit, Abandon
<1> QED
  BY <1>1, <1>2

LEMMA ReportInvInit == ReportInit => ReportInv
  BY SerialInit DEF ReportInit, ReportInv, ReportTypeOK, StoodSoFar, Unlisted, Standing

\* A call of another process: what stands after it stood before it.
LEMMA ReportOvertaken ==
  ASSUME Serial, ReportInv, [Next]_vars, UNCHANGED reportVars
  PROVE  ReportInv'
<1>1. SerialInv' /\ TypeOK /\ TypeOK'
  BY SerialStep, TypeStep DEF ReportInv, SerialInv
<1>2. ReportTypeOK'
  BY DEF ReportInv, ReportTypeOK, reportVars
<1>3. ASSUME NEW c \in CandidateId, EpistemicStatus(c)' \in Standing
      PROVE  EpistemicStatus(c) \in Standing
  <2>1. EpistemicStatus(c) \in Status
    BY <1>1, StatusType
  <2>2. EpistemicStatus(c) \notin {"retracted", "superseded"}
    BY <1>3, TerminalStep DEF ReportInv, KeepsTerminal, Standing
  <2> QED
    BY <2>1, <2>2 DEF Status, Target, Standing
<1>4. StoodSoFar'
  <2> SUFFICES ASSUME NEW c \in CandidateId
               PROVE  /\ status[c] = "listed" /\ EpistemicStatus(c)' \in Standing => c \in stood
                      /\ status[c] \in Standing =>
                           c \in stood \/ (c = current /\ SupersededInGraph(c)')
    BY DEF StoodSoFar, reportVars
  <2> QED
    BY <1>1, <1>3, ReplacedForGood DEF ReportInv, StoodSoFar
<1> QED
  BY <1>1, <1>2, <1>4 DEF ReportInv

LEMMA ReportReads ==
  ASSUME Serial, ReportInv, ReportStep
  PROVE  ReportInv'
<1>1. UNCHANGED vars
  BY DEF ReportStep, ListAssertions, ReadDispositions, ReadSupersession, ReturnReport
<1>2. SerialInv' /\ TypeOK
  BY <1>1, SerialStep DEF ReportInv, SerialInv
<1>3. \A c \in CandidateId : /\ EpistemicStatus(c)' = EpistemicStatus(c)
                             /\ SupersededInGraph(c)' = SupersededInGraph(c)
  BY <1>1 DEF vars, EpistemicStatus, SupersededInGraph, Latest
<1>4. CASE ListAssertions
  <2>1. ReportTypeOK'
    BY <1>4 DEF ListAssertions, ReportInv, ReportTypeOK
  <2>2. \A c \in CandidateId :
          /\ status'[c] = "listed" /\ EpistemicStatus(c) \in Standing => c \in stood'
          /\ status'[c] \notin Standing
    BY <1>4 DEF ListAssertions, Standing
  <2> QED
    BY <1>2, <1>3, <2>1, <2>2 DEF ReportInv, StoodSoFar
<1>5. ASSUME NEW c \in CandidateId, ReadDispositions(c)
      PROVE  ReportInv'
  <2>1. /\ Latest(c) \in Target /\ Target \subseteq Status
        /\ status' = [status EXCEPT ![c] = Latest(c)] /\ current' = c
        /\ status[c] = "listed" /\ current = NoCandidate /\ stood' = stood
    BY <1>2, <1>5, StatusType DEF ReadDispositions, Status
  <2>2. ReportTypeOK'
    BY <2>1 DEF ReportInv, ReportTypeOK
  <2>3. Latest(c) \in Standing /\ ~SupersededInGraph(c) => c \in stood
    <3>1. Latest(c) \in Standing /\ ~SupersededInGraph(c) => EpistemicStatus(c) \in Standing
      BY DEF EpistemicStatus, Standing
    <3> QED
      BY <2>1, <3>1 DEF ReportInv, StoodSoFar
  <2>4. status'[c] = Latest(c) /\ \A d \in CandidateId : d # c => status'[d] = status[d]
    BY <2>1 DEF ReportInv, ReportTypeOK
  <2>5. Latest(c) # "listed"
    BY <2>1 DEF Target
  <2>6. StoodSoFar'
    <3> SUFFICES ASSUME NEW d \in CandidateId
                 PROVE  /\ status'[d] = "listed" /\ EpistemicStatus(d) \in Standing => d \in stood
                        /\ status'[d] \in Standing =>
                             d \in stood \/ (d = c /\ SupersededInGraph(d))
      BY <1>3, <2>1 DEF StoodSoFar
    <3>1. CASE d = c
      BY <2>3, <2>4, <2>5, <3>1
    <3>2. CASE d # c
      BY <2>1, <2>4, <3>2, SentinelAssumption DEF ReportInv, StoodSoFar
    <3> QED
      BY <3>1, <3>2
  <2> QED
    BY <1>2, <2>2, <2>6 DEF ReportInv
<1>6. CASE ReadSupersession
  <2>1. /\ current \in CandidateId /\ current' = NoCandidate /\ stood' = stood
        /\ status' = [status EXCEPT ![current] = StatusOf(current, @)]
    BY <1>6 DEF ReadSupersession, ReportInv, ReportTypeOK
  <2>2. StatusOf(current, status[current]) \in {status[current], "superseded"}
    BY DEF StatusOf
  <2>3. ReportTypeOK'
    BY <2>1, <2>2 DEF ReportInv, ReportTypeOK, Status
  <2>4. /\ status'[current] = StatusOf(current, status[current])
        /\ \A d \in CandidateId : d # current => status'[d] = status[d]
    BY <2>1 DEF ReportInv, ReportTypeOK
  <2>5. StatusOf(current, status[current]) \in Standing =>
          status[current] \in Standing /\ ~SupersededInGraph(current)
    BY DEF StatusOf, Standing
  <2>6. StoodSoFar'
    <3> SUFFICES ASSUME NEW d \in CandidateId
                 PROVE  /\ status'[d] = "listed" /\ EpistemicStatus(d) \in Standing => d \in stood
                        /\ status'[d] \in Standing => d \in stood
      BY <1>3, <2>1 DEF StoodSoFar
    <3>1. CASE d = current
      <4>1. status'[d] = "listed" => status[d] = "listed"
        BY <2>2, <2>4, <3>1
      <4>2. status'[d] \in Standing => status[d] \in Standing /\ ~SupersededInGraph(d)
        BY <2>4, <2>5, <3>1
      <4> QED
        BY <4>1, <4>2 DEF ReportInv, StoodSoFar
    <3>2. CASE d # current
      BY <2>4, <3>2 DEF ReportInv, StoodSoFar
    <3> QED
      BY <3>1, <3>2
  <2> QED
    BY <1>2, <2>3, <2>6 DEF ReportInv
<1>7. CASE ReturnReport
  <2>1. ReportTypeOK' /\ \A c \in CandidateId : status'[c] = "unlisted"
    BY <1>7 DEF ReturnReport, ReportInv, ReportTypeOK, Unlisted
  <2> QED
    BY <1>2, <2>1 DEF ReportInv, StoodSoFar, Standing
<1> QED
  BY <1>4, <1>5, <1>6, <1>7 DEF ReportStep

\* With writing calls made one at a time, a report relates only assertions that
\* stood together when it began (build_promoted_assertion_collection_report).
THEOREM ReportRelatesWhatStood == Serial => (ReportSpec => []RelatedStoodTogether)
<1> SUFFICES ASSUME Serial PROVE ReportSpec => []RelatedStoodTogether
  OBVIOUS
<1>1. ReportInv /\ [ReportNext]_<<vars, reportVars>> => ReportInv'
  <2> SUFFICES ASSUME ReportInv, [ReportNext]_<<vars, reportVars>> PROVE ReportInv'
    OBVIOUS
  <2>1. CASE ReportStep
    BY <2>1, ReportReads
  <2>2. CASE [Next]_vars /\ UNCHANGED reportVars
    BY <2>2, ReportOvertaken
  <2> QED
    BY <2>1, <2>2 DEF ReportNext
<1>2. ReportInv => RelatedStoodTogether
  <2> SUFFICES ASSUME ReportInv, ReadToEnd, NEW body \in Bodies
               PROVE  UNION Related(Eligible, body) \subseteq stood
    BY DEF RelatedStoodTogether
  <2>1. Eligible \subseteq stood
    BY SentinelAssumption DEF Eligible, ReportInv, StoodSoFar, ReadToEnd
  <2> QED
    BY <2>1, RelatedAmong
<1> QED
  BY <1>1, <1>2, ReportInvInit, PTL DEF ReportSpec
=============================================================================
