------------------------- MODULE SessionPageProofs -------------------------
(***************************************************************************)
(* Theorems of SessionPage: a page shows the session it is at, in what it  *)
(* streams too unless submissions cross, one poll or timer drives its      *)
(* reconnection, a run that goes on when a page is opened is followed      *)
(* until it is over, and a view that settles is whole, for any sessions,   *)
(* runs, navigations, submissions, interruptions and failures.             *)
(*                                                                         *)
(* What a request read is never undone: runs only grow, and one that is    *)
(* over is left alone (RunsStep).  So whatever the page shows or has asked for  *)
(* while a run is open shows that run open (SeenOpen), and no poll that    *)
(* says otherwise can put the reconnection to rest.                        *)
(***************************************************************************)
EXTENDS SessionPage, WellFoundedInduction, TLAPS

-----------------------------------------------------------------------------
(* The inductive invariant. *)

(* What the page shows and what requests carry, beside TypeOK. *)
PageTypes ==
  /\ canonicalTranscript \in [session : Sessions \cup {""}, runs : Seq(SUBSET InTranscript)]
  /\ inspector \in [session : Sessions \cup {""}, run : Nat,
                    status : {"none", "running", "complete"}]

Active == reconnectionState \notin {"dormant", "failed-unobservable"}

(* Nothing happens on a page before the first navigation. *)
Opened ==
  /\ visits > 0 => shown \in Sessions
  /\ visits = 0 => submissions = {} /\ booting = {} /\ requests = {} /\ ~Active
  /\ \A r \in requests : r.session \in Sessions

(* A poll is of the session shown, and wants both answers; the attempts of an active
   reconnection are below their bounds. *)
Polled ==
  /\ poll # NoPoll => /\ poll.why = "poll" /\ poll.session = shown
                      /\ poll.wants = {"transcript", "inspector"}
  /\ Active => unobservableAttempts < MaxUnobservable /\ settlementAttempts < MaxSettlement

(* The inspector has answered when its last read is done. *)
Read(r) == "inspector" \in r.got <=> r.look.at = "done"

AnswersAreRead == \A r \in requests \cup {poll} : Read(r)

(* The runs of a session follow one another. *)
OneAfterTheOther ==
  \A s \in Sessions : \A i, j \in DOMAIN db[s] : i < j /\ db[s][j].n > 0 => Over(db[s][i])

(* What a poll read of an ended run is all of it. *)
PollIsTrue ==
  \A i \in DOMAIN poll.transcript : "ended" \in poll.transcript[i] =>
    /\ i \in DOMAIN db[shown] /\ Ended(db[shown][i])
    /\ poll.transcript[i] = TranscriptOf(shown)[i]

(* A transcript in which a run is open. *)
ShowsOpen(transcript, run) ==
  /\ run \in DOMAIN transcript
  /\ "started" \in transcript[run] /\ "ended" \notin transcript[run]

(* A request that will show the run as open. *)
ReadsOpen(r, run) ==
  /\ "transcript" \in r.got => ShowsOpen(r.transcript, run)
  /\ r.look.at # "list" => r.look.run = run

(* While the run the page owes goes on, all the page has or will get of its session shows
   it open. *)
Owed == owed # 0 /\ ~Over(db[shown][owed])

SeenOpen ==
  /\ owed # 0 => /\ shown \in Sessions /\ owed \in DOMAIN db[shown] /\ db[shown][owed].n > 0
  /\ Owed =>
       /\ \A r \in requests \cup {poll} : r.session = shown => ReadsOpen(r, owed)
       /\ canonicalTranscript.runs = <<>> \/ ShowsOpen(canonicalTranscript.runs, owed)
       /\ inspector.run \in {0, owed}

(* The page of the last navigation loads its session, or the reconnection has been started. *)
Bootstrapped ==
  /\ \A boot \in booting : boot.visit = visits => boot.session = shown
  /\ Owed /\ (\A boot \in booting : boot.visit # visits) => reconnectionState # "dormant"

(* Unless submissions cross, the one that may still stream or fail is alone, of the session
   shown, and its stream is the one that is aborted. *)
OneSubmission ==
  ~crossing =>
    \A s \in submissions :
      s.at # "loading" => /\ submissions = {s} /\ s.session = shown
                          /\ s.at = "streaming" => abortController = s.id

PageInv ==
  /\ TypeOK /\ PageTypes /\ Opened /\ Polled /\ AnswersAreRead /\ OneAfterTheOther
  /\ ShownSessionOnly /\ OneSubmission /\ ReconnectionDriven /\ PollIsTrue /\ SeenOpen /\ Bootstrapped

-----------------------------------------------------------------------------
(* Lemmas about runs and rows. *)

Runs == [script : Scripts, n : Nat, stopped : BOOLEAN]

(* The database, with its type. *)
DbOK ==
  /\ db \in [Sessions -> Seq(Runs)]
  /\ \A s \in Sessions : \A i \in DOMAIN db[s] : db[s][i].n <= Len(db[s][i].script)

(* The bounds one by one. *)
LEMMA Bounds ==
  /\ MaxVisits \in Nat /\ MaxSubmissions \in Nat /\ MaxMoves \in Nat
  /\ MaxUnobservable \in Nat \ {0} /\ MaxHandoff \in Nat \ {0} /\ MaxSettlement \in Nat \ {0}
BY PageAssumption

(* What scripts are. *)
LEMMA ScriptFacts ==
  ASSUME NEW script \in Scripts
  PROVE  /\ script \in Seq(Writes) /\ Len(script) \in Nat /\ Len(script) >= 3
         /\ script[1] = "started" /\ DOMAIN script = 1..Len(script)
         /\ \A i \in 1..Len(script) : script[i] \in Writes
         /\ \A i \in 1..Len(script) : script[i] = "ended" <=> i = Len(script)
BY PageAssumption

(* A run has written its row with its first row of all, and its last event last of all. *)
LEMMA WrittenFacts ==
  ASSUME NEW run \in Runs, run.n <= Len(run.script)
  PROVE  /\ Written(run) \subseteq Writes
         /\ "started" \in Written(run) <=> run.n > 0
         /\ "ended" \in Written(run) <=> Ended(run)
<1>1. run.script \in Scripts /\ run.n \in Nat
  BY DEF Runs
<1>2. /\ Len(run.script) \in Nat /\ Len(run.script) >= 3 /\ run.script[1] = "started"
      /\ \A i \in 1..Len(run.script) : run.script[i] \in Writes
      /\ \A i \in 1..Len(run.script) : run.script[i] = "ended" <=> i = Len(run.script)
  BY <1>1, ScriptFacts
<1>3. Written(run) \subseteq Writes
  BY <1>1, <1>2 DEF Written
<1>4. "started" \in Written(run) <=> run.n > 0
  BY <1>1, <1>2 DEF Written
<1>5. "ended" \in Written(run) <=> Ended(run)
  BY <1>1, <1>2 DEF Written, Ended
<1> QED BY <1>3, <1>4, <1>5

(* A set of numbers has a least. *)
LEMMA LeastExists ==
  ASSUME NEW S \in SUBSET Nat, S # {}
  PROVE  \E x \in S : \A y \in S : x <= y
<1>1. \E x \in S : \A y \in S : <<y, x>> \notin OpToRel(<, Nat)
  BY NatLessThanWellFounded, WFMin, Zenon
<1>2. PICK x \in S : \A y \in S : ~(y < x)
  BY <1>1 DEF OpToRel
<1>3. x \in S /\ \A y \in S : x <= y
  BY <1>2
<1> QED BY <1>3

(* A set of numbers up to a bound has a greatest. *)
LEMMA GreatestExists ==
  ASSUME NEW b \in Nat, NEW S \in SUBSET (0..b), S # {}
  PROVE  \E x \in S : \A y \in S : y <= x
<1> DEFINE T == {y \in 0..b : b - y \in S}
<1>1. T # {}
  <2>1. PICK x \in S : TRUE
    OBVIOUS
  <2>2. b - x \in T
    BY <2>1
  <2> QED BY <2>2
<1>2. PICK y \in T : \A z \in T : y <= z
  <2>1. T \in SUBSET Nat
    OBVIOUS
  <2> HIDE DEF T
  <2> QED BY <1>1, <2>1, LeastExists
<1>3. b - y \in S
  OBVIOUS
<1>4. ASSUME NEW x \in S PROVE x <= b - y
  <2>1. b - x \in T
    OBVIOUS
  <2>2. y <= b - x
    BY <1>2, <2>1
  <2> QED BY <2>2
<1> QED BY <1>3, <1>4

(* The rows of a session have a latest. *)
LEMMA LatestRun ==
  ASSUME DbOK, NEW s \in Sessions, Rows(s) # {}
  PROVE  /\ LatestRunId(s) \in Rows(s) /\ LatestRunId(s) \in Nat
         /\ \A j \in Rows(s) : j <= LatestRunId(s)
<1>1. DOMAIN db[s] = 1..Len(db[s]) /\ Len(db[s]) \in Nat
  BY DEF DbOK
<1>2. Rows(s) \in SUBSET (0..Len(db[s]))
  BY <1>1 DEF Rows
<1>3. \E i \in Rows(s) : \A j \in Rows(s) : j <= i
  BY <1>1, <1>2, GreatestExists
<1>4. LatestRunId(s) \in Rows(s) /\ \A j \in Rows(s) : j <= LatestRunId(s)
  BY <1>3 DEF LatestRunId
<1> QED BY <1>2, <1>4

(* What the first answer to a request for a transcript is. *)
LEMMA TranscriptFacts ==
  ASSUME DbOK, NEW s \in Sessions
  PROVE  /\ TranscriptOf(s) \in Seq(SUBSET InTranscript)
         /\ DOMAIN TranscriptOf(s) = DOMAIN db[s]
         /\ \A i \in DOMAIN db[s] :
              /\ TranscriptOf(s)[i] = Written(db[s][i]) \cap InTranscript
              /\ "started" \in TranscriptOf(s)[i] <=> db[s][i].n > 0
              /\ "ended" \in TranscriptOf(s)[i] <=> Ended(db[s][i])
<1>1. db[s] \in Seq(Runs) /\ DOMAIN db[s] = 1..Len(db[s]) /\ Len(db[s]) \in Nat
  BY DEF DbOK
<1>2. TranscriptOf(s) = [i \in 1..Len(db[s]) |-> Written(db[s][i]) \cap InTranscript]
  BY <1>1 DEF TranscriptOf
<1>3. TranscriptOf(s) \in Seq(SUBSET InTranscript)
  BY <1>1, <1>2
<1>4. ASSUME NEW i \in DOMAIN db[s]
      PROVE  /\ TranscriptOf(s)[i] = Written(db[s][i]) \cap InTranscript
             /\ "started" \in TranscriptOf(s)[i] <=> db[s][i].n > 0
             /\ "ended" \in TranscriptOf(s)[i] <=> Ended(db[s][i])
  <2>1. db[s][i] \in Runs /\ db[s][i].n <= Len(db[s][i].script)
    BY <1>1, <1>4 DEF DbOK
  <2>2. TranscriptOf(s)[i] = Written(db[s][i]) \cap InTranscript
    BY <1>1, <1>2, <1>4
  <2> QED BY <2>1, <2>2, WrittenFacts DEF InTranscript, Writes
<1> QED BY <1>1, <1>2, <1>3, <1>4

-----------------------------------------------------------------------------
(* Lemmas about requests and their answers. *)

Looks == [at : {"list", "row", "done"}, run : Nat, status : {"none", "running", "complete"}]

(* A look goes on. *)
LEMMA LookFacts ==
  ASSUME DbOK, NEW s \in Sessions, NEW look \in Looks, look.at # "done"
  PROVE  /\ Look(look, s) \in Looks
         /\ Look(look, s).at # "list"
         /\ look.at # "list" => Look(look, s).run = look.run
         /\ look.at = "list" =>
              Look(look, s).run = IF Rows(s) = {} THEN look.run ELSE LatestRunId(s)
<1>1. CASE look.at = "list" /\ Rows(s) = {}
  <2>1. Look(look, s) = [look EXCEPT !.at = "done"]
    BY <1>1 DEF Look
  <2> QED BY <1>1, <2>1 DEF Looks
<1>2. CASE look.at = "list" /\ Rows(s) # {}
  <2>1. Look(look, s) = [look EXCEPT !.at = "row", !.run = LatestRunId(s)]
    BY <1>2 DEF Look
  <2> QED BY <1>2, <2>1, LatestRun DEF Looks
<1>3. CASE look.at = "row"
  <2>1. Look(look, s) = [look EXCEPT !.at = "done", !.status = Status(Written(db[s][look.run]))]
    BY <1>3 DEF Look
  <2>2. Status(Written(db[s][look.run])) \in {"running", "complete"}
    BY DEF Status
  <2> QED BY <1>3, <2>1, <2>2 DEF Looks
<1> QED BY <1>1, <1>2, <1>3 DEF Looks

(* What one answer more leaves alone, and what it adds: the transcript as it is, or the
   next of the reads of the inspector. *)
LEMMA GotFacts ==
  ASSUME DbOK, NEW r \in Requests, r.session \in Sessions, Read(r), NEW next \in Got(r)
  PROVE  /\ next \in Requests /\ Read(next)
         /\ next.why = r.why /\ next.of = r.of /\ next.session = r.session
         /\ next.wants = r.wants
         /\ \/ /\ next.transcript = TranscriptOf(r.session)
               /\ next.look = r.look
            \/ /\ next.transcript = r.transcript
               /\ "transcript" \in next.got <=> "transcript" \in r.got
               /\ r.look.at # "done" /\ next.look = Look(r.look, r.session)
<1> DEFINE missing == r.wants \ r.got
           looked == Look(r.look, r.session)
<1> USE DEF Requests, Read
<1>1. CASE "transcript" \in missing /\ next = [r EXCEPT !.got = @ \cup {"transcript"},
                                                        !.transcript = TranscriptOf(r.session)]
  <2>1. TranscriptOf(r.session) \in Seq(SUBSET InTranscript)
    BY TranscriptFacts
  <2> QED BY <1>1, <2>1
<1>2. CASE "inspector" \in missing /\
           next = [r EXCEPT !.look = looked,
                            !.got = IF looked.at = "done" THEN @ \cup {"inspector"} ELSE @]
  <2>1. r.look \in Looks
    BY DEF Looks
  <2>2. r.look.at # "done"
    BY <1>2
  <2>3. looked \in Looks /\ looked.at # "list"
    BY <2>1, <2>2, LookFacts
  <2> HIDE DEF looked
  <2>4. next.look = looked /\ next.got \in SUBSET {"transcript", "inspector"}
    BY <1>2
  <2> QED BY <1>2, <2>2, <2>3, <2>4 DEF Looks, looked
<1> QED BY <1>1, <1>2 DEF Got

-----------------------------------------------------------------------------
(* What a step may do to the runs, the requests, the poll and the page. *)

(* Runs only grow, and one that is over is left alone. *)
RunsStep ==
  \A s \in Sessions :
    /\ DOMAIN db[s] \subseteq DOMAIN db'[s]
    /\ \A i \in DOMAIN db[s] :
         /\ db'[s][i].script = db[s][i].script /\ db[s][i].n <= db'[s][i].n
         /\ Over(db[s][i]) => db'[s][i] = db[s][i]

Whys == {"none", "boot", "submission", "after", "poll"}

(* A request that nothing has answered yet. *)
Fresh(r, session) ==
  \E why \in Whys, of \in Nat, wants \in SUBSET {"transcript", "inspector"} :
    r = Request(why, of, wants, session)

(* Requests get an answer more, and new ones are of the session then shown. *)
RequestsStep ==
  \A r \in requests' :
    \/ r \in requests
    \/ \E q \in requests : r \in Got(q)
    \/ shown' \in Sessions /\ Fresh(r, shown')

(* So does the poll, and a new one is of the session shown. *)
PollStep ==
  \/ poll' = NoPoll
  \/ shown' = shown /\ poll' = poll
  \/ shown' = shown /\ poll' \in Got(poll)
  \/ shown' = shown /\ poll' = Poll(shown)

(* The page shows nothing of a session just opened, and else what it showed or what a
   request of its session got. *)
PageStep ==
  \/ /\ shown' \in Sessions
     /\ canonicalTranscript' = TranscriptFor(shown', <<>>)
     /\ inspector' = InspectorFor(shown', Unlooked)
  \/ /\ shown' = shown
     /\ \/ canonicalTranscript' = canonicalTranscript
        \/ \E r \in requests \cup {poll} :
             /\ r.session = shown /\ "transcript" \in r.got
             /\ canonicalTranscript' = TranscriptFor(shown, r.transcript)
     /\ \/ inspector' = inspector
        \/ \E r \in requests \cup {poll} :
             /\ r.session = shown /\ "inspector" \in r.got
             /\ inspector' = InspectorFor(shown, r.look)

(* The runs have their types. *)
LEMMA DbFromType == TypeOK => DbOK
BY DEF TypeOK, DbOK, Runs

(* So does each of them. *)
LEMMA RunTypes ==
  ASSUME DbOK, NEW s \in Sessions, NEW i \in DOMAIN db[s]
  PROVE  db[s][i] \in Runs /\ db[s][i].n \in Nat
<1>1. db[s] \in Seq(Runs)
  BY DEF DbOK
<1>2. db[s][i] \in Runs
  BY <1>1
<1> QED BY <1>2 DEF Runs

(* A turn that is queued has written nothing. *)
LEMMA QueuedFacts ==
  ASSUME DbOK, NEW session \in Sessions, Queued(session)
  PROVE  /\ DbOK' /\ RunsStep
         /\ OneAfterTheOther => OneAfterTheOther'
<1>1. PICK script \in Scripts :
        db' = [db EXCEPT ![session] = Append(@, [script |-> script, n |-> 0, stopped |-> FALSE])]
  BY DEF Queued
<1>2. [script |-> script, n |-> 0, stopped |-> FALSE] \in Runs
  BY DEF Runs
<1>3. /\ db[session] \in Seq(Runs) /\ Len(db[session]) \in Nat
      /\ DOMAIN db[session] = 1..Len(db[session])
  BY DEF DbOK
<1>4. /\ db'[session] \in Seq(Runs) /\ Len(db'[session]) = Len(db[session]) + 1
      /\ DOMAIN db'[session] = 1..(Len(db[session]) + 1)
      /\ \A i \in DOMAIN db[session] : db'[session][i] = db[session][i]
      /\ db'[session][Len(db[session]) + 1] = [script |-> script, n |-> 0, stopped |-> FALSE]
  BY <1>1, <1>2, <1>3 DEF DbOK
<1>5. \A s \in Sessions \ {session} : db'[s] = db[s]
  BY <1>1 DEF DbOK
<1>6. db' \in [Sessions -> Seq(Runs)]
  BY <1>1, <1>4, <1>5 DEF DbOK
<1>7. ASSUME NEW s \in Sessions, NEW i \in DOMAIN db'[s]
      PROVE  db'[s][i].n <= Len(db'[s][i].script)
  <2>1. CASE s = session /\ i = Len(db[session]) + 1
    BY <1>4, <2>1, ScriptFacts
  <2>2. CASE ~(s = session /\ i = Len(db[session]) + 1)
    <3>1. i \in DOMAIN db[s] /\ db'[s][i] = db[s][i]
      BY <1>3, <1>4, <1>5, <1>7, <2>2
    <3> QED BY <3>1 DEF DbOK
  <2> QED BY <2>1, <2>2
<1>8. DbOK'
  BY <1>6, <1>7 DEF DbOK
<1>9. RunsStep
  <2> SUFFICES ASSUME NEW s \in Sessions
               PROVE  /\ DOMAIN db[s] \subseteq DOMAIN db'[s]
                      /\ \A i \in DOMAIN db[s] : db'[s][i] = db[s][i]
    <3>1. \A s \in Sessions : \A i \in DOMAIN db[s] : db[s][i].n \in Nat
      BY RunTypes
    <3> QED BY <3>1 DEF RunsStep
  <2>1. CASE s = session
    BY <1>3, <1>4, <2>1
  <2>2. CASE s # session
    BY <1>5, <2>2
  <2> QED BY <2>1, <2>2
<1>10. ASSUME OneAfterTheOther PROVE OneAfterTheOther'
  <2> SUFFICES ASSUME NEW s \in Sessions, NEW i \in DOMAIN db'[s], NEW j \in DOMAIN db'[s],
                      i < j, db'[s][j].n > 0
               PROVE  Over(db'[s][i])
    BY DEF OneAfterTheOther, Over, Ended
  <2>1. CASE s = session
    <3>1. j # Len(db[session]) + 1
      BY <1>4, <2>1
    <3>2. i \in DOMAIN db[s] /\ j \in DOMAIN db[s]
      BY <1>3, <1>4, <2>1, <3>1
    <3> QED BY <1>4, <1>10, <2>1, <3>2 DEF OneAfterTheOther
  <2>2. CASE s # session
    BY <1>5, <1>10, <2>2 DEF OneAfterTheOther
  <2> QED BY <2>1, <2>2
<1> QED BY <1>8, <1>9, <1>10

(* The run that is going on is the first that is not over. *)
LEMMA CurrentFacts ==
  ASSUME DbOK, NEW session \in Sessions, Unfinished(session) # {}
  PROVE  /\ Current(session) \in DOMAIN db[session]
         /\ ~Over(db[session][Current(session)])
         /\ \A i \in DOMAIN db[session] : i < Current(session) => Over(db[session][i])
<1>1. DOMAIN db[session] = 1..Len(db[session]) /\ Len(db[session]) \in Nat
  BY DEF DbOK
<1>2. Unfinished(session) \in SUBSET Nat
  BY <1>1 DEF Unfinished
<1>3. \E i \in Unfinished(session) : \A j \in Unfinished(session) : i <= j
  BY <1>2, LeastExists
<1>4. /\ Current(session) \in Unfinished(session)
      /\ \A j \in Unfinished(session) : Current(session) <= j
  BY <1>3 DEF Current
<1>5. ASSUME NEW i \in DOMAIN db[session], i < Current(session) PROVE Over(db[session][i])
  <2>1. i \notin Unfinished(session)
    BY <1>1, <1>2, <1>4, <1>5
  <2> QED BY <2>1 DEF Unfinished
<1> QED BY <1>4, <1>5 DEF Unfinished

(* It writes, or stops. *)
LEMMA RunGrowsFacts ==
  ASSUME DbOK, NEW session \in Sessions, RunWrites(session) \/ RunStops(session)
  PROVE  /\ DbOK' /\ RunsStep
         /\ OneAfterTheOther => OneAfterTheOther'
<1> DEFINE w == Current(session)
           grown == IF RunWrites(session) THEN [db[session][w] EXCEPT !.n = @ + 1]
                    ELSE [db[session][w] EXCEPT !.stopped = TRUE]
<1>1. \/ RunWrites(session) /\ db' = [db EXCEPT ![session][w].n = @ + 1]
      \/ ~RunWrites(session) /\ db' = [db EXCEPT ![session][w].stopped = TRUE]
  BY DEF RunWrites, RunStops
<1>2. /\ db[session] \in Seq(Runs) /\ Len(db[session]) \in Nat
      /\ DOMAIN db[session] = 1..Len(db[session])
  BY DEF DbOK
<1>3. /\ w \in DOMAIN db[session] /\ ~Over(db[session][w])
      /\ \A i \in DOMAIN db[session] : i < w => Over(db[session][i])
  BY CurrentFacts DEF RunWrites, RunStops
<1> HIDE DEF w
<1>4. /\ db[session][w] \in Runs /\ db[session][w].n <= Len(db[session][w].script)
      /\ db[session][w].n # Len(db[session][w].script)
  BY <1>2, <1>3 DEF DbOK, Over, Ended
<1>5. Len(db[session][w].script) \in Nat
  BY <1>4, ScriptFacts DEF Runs
<1>6. /\ grown \in Runs /\ db[session][w].n <= grown.n
      /\ grown.script = db[session][w].script /\ grown.n <= Len(grown.script)
  <2>1. CASE RunWrites(session)
    <3>1. grown = [db[session][w] EXCEPT !.n = @ + 1]
      BY <2>1
    <3>2. db[session][w].n + 1 \in Nat /\ db[session][w].n + 1 <= Len(db[session][w].script)
      BY <1>4, <1>5 DEF Runs
    <3>3. grown \in Runs /\ grown.n = db[session][w].n + 1 /\ grown.script = db[session][w].script
      BY <1>4, <3>1, <3>2 DEF Runs
    <3>4. db[session][w].n <= db[session][w].n + 1
      BY <1>4 DEF Runs
    <3> QED BY <3>2, <3>3, <3>4
  <2>2. CASE ~RunWrites(session)
    <3>1. grown = [db[session][w] EXCEPT !.stopped = TRUE]
      BY <2>2
    <3>2. grown \in Runs /\ grown.n = db[session][w].n /\ grown.script = db[session][w].script
      BY <1>4, <3>1 DEF Runs
    <3>3. db[session][w].n <= db[session][w].n
      BY <1>4 DEF Runs
    <3> QED BY <1>4, <3>2, <3>3
  <2> QED BY <2>1, <2>2
<1>7. db' = [db EXCEPT ![session] = [@ EXCEPT ![w] = grown]]
  BY <1>1, <1>3, <1>4 DEF Runs, DbOK
<1> HIDE DEF grown
<1>8. /\ db'[session] \in Seq(Runs) /\ DOMAIN db'[session] = DOMAIN db[session]
      /\ \A i \in DOMAIN db[session] \ {w} : db'[session][i] = db[session][i]
      /\ db'[session][w] = grown
  BY <1>2, <1>3, <1>6, <1>7 DEF DbOK
<1>9. \A s \in Sessions \ {session} : db'[s] = db[s]
  BY <1>7 DEF DbOK
<1>10. DbOK'
  <2>1. db' \in [Sessions -> Seq(Runs)]
    BY <1>7, <1>8, <1>9 DEF DbOK
  <2>2. ASSUME NEW s \in Sessions, NEW i \in DOMAIN db'[s]
        PROVE  db'[s][i].n <= Len(db'[s][i].script)
    <3>1. CASE s = session /\ i = w
      BY <1>6, <1>8, <3>1
    <3>2. CASE s = session /\ i # w
      BY <1>8, <2>2, <3>2 DEF DbOK
    <3>3. CASE s # session
      BY <1>9, <2>2, <3>3 DEF DbOK
    <3> QED BY <3>1, <3>2, <3>3
  <2> QED BY <2>1, <2>2 DEF DbOK
<1>11. RunsStep
  <2> SUFFICES ASSUME NEW s \in Sessions
               PROVE  /\ DOMAIN db[s] \subseteq DOMAIN db'[s]
                      /\ \A i \in DOMAIN db[s] :
                           /\ db'[s][i].script = db[s][i].script /\ db[s][i].n <= db'[s][i].n
                           /\ Over(db[s][i]) => db'[s][i] = db[s][i]
    BY DEF RunsStep
  <2>1. \A i \in DOMAIN db[s] : db[s][i].n \in Nat
    BY RunTypes
  <2>2. CASE s = session
    BY <1>3, <1>4, <1>6, <1>8, <2>1, <2>2
  <2>3. CASE s # session
    BY <1>9, <2>1, <2>3
  <2> QED BY <2>2, <2>3
<1>12. ASSUME OneAfterTheOther PROVE OneAfterTheOther'
  <2> SUFFICES ASSUME NEW s \in Sessions, NEW i \in DOMAIN db'[s], NEW j \in DOMAIN db'[s],
                      i < j, db'[s][j].n > 0
               PROVE  Over(db'[s][i])
    BY DEF OneAfterTheOther, Over, Ended
  <2>1. CASE s = session /\ j = w
    <3>1. i \in DOMAIN db[session] /\ i # w /\ i < w
      BY <1>2, <1>3, <1>8, <2>1
    <3> QED BY <1>3, <1>8, <2>1, <3>1
  <2>2. CASE s = session /\ j # w
    <3>1. Over(db[session][i])
      BY <1>8, <1>12, <2>2 DEF OneAfterTheOther
    <3>2. i # w /\ i \in DOMAIN db[session]
      BY <1>3, <1>8, <2>2, <3>1
    <3> QED BY <1>8, <2>2, <3>1, <3>2
  <2>3. CASE s # session
    BY <1>9, <1>12, <2>3 DEF OneAfterTheOther
  <2> QED BY <2>1, <2>2, <2>3
<1> QED BY <1>10, <1>11, <1>12

(* Parts of the invariant that are often needed. *)
LEMMA PageFacts ==
  ASSUME PageInv
  PROVE  /\ visits \in Nat /\ sent \in Nat /\ DbOK /\ OneAfterTheOther
         /\ \A s \in submissions : s.id \in Nat /\ s.id <= sent /\ s.session \in Sessions
         /\ submissions # {} \/ requests # {} \/ booting # {} \/ Active => shown \in Sessions
         /\ \A r \in requests : r \in Requests /\ r.session \in Sessions /\ Read(r)
<1>0. /\ visits \in 0..MaxVisits /\ sent \in 0..MaxSubmissions
      /\ \A s \in submissions : s.id \in 1..sent /\ s.session \in Sessions
  BY DEF PageInv, TypeOK
<1>1. visits \in Nat /\ sent \in Nat /\ DbOK /\ OneAfterTheOther
  BY <1>0, Bounds, DbFromType DEF PageInv
<1>2. \A s \in submissions : s.id \in Nat /\ s.id <= sent /\ s.session \in Sessions
  BY <1>0, <1>1
<1>3. submissions # {} \/ requests # {} \/ booting # {} \/ Active => shown \in Sessions
  BY <1>1 DEF PageInv, Opened
<1>4. \A r \in requests : r \in Requests /\ r.session \in Sessions /\ Read(r)
  BY DEF PageInv, TypeOK, Opened, AnswersAreRead
<1> QED BY <1>1, <1>2, <1>3, <1>4

(* What every step does. *)
Steps == DbOK' /\ OneAfterTheOther' /\ RunsStep /\ RequestsStep /\ PollStep /\ PageStep

(* A step that leaves the runs alone. *)
LEMMA RunsUnchanged ==
  ASSUME DbOK, OneAfterTheOther, db' = db
  PROVE  DbOK' /\ OneAfterTheOther' /\ RunsStep
<1>1. \A s \in Sessions : \A i \in DOMAIN db[s] : db[s][i].n <= db[s][i].n
  BY RunTypes
<1> QED BY <1>1 DEF DbOK, OneAfterTheOther, RunsStep

(* New requests are fresh. *)
LEMMA RequestIsFresh ==
  ASSUME NEW why \in Whys, NEW of \in Nat, NEW wants \in SUBSET {"transcript", "inspector"},
         NEW session
  PROVE  Fresh(Request(why, of, wants, session), session)
BY DEF Fresh

(* The steps of runs and of submissions that read nothing. *)
LEMMA RunSteps ==
  ASSUME PageInv, NEW s \in Sessions, RunBegins(s) \/ RunWrites(s) \/ RunStops(s)
  PROVE  Steps
<1>1. DbOK /\ OneAfterTheOther
  BY DbFromType DEF PageInv
<1>2. DbOK' /\ OneAfterTheOther' /\ RunsStep
  BY <1>1, QueuedFacts, RunGrowsFacts DEF RunBegins
<1>3. RequestsStep /\ PollStep /\ PageStep
  BY DEF RunBegins, RunWrites, RunStops, Elsewhere, reconnection, page, RequestsStep, PollStep, PageStep
<1> QED BY <1>2, <1>3 DEF Steps

(* Requests a navigation or the end of a stream makes are of the session shown. *)
LEMMA CloseFacts ==
  ASSUME PageInv, NEW ended \in SUBSET submissions, NEW session \in Sessions, NEW more,
         Close(ended, session, more), shown' = session, \A r \in more : Fresh(r, session)
  PROVE  RequestsStep
<1>1. \A s \in ended : s.id \in Nat
  BY PageFacts
<1>2. \A s \in ended : Fresh(Request("submission", s.id, {"transcript"}, session), session)
  BY <1>1, RequestIsFresh DEF Whys
<1> QED BY <1>2 DEF Close, RequestsStep

(* Navigations. *)
LEMMA NavigationSteps ==
  ASSUME PageInv, NEW s \in Sessions, VisitFresh(s) \/ Revisit(s)
  PROVE  Steps
<1>1. DbOK' /\ OneAfterTheOther' /\ RunsStep
  BY DbFromType, RunsUnchanged DEF PageInv, VisitFresh, Revisit, Visit
<1>2. PollStep /\ PageStep
  BY DEF VisitFresh, Revisit, Visit, stop, PollStep, PageStep
<1>3. RequestsStep
  <2>1. Streaming(abortController) \in SUBSET submissions
    BY DEF Streaming
  <2>2. CASE VisitFresh(s)
    BY <2>1, <2>2, CloseFacts DEF VisitFresh, Visit
  <2>3. CASE Revisit(s)
    <3>1. visits + 1 \in Nat
      BY PageFacts
    <3>2. Fresh(Request("boot", visits + 1, {"transcript"}, s), s)
      BY <3>1, RequestIsFresh DEF Whys
    <3> QED BY <2>1, <2>3, <3>2, CloseFacts DEF Revisit, Visit
  <2> QED BY <2>2, <2>3
<1> QED BY <1>1, <1>2, <1>3 DEF Steps

(* Submissions begin, or are interrupted. *)
LEMMA SubmitSteps ==
  ASSUME PageInv, Submit \/ Interrupt
  PROVE  Steps
<1>1. DbOK' /\ OneAfterTheOther' /\ RunsStep
  BY DbFromType, RunsUnchanged DEF PageInv, Submit, Interrupt
<1>2. PollStep /\ PageStep
  BY DEF Submit, Interrupt, page, reconnection, PollStep, PageStep
<1>3. RequestsStep
  <2>1. Streaming(abortController) \in SUBSET submissions
    BY DEF Streaming
  <2>2. CASE Interrupt
    <3>1. shown \in Sessions
      BY <2>1, <2>2, PageFacts DEF Interrupt
    <3> QED BY <2>1, <2>2, <3>1, CloseFacts DEF Interrupt
  <2>3. CASE Submit
    BY <2>3 DEF Submit, RequestsStep
  <2> QED BY <2>2, <2>3
<1> QED BY <1>1, <1>2, <1>3 DEF Steps

(* What a submission may do. *)
Submits(s) ==
  \/ Accept(s) \/ Frame(s) \/ StreamEnds(s) \/ ConnectFails(s)
  \/ SubmissionFails(s) \/ StreamBreaks(s) \/ Reloaded(s)

(* Submissions go on and end. *)
LEMMA SubmittingSteps ==
  ASSUME PageInv, NEW s \in submissions, Submits(s)
  PROVE  Steps
<1>1. DbOK /\ OneAfterTheOther /\ s.session \in Sessions /\ s.id \in Nat /\ shown \in Sessions
  BY PageFacts
<1>2. DbOK' /\ OneAfterTheOther' /\ RunsStep
  BY <1>1, QueuedFacts, RunsUnchanged
     DEF Submits, Accept, Frame, StreamEnds, ConnectFails,
     SubmissionFails, StreamBreaks, Caught, Reloaded, Finally
<1>3. Fresh(After, shown)
  BY RequestIsFresh DEF After, Whys
<1>4. PollStep
  BY DEF Submits, Accept, Frame, StreamEnds, ConnectFails,
     SubmissionFails, StreamBreaks, Caught, Reloaded, Finally, reconnection, PollStep
<1>5. CASE ~Reloaded(s)
  <2>1. PageStep
    BY <1>5 DEF Submits, Accept, Frame, StreamEnds, ConnectFails, SubmissionFails, StreamBreaks,
       Caught, Finally, page, PageStep
  <2>2. RequestsStep
    <3>1. CASE StreamEnds(s) \/ ConnectFails(s)
      BY <1>1, <3>1, CloseFacts DEF StreamEnds, ConnectFails
    <3>2. CASE Accept(s) \/ Frame(s) \/ SubmissionFails(s) \/ StreamBreaks(s)
      BY <1>1, <1>3, <3>2
         DEF Accept, Frame, SubmissionFails, StreamBreaks, Caught, Finally, RequestsStep
    <3> QED BY <1>5, <3>1, <3>2 DEF Submits
  <2> QED BY <1>2, <1>4, <2>1, <2>2 DEF Steps
<1>6. CASE Reloaded(s)
  <2>1. PICK request \in requests :
          /\ \/ Answered(request) /\ Loaded(request)
             \/ UNCHANGED page
          /\ Finally(s)
          /\ requests' = (requests \ {request}) \cup {After}
    BY <1>6 DEF Reloaded
  <2>2. RequestsStep
    BY <1>1, <1>3, <2>1 DEF Finally, RequestsStep
  <2>3. PageStep
    BY <2>1 DEF Finally, page, PageStep, Loaded, CurrentSession, Answered
  <2> QED BY <1>2, <1>4, <2>2, <2>3 DEF Steps
<1> QED BY <1>5, <1>6

(* The loads of the page. *)
LEMMA FollowIsFresh ==
  ASSUME PageInv, NEW request \in requests, NEW r \in Follow(request)
  PROVE  Fresh(r, shown) /\ shown \in Sessions
<1>1. request.why \in Whys /\ request.of \in Nat
  BY DEF PageInv, TypeOK, Requests, Whys
<1>2. r = Request(request.why, request.of, {"inspector"}, shown)
  BY DEF Follow
<1>3. shown \in Sessions
  BY PageFacts
<1> QED BY <1>1, <1>2, <1>3, RequestIsFresh

(* What was asked for is read, arrives or fails. *)
LEMMA LoadingSteps ==
  ASSUME PageInv, Loading
  PROVE  Steps
<1>1. DbOK' /\ OneAfterTheOther' /\ RunsStep
  BY DbFromType, RunsUnchanged DEF PageInv, Loading, RequestReads, Load, LoadFails, BootDone
<1>2. CASE RequestReads
  BY <1>1, <1>2 DEF RequestReads, page, reconnection, RequestsStep, PollStep, PageStep, Steps
<1>3. CASE Load
  <2>1. PICK request \in requests :
          /\ request.why # "submission" /\ Answered(request)
          /\ Loaded(request) /\ Done(request)
          /\ UNCHANGED <<db, shown, visits, submitting, booting, reconnection, owed>>
    BY <1>3 DEF Load
  <2>2. RequestsStep
    BY <2>1, FollowIsFresh DEF Done, RequestsStep
  <2>3. PageStep
    BY <2>1 DEF page, PageStep, Loaded, CurrentSession, Answered
  <2> QED BY <1>1, <2>1, <2>2, <2>3 DEF Steps, PollStep, reconnection
<1>4. CASE LoadFails
  <2>1. PICK request \in requests :
          /\ Done(request)
          /\ UNCHANGED <<db, shown, visits, submitting, page, booting, reconnection, owed>>
    BY <1>4 DEF LoadFails
  <2>2. RequestsStep
    BY <2>1, FollowIsFresh DEF Done, RequestsStep
  <2> QED BY <1>1, <2>1, <2>2 DEF Steps, PollStep, PageStep, page, reconnection
<1>5. CASE BootDone
  BY <1>1, <1>5 DEF BootDone, start, reconnection, page, RequestsStep, PollStep, PageStep, Steps
<1> QED BY <1>2, <1>3, <1>4, <1>5 DEF Loading

(* The reconnection. *)
LEMMA PollingSteps ==
  ASSUME PageInv, Polling
  PROVE  Steps
<1>1. DbOK' /\ OneAfterTheOther' /\ RunsStep
  BY DbFromType, RunsUnchanged
     DEF PageInv, Polling, PollReads, PollFails, AnotherRun, Settling, Handoff, Dormant, Observing,
         Settled, SameRun, applySnapshot, Timer
<1>2. RequestsStep
  BY DEF Polling, PollReads, PollFails, AnotherRun, Settling, Handoff, Dormant, Observing,
         Settled, SameRun, applySnapshot, Timer, RequestsStep
<1>3. PollStep
  BY DEF Polling, PollReads, PollFails, AnotherRun, Settling, Handoff, Dormant, Observing,
         Settled, SameRun, applySnapshot, Timer, PollStep, fail, stop, scheduleNext
<1>4. CASE PollReads \/ PollFails \/ Timer
  BY <1>1, <1>2, <1>3, <1>4 DEF PollReads, PollFails, Timer, page, PageStep, Steps
<1>5. CASE applySnapshot
  <2>1. poll.session = shown /\ poll.wants = {"transcript", "inspector"}
    BY <1>5 DEF applySnapshot, PageInv, Polled
  <2>2. PageStep
    BY <1>5, <2>1 DEF applySnapshot, Answered, PageStep
  <2> QED BY <1>1, <1>2, <1>3, <2>2 DEF Steps
<1> QED
  BY <1>4, <1>5
     DEF Polling, AnotherRun, Settling, Handoff, Dormant, Observing, Settled, SameRun

(* What Next may change. *)
LEMMA NextSteps == ASSUME PageInv, [Next]_vars PROVE Steps
<1>1. CASE UNCHANGED vars
  <2>1. DbOK' /\ OneAfterTheOther' /\ RunsStep
    BY <1>1, DbFromType, RunsUnchanged DEF PageInv, vars
  <2> QED BY <1>1, <2>1 DEF vars, page, reconnection, Steps, RequestsStep, PollStep, PageStep
<1>2. CASE Next
  BY <1>2, RunSteps, NavigationSteps, SubmitSteps, LoadingSteps, PollingSteps, SubmittingSteps
     DEF Next, User, Submitting, Breaking, Submits
<1> QED BY <1>1, <1>2

-----------------------------------------------------------------------------
(* The invariant is preserved. *)

(* A transcript of no run. *)
LEMMA EmptyTranscript == <<>> \in Seq(SUBSET InTranscript) /\ \A i \in DOMAIN <<>> : FALSE
OBVIOUS

(* An inspector that has not been read. *)
LEMMA UnlookedFacts ==
  Unlooked \in Looks /\ Unlooked.at = "list" /\ Unlooked.run = 0 /\ Unlooked.status = "none"
BY DEF Unlooked, Looks

(* What a new request is. *)
LEMMA FreshFacts ==
  ASSUME NEW session \in Sessions, NEW r, Fresh(r, session)
  PROVE  /\ r \in Requests /\ r.session = session /\ Read(r)
         /\ r.got = {} /\ r.transcript = <<>> /\ r.look = Unlooked
<1>1. PICK why \in Whys, of \in Nat, wants \in SUBSET {"transcript", "inspector"} :
        r = Request(why, of, wants, session)
  BY DEF Fresh
<1> QED BY <1>1, UnlookedFacts, EmptyTranscript DEF Request, Requests, Looks, Whys, Read

(* Requests have their types. *)
LEMMA RequestsNext ==
  ASSUME PageInv, RequestsStep
  PROVE  \A r \in requests' : r \in Requests /\ r.session \in Sessions /\ Read(r)
BY PageFacts, FreshFacts, GotFacts DEF RequestsStep

(* What is known of no poll and of a new one. *)
LEMMA NewPollFacts ==
  /\ NoPoll \in Requests /\ Read(NoPoll) /\ NoPoll.why = "none" /\ NoPoll.session = ""
  /\ NoPoll.got = {} /\ NoPoll.transcript = <<>> /\ NoPoll.look = Unlooked
  /\ Got(NoPoll) = {}
  /\ \A s \in Sessions :
       /\ Poll(s) \in Requests /\ Read(Poll(s)) /\ Poll(s) # NoPoll /\ Poll(s).why = "poll"
       /\ Poll(s).session = s /\ Poll(s).wants = {"transcript", "inspector"}
       /\ Poll(s).got = {} /\ Poll(s).transcript = <<>> /\ Poll(s).look = Unlooked
<1>1. /\ NoPoll \in Requests /\ Read(NoPoll) /\ NoPoll.why = "none" /\ NoPoll.session = ""
      /\ NoPoll.got = {} /\ NoPoll.transcript = <<>> /\ NoPoll.look = Unlooked /\ NoPoll.wants = {}
  BY UnlookedFacts, EmptyTranscript DEF NoPoll, Request, Requests, Looks, Read
<1>2. Got(NoPoll) = {}
  BY <1>1 DEF Got
<1>3. \A s \in Sessions :
       /\ Poll(s) \in Requests /\ Read(Poll(s)) /\ Poll(s).why = "poll"
       /\ Poll(s).session = s /\ Poll(s).wants = {"transcript", "inspector"}
       /\ Poll(s).got = {} /\ Poll(s).transcript = <<>> /\ Poll(s).look = Unlooked
  BY UnlookedFacts, EmptyTranscript DEF Poll, Request, Requests, Looks, Read
<1> QED BY <1>1, <1>2, <1>3

(* The poll is of the session shown. *)
PollOK ==
  /\ poll \in Requests /\ Read(poll)
  /\ poll # NoPoll => /\ poll.why = "poll" /\ poll.session = shown /\ shown \in Sessions
                      /\ poll.wants = {"transcript", "inspector"}

(* The poll is so in every state of the invariant. *)
LEMMA PollFacts == ASSUME PageInv PROVE PollOK
<1>1. poll \in Requests /\ Read(poll)
  BY DEF PageInv, TypeOK, AnswersAreRead
<1>2. ASSUME poll # NoPoll PROVE shown \in Sessions
  BY <1>2, PageFacts DEF PageInv, ReconnectionDriven, Active
<1> QED BY <1>1, <1>2 DEF PageInv, Polled, PollOK

(* A poll begins only where a session is shown. *)
LEMMA PollBegins ==
  ASSUME PageInv, [Next]_vars, poll' = Poll(shown), poll' # poll
  PROVE  shown \in Sessions
<1>1. CASE scheduled
  BY <1>1, PageFacts DEF PageInv, ReconnectionDriven, Active
<1>2. CASE booting # {}
  BY <1>2, PageFacts
<1>3. CASE poll # NoPoll
  BY <1>3, PollFacts DEF PollOK
<1>4. CASE ~scheduled /\ booting = {} /\ poll = NoPoll
  <2>1. Poll(shown) # NoPoll
    BY DEF Poll, NoPoll, Request
  <2>2. ~Polling \/ UNCHANGED poll
    BY <1>4, <2>1, NewPollFacts
       DEF Polling, PollReads, PollFails, AnotherRun, Settling, Handoff, Dormant,
           Observing, Settled, SameRun, applySnapshot, Timer
  <2> QED
    BY <1>4, <2>1, <2>2
       DEF Next, vars, reconnection, User, Loading, Submitting, Breaking,
           RunBegins, RunWrites, RunStops, Elsewhere, VisitFresh, Revisit, Visit, stop, Submit, Interrupt,
           RequestReads, Load, LoadFails, BootDone,
           Submits, Accept, Frame, StreamEnds, ConnectFails,
     SubmissionFails, StreamBreaks, Caught, Reloaded, Finally
<1> QED BY <1>1, <1>2, <1>3, <1>4

(* It stays so. *)
LEMMA PollNext == ASSUME PageInv, [Next]_vars, PollStep PROVE PollOK'
<1>1. CASE poll' = NoPoll
  BY <1>1, NewPollFacts DEF PollOK, Read
<1>2. CASE shown' = shown /\ poll' = poll
  BY <1>2, PollFacts DEF PollOK, Read
<1>3. CASE shown' = shown /\ poll' \in Got(poll)
  <2>1. poll # NoPoll
    BY <1>3, NewPollFacts
  <2>2. PollOK /\ DbOK
    BY PollFacts, PageFacts
  <2>3. /\ poll' \in Requests /\ Read(poll') /\ poll'.why = poll.why
        /\ poll'.session = poll.session /\ poll'.wants = poll.wants
    BY <1>3, <2>1, <2>2, GotFacts DEF PollOK
  <2> QED BY <1>3, <2>1, <2>2, <2>3 DEF PollOK, Read
<1>4. CASE shown' = shown /\ poll' = Poll(shown) /\ poll' # poll
  <2>1. shown \in Sessions
    BY <1>4, PollBegins
  <2> QED BY <1>4, <2>1, NewPollFacts DEF PollOK, Read
<1> QED BY <1>1, <1>2, <1>3, <1>4 DEF PollStep

(* What the page fetched is of its session. *)
OwnPage == canonicalTranscript.session = shown /\ inspector.session = shown

(* It stays so, with the types of what it shows. *)
LEMMA PageNext ==
  ASSUME PageInv, PageStep
  PROVE  PageTypes' /\ OwnPage'
<1>1. \A r \in requests \cup {poll} :
        /\ r.transcript \in Seq(SUBSET InTranscript)
        /\ r.look.run \in Nat /\ r.look.status \in {"none", "running", "complete"}
  BY DEF PageInv, TypeOK, Requests
<1>2. shown \in Sessions \cup {""} /\ PageTypes /\ OwnPage
  BY DEF PageInv, TypeOK, ShownSessionOnly, OwnPage
<1>3. CASE /\ shown' \in Sessions
           /\ canonicalTranscript' = TranscriptFor(shown', <<>>)
           /\ inspector' = InspectorFor(shown', Unlooked)
  BY <1>3, EmptyTranscript DEF TranscriptFor, InspectorFor, Unlooked, PageTypes, OwnPage
<1>4. CASE shown' = shown
  <2>1. /\ canonicalTranscript' \in [session : Sessions \cup {""}, runs : Seq(SUBSET InTranscript)]
        /\ canonicalTranscript'.session = shown'
    <3>1. CASE canonicalTranscript' = canonicalTranscript
      BY <1>2, <1>4, <3>1 DEF PageTypes, OwnPage
    <3>2. ASSUME NEW r \in requests \cup {poll},
                 canonicalTranscript' = TranscriptFor(shown, r.transcript)
          PROVE  /\ canonicalTranscript' \in [session : Sessions \cup {""},
                                              runs : Seq(SUBSET InTranscript)]
                 /\ canonicalTranscript'.session = shown'
      <4>1. r.transcript \in Seq(SUBSET InTranscript)
        BY <1>1
      <4> QED BY <1>2, <1>4, <3>2, <4>1 DEF TranscriptFor
    <3>3. CASE shown' \in Sessions /\ canonicalTranscript' = TranscriptFor(shown', <<>>)
      BY <3>3, EmptyTranscript DEF TranscriptFor
    <3> QED BY <3>1, <3>2, <3>3 DEF PageStep
  <2>2. /\ inspector' \in [session : Sessions \cup {""}, run : Nat,
                           status : {"none", "running", "complete"}]
        /\ inspector'.session = shown'
    <3>1. CASE inspector' = inspector
      BY <1>2, <1>4, <3>1 DEF PageTypes, OwnPage
    <3>2. ASSUME NEW r \in requests \cup {poll}, inspector' = InspectorFor(shown, r.look)
          PROVE  /\ inspector' \in [session : Sessions \cup {""}, run : Nat,
                                    status : {"none", "running", "complete"}]
                 /\ inspector'.session = shown'
      <4>1. r.look.run \in Nat /\ r.look.status \in {"none", "running", "complete"}
        BY <1>1
      <4> QED BY <1>2, <1>4, <3>2, <4>1 DEF InspectorFor
    <3>3. CASE shown' \in Sessions /\ inspector' = InspectorFor(shown', Unlooked)
      BY <3>3 DEF InspectorFor, Unlooked
    <3> QED BY <3>1, <3>2, <3>3 DEF PageStep
  <2> QED BY <2>1, <2>2 DEF PageTypes, OwnPage
<1> QED BY <1>3, <1>4 DEF PageStep

(* What the poll read of an ended run is still all of it. *)
LEMMA PollTrueNext ==
  ASSUME PageInv, [Next]_vars, DbOK', RunsStep, PollStep
  PROVE  PollIsTrue'
<1> SUFFICES ASSUME NEW i \in DOMAIN poll'.transcript, "ended" \in poll'.transcript[i]
             PROVE  /\ i \in DOMAIN db'[shown'] /\ Ended(db'[shown'][i])
                    /\ poll'.transcript[i] = Written(db'[shown'][i]) \cap InTranscript
  <2>1. ASSUME NEW i \in DOMAIN db'[shown']
        PROVE  TranscriptOf(shown)'[i] = Written(db'[shown'][i]) \cap InTranscript
    BY <2>1 DEF TranscriptOf
  <2> QED BY <2>1 DEF PollIsTrue, Ended
<1>1. poll' # NoPoll /\ poll' # Poll(shown)
  <2>1. NoPoll.transcript = <<>> /\ Poll(shown).transcript = <<>>
    BY DEF NoPoll, Poll, Request
  <2> QED BY <2>1, EmptyTranscript
<1>2. shown' = shown /\ (poll' = poll \/ poll' \in Got(poll))
  BY <1>1 DEF PollStep
<1>3. poll # NoPoll
  BY <1>1, <1>2, NewPollFacts
<1>4. PollOK /\ DbOK
  BY PollFacts, PageFacts
<1>5. shown \in Sessions /\ poll.session = shown
  BY <1>3, <1>4 DEF PollOK
<1>6. \/ poll'.transcript = poll.transcript
      \/ poll'.transcript = TranscriptOf(shown)
  BY <1>2, <1>3, <1>4, <1>5, GotFacts DEF PollOK
<1>7. /\ i \in DOMAIN db[shown] /\ Ended(db[shown][i])
      /\ poll'.transcript[i] = Written(db[shown][i]) \cap InTranscript
  <2>1. CASE poll'.transcript = poll.transcript
    <3>1. /\ i \in DOMAIN db[shown] /\ Ended(db[shown][i])
          /\ poll.transcript[i] = TranscriptOf(shown)[i]
      BY <2>1 DEF PageInv, PollIsTrue
    <3> QED BY <1>4, <1>5, <2>1, <3>1, TranscriptFacts
  <2>2. CASE poll'.transcript = TranscriptOf(shown)
    BY <1>4, <1>5, <2>2, TranscriptFacts
  <2> QED BY <1>6, <2>1, <2>2
<1>8. i \in DOMAIN db'[shown] /\ db'[shown][i] = db[shown][i]
  BY <1>5, <1>7 DEF RunsStep, Over
<1> QED BY <1>2, <1>7, <1>8

-----------------------------------------------------------------------------
(* The run that is open and owed to the page. *)

(* What is owed stays, or is what is open in the session just opened, whose page and
   requests have nothing yet. *)
OwedStep ==
  \/ owed' = 0
  \/ owed' = owed /\ shown' = shown /\ visits' = visits
  \/ /\ owed' \in OpenRuns(shown') /\ shown' \in Sessions /\ db' = db /\ poll' = NoPoll
     /\ \A r \in requests : r.session # shown'
     /\ canonicalTranscript' = TranscriptFor(shown', <<>>)
     /\ inspector' = InspectorFor(shown', Unlooked)

(* What is owed changes like that. *)
LEMMA OwedNext == ASSUME PageInv, [Next]_vars PROVE OwedStep
<1>1. CASE \E s \in Sessions : Revisit(s)
  <2>1. PICK s \in Sessions : Revisit(s)
    BY <1>1
  <2>2. shown' = s
    BY <2>1 DEF Revisit, Visit
  <2> QED BY <2>1, <2>2 DEF Revisit, Visit, stop, OwedStep
<1>2. CASE BootDone
  BY <1>2 DEF BootDone, OwedStep
<1>3. CASE Polling
  BY <1>3 DEF Polling, PollReads, PollFails, AnotherRun, Settling, Handoff, Dormant,
     Observing, Settled, SameRun, applySnapshot, Timer, OwedStep
<1>4. CASE Submitting \/ Breaking
  BY <1>4 DEF Submitting, Breaking, Submits, Accept, Frame, StreamEnds, ConnectFails,
     SubmissionFails, StreamBreaks, Caught, Reloaded, Finally, OwedStep
<1>5. CASE RequestReads \/ Load \/ LoadFails
  BY <1>5 DEF RequestReads, Load, LoadFails, OwedStep
<1>6. CASE \/ Submit \/ Interrupt
           \/ \E s \in Sessions : VisitFresh(s) \/ RunBegins(s) \/ RunWrites(s) \/ RunStops(s)
  BY <1>6 DEF Submit, Interrupt, VisitFresh,
     RunBegins, RunWrites, RunStops, Elsewhere, OwedStep
<1>7. CASE UNCHANGED vars
  BY <1>7 DEF vars, OwedStep
<1> QED BY <1>1, <1>2, <1>3, <1>4, <1>5, <1>6, <1>7 DEF Next, User, Loading

(* A run that is open is the latest of its session, and its transcript shows it open. *)
LEMMA OpenIsLatest ==
  ASSUME DbOK, OneAfterTheOther, NEW s \in Sessions, NEW run \in DOMAIN db[s],
         db[s][run].n > 0, ~Over(db[s][run])
  PROVE  Rows(s) # {} /\ LatestRunId(s) = run /\ ShowsOpen(TranscriptOf(s), run)
<1>1. DOMAIN db[s] = 1..Len(db[s]) /\ Len(db[s]) \in Nat
  BY DEF DbOK
<1>2. ASSUME NEW i \in DOMAIN db[s] PROVE i \in Rows(s) <=> db[s][i].n > 0
  <2>1. db[s][i] \in Runs /\ db[s][i].n <= Len(db[s][i].script)
    BY <1>2, RunTypes DEF DbOK
  <2> QED BY <2>1, WrittenFacts DEF Rows
<1>3. run \in Rows(s)
  BY <1>2
<1>4. LatestRunId(s) \in Rows(s) /\ LatestRunId(s) \in Nat /\ run <= LatestRunId(s)
  BY <1>3, LatestRun
<1>5. LatestRunId(s) \in DOMAIN db[s] /\ db[s][LatestRunId(s)].n > 0
  BY <1>2, <1>4 DEF Rows
<1>6. ~(run < LatestRunId(s))
  BY <1>5 DEF OneAfterTheOther
<1>7. LatestRunId(s) = run
  BY <1>1, <1>4, <1>6
<1>8. ShowsOpen(TranscriptOf(s), run)
  BY TranscriptFacts DEF ShowsOpen, Over
<1> QED BY <1>3, <1>7, <1>8

(* A request that shows an open run does so with an answer more. *)
LEMMA ReadsOpenKept ==
  ASSUME DbOK, OneAfterTheOther, NEW s \in Sessions, NEW run \in DOMAIN db[s],
         db[s][run].n > 0, ~Over(db[s][run]),
         NEW r \in Requests, r.session = s, Read(r), ReadsOpen(r, run), NEW next \in Got(r)
  PROVE  ReadsOpen(next, run)
<1>1. Rows(s) # {} /\ LatestRunId(s) = run /\ ShowsOpen(TranscriptOf(s), run)
  BY OpenIsLatest
<1>2. CASE next.transcript = TranscriptOf(s) /\ next.look = r.look
  BY <1>1, <1>2 DEF ReadsOpen
<1>3. CASE /\ next.transcript = r.transcript
           /\ "transcript" \in next.got <=> "transcript" \in r.got
           /\ r.look.at # "done" /\ next.look = Look(r.look, s)
  <2>1. r.look \in Looks
    BY DEF Requests, Looks
  <2>2. next.look.run = run
    BY <1>1, <1>3, <2>1, LookFacts DEF ReadsOpen
  <2> QED BY <1>3, <2>2 DEF ReadsOpen
<1> QED BY <1>2, <1>3, GotFacts

(* What has no answer yet shows nothing else. *)
LEMMA UnansweredReadsOpen ==
  ASSUME NEW r, NEW run, r.got = {}, r.look = Unlooked
  PROVE  ReadsOpen(r, run)
BY UnlookedFacts DEF ReadsOpen

(* A run that is open after a step was there and open before. *)
LEMMA OpenBefore ==
  ASSUME RunsStep, NEW s \in Sessions, NEW run \in DOMAIN db[s], DbOK, DbOK'
  PROVE  /\ run \in DOMAIN db'[s]
         /\ ~Over(db'[s][run]) => ~Over(db[s][run])
         /\ db[s][run].n > 0 => db'[s][run].n > 0
<1>1. run \in DOMAIN db'[s] /\ db[s][run].n <= db'[s][run].n
  BY DEF RunsStep
<1>2. db[s][run].n \in Nat
  BY RunTypes
<1>3. db'[s][run].n \in Nat
  <2>1. db'[s] \in Seq(Runs)
    BY DEF DbOK
  <2>2. db'[s][run] \in Runs
    BY <1>1, <2>1
  <2> QED BY <2>2 DEF Runs
<1>4. Over(db[s][run]) => db'[s][run] = db[s][run]
  BY DEF RunsStep
<1> QED BY <1>1, <1>2, <1>3, <1>4

(* All the page has or gets of a session in which a run is owed shows it open. *)
LEMMA SeenOpenNext ==
  ASSUME PageInv, Steps, OwedStep
  PROVE  SeenOpen'
<1> USE DEF Steps
<1>1. DbOK /\ OneAfterTheOther /\ DbOK' /\ PollOK
  BY PageFacts, PollFacts
<1>2. CASE owed' = 0
  BY <1>2 DEF SeenOpen, Owed
<1>3. CASE owed' = owed /\ shown' = shown /\ visits' = visits /\ owed # 0
  <2>1. shown \in Sessions /\ owed \in DOMAIN db[shown] /\ db[shown][owed].n > 0
    BY <1>3 DEF PageInv, SeenOpen
  <2>2. /\ owed \in DOMAIN db'[shown] /\ db'[shown][owed].n > 0
        /\ ~Over(db'[shown][owed]) => ~Over(db[shown][owed])
    BY <1>1, <2>1, OpenBefore
  <2>3. ASSUME ~Over(db'[shown][owed])
        PROVE  /\ \A r \in requests' \cup {poll'} : r.session = shown => ReadsOpen(r, owed)
               /\ \/ canonicalTranscript'.runs = <<>>
                  \/ ShowsOpen(canonicalTranscript'.runs, owed)
               /\ inspector'.run \in {0, owed}
    <3>1. /\ ~Over(db[shown][owed])
          /\ \A r \in requests \cup {poll} : r.session = shown => ReadsOpen(r, owed)
          /\ canonicalTranscript.runs = <<>> \/ ShowsOpen(canonicalTranscript.runs, owed)
          /\ inspector.run \in {0, owed}
      BY <1>3, <2>2, <2>3 DEF PageInv, SeenOpen, Owed
    <3>2. ASSUME NEW r \in requests', r.session = shown PROVE ReadsOpen(r, owed)
      <4>1. CASE r \in requests
        BY <3>1, <3>2, <4>1
      <4>2. ASSUME NEW q \in requests, r \in Got(q) PROVE ReadsOpen(r, owed)
        <5>1. q \in Requests /\ q.session \in Sessions /\ Read(q)
          BY PageFacts
        <5>2. q.session = shown
          BY <1>1, <3>2, <4>2, <5>1, GotFacts
        <5> QED BY <1>1, <2>1, <3>1, <4>2, <5>1, <5>2, ReadsOpenKept
      <4>3. CASE shown' \in Sessions /\ Fresh(r, shown')
        BY <4>3, FreshFacts, UnansweredReadsOpen
      <4> QED BY <4>1, <4>2, <4>3 DEF RequestsStep
    <3>3. ASSUME poll'.session = shown PROVE ReadsOpen(poll', owed)
      <4>1. CASE poll' = NoPoll \/ poll' = Poll(shown)
        <5>1. poll'.got = {} /\ poll'.look = Unlooked
          BY <2>1, <4>1, NewPollFacts
        <5> QED BY <5>1, UnansweredReadsOpen
      <4>2. CASE poll' = poll
        BY <3>1, <3>3, <4>2
      <4>3. CASE poll' \in Got(poll)
        <5>1. poll # NoPoll /\ poll \in Requests /\ Read(poll) /\ poll.session = shown
          BY <1>1, <4>3, NewPollFacts DEF PollOK
        <5> QED BY <1>1, <2>1, <3>1, <4>3, <5>1, ReadsOpenKept
      <4> QED BY <4>1, <4>2, <4>3 DEF PollStep
    <3>4. \A r \in requests \cup {poll} : Read(r)
      BY PageFacts, PollFacts DEF PollOK
    <3>5. \/ canonicalTranscript'.runs = <<>>
          \/ ShowsOpen(canonicalTranscript'.runs, owed)
      BY <1>3, <3>1 DEF PageStep, TranscriptFor, ReadsOpen
    <3>6. inspector'.run \in {0, owed}
      BY <1>3, <3>1, <3>4, UnlookedFacts DEF PageStep, InspectorFor, ReadsOpen, Read
    <3> QED BY <3>2, <3>3, <3>5, <3>6
  <2> QED BY <1>3, <2>1, <2>2, <2>3 DEF SeenOpen, Owed, Over, Ended
<1>4. CASE /\ owed' \in OpenRuns(shown') /\ shown' \in Sessions /\ db' = db /\ poll' = NoPoll
           /\ \A r \in requests : r.session # shown'
           /\ canonicalTranscript' = TranscriptFor(shown', <<>>)
           /\ inspector' = InspectorFor(shown', Unlooked)
  <2>1. /\ owed' \in DOMAIN db[shown']
        /\ "started" \in Written(db[shown'][owed'])
    BY <1>4 DEF OpenRuns, Rows
  <2>2. db[shown'][owed'].n > 0
    <3>1. db[shown'][owed'] \in Runs /\ db[shown'][owed'].n <= Len(db[shown'][owed'].script)
      BY <1>1, <1>4, <2>1, RunTypes DEF DbOK
    <3> QED BY <2>1, <3>1, WrittenFacts
  <2>3. ASSUME NEW r \in requests', r.session = shown' PROVE ReadsOpen(r, owed')
    <3>1. r \notin requests
      BY <1>4, <2>3
    <3>2. \A q \in requests : r \notin Got(q)
      BY <1>1, <1>4, <2>3, PageFacts, GotFacts
    <3> QED BY <1>4, <3>1, <3>2, FreshFacts, UnansweredReadsOpen DEF RequestsStep
  <2>4. ReadsOpen(poll', owed')
    BY <1>4, NewPollFacts, UnansweredReadsOpen
  <2>5. canonicalTranscript'.runs = <<>> /\ inspector'.run = 0
    BY <1>4, UnlookedFacts DEF TranscriptFor, InspectorFor
  <2> QED BY <1>4, <2>1, <2>2, <2>3, <2>4, <2>5 DEF SeenOpen, Owed, ReadsOpen, ShowsOpen, Over, Ended
<1> QED BY <1>2, <1>3, <1>4 DEF OwedStep, SeenOpen, Owed

-----------------------------------------------------------------------------
(* The controls of the page. *)

(* An active reconnection has attempts left. *)
AttemptsLeft ==
  Active => unobservableAttempts < MaxUnobservable /\ settlementAttempts < MaxSettlement

(* What the controls are that only the reconnection and navigations touch. *)
Reconnecting ==
  /\ reconnectionState \in {"dormant", "discovering", "observing", "settling", "handoff",
                            "failed-unobservable"}
  /\ scheduled \in BOOLEAN
  /\ unobservableAttempts \in 0..MaxUnobservable
  /\ handoffAttempts \in 0..MaxHandoff /\ settlementAttempts \in 0..MaxSettlement
  /\ AttemptsLeft /\ ReconnectionDriven

(* The bounds are at least one. *)
LEMMA Bounds1 ==
  /\ MaxUnobservable \in Nat /\ MaxHandoff \in Nat /\ MaxSettlement \in Nat
  /\ 0 < MaxUnobservable /\ 0 < MaxSettlement
BY Bounds

(* Most steps leave the reconnection alone. *)
LEMMA ReconnectingUnchanged ==
  ASSUME Reconnecting, UNCHANGED reconnection
  PROVE  Reconnecting'
BY DEF Reconnecting, reconnection, attempts, AttemptsLeft, Active, ReconnectionDriven

(* The reconnection is so in every state of the invariant. *)
LEMMA ReconnectingFacts == ASSUME PageInv PROVE Reconnecting
BY DEF PageInv, TypeOK, Polled, Reconnecting, AttemptsLeft

(* The reconnection starts over. *)
LEMMA StartFacts ==
  ASSUME start
  PROVE  Reconnecting' /\ Active'
<1>1. Poll(shown) # NoPoll
  BY DEF Poll, NoPoll, Request
<1>2. /\ 0 \in 0..MaxUnobservable /\ 0 \in 0..MaxHandoff /\ 0 \in 0..MaxSettlement
      /\ 0 < MaxUnobservable /\ 0 < MaxSettlement
  BY Bounds1
<1> QED BY <1>1, <1>2 DEF start, Reconnecting, AttemptsLeft, Active, ReconnectionDriven

(* It stays so while it polls. *)
LEMMA PollingFacts ==
  ASSUME PageInv, Polling
  PROVE  Reconnecting'
<1>1. Reconnecting /\ PollOK /\ DbOK
  BY ReconnectingFacts, PollFacts, PageFacts
<1>2. /\ unobservableAttempts \in Nat /\ handoffAttempts \in Nat /\ settlementAttempts \in Nat
      /\ unobservableAttempts <= MaxUnobservable /\ handoffAttempts <= MaxHandoff
      /\ settlementAttempts <= MaxSettlement
  BY <1>1, Bounds1 DEF Reconnecting
<1>3. poll # NoPoll => Active /\ ~scheduled
  BY <1>1 DEF Reconnecting, ReconnectionDriven, Active
<1>4. poll # NoPoll \/ scheduled =>
        /\ unobservableAttempts + 1 <= MaxUnobservable
        /\ settlementAttempts + 1 <= MaxSettlement
  BY <1>1, <1>2, Bounds1 DEF Reconnecting, ReconnectionDriven, Active, AttemptsLeft
<1> USE DEF Reconnecting, AttemptsLeft, Active, ReconnectionDriven
<1>5. CASE PollReads
  <2>1. poll # NoPoll
    BY <1>5, NewPollFacts DEF PollReads
  <2>2. poll.session \in Sessions /\ poll.why = "poll"
    BY <1>1, <2>1 DEF PollOK
  <2>3. poll'.why = "poll"
    BY <1>1, <1>5, <2>2, GotFacts DEF PollReads, PollOK
  <2>4. poll' # NoPoll
    BY <2>3, NewPollFacts
  <2> QED BY <1>1, <1>5, <2>1, <2>4 DEF PollReads, attempts
<1>6. CASE PollFails
  <2>1. poll # NoPoll /\ unobservableAttempts' = unobservableAttempts + 1
    BY <1>6 DEF PollFails
  <2>2. unobservableAttempts' \in 0..MaxUnobservable
    BY <1>2, <1>4, <2>1, Bounds1
  <2>3. UNCHANGED <<handoffAttempts, settlementAttempts>>
    BY <1>6 DEF PollFails
  <2>4. CASE unobservableAttempts' >= MaxUnobservable
    <3>1. reconnectionState' = "failed-unobservable" /\ poll' = NoPoll /\ scheduled' = FALSE
      BY <1>6, <2>4 DEF PollFails, fail, stop
    <3> QED BY <1>1, <2>2, <2>3, <3>1
  <2>5. CASE unobservableAttempts' < MaxUnobservable
    <3>1. reconnectionState' = "discovering" /\ poll' = NoPoll /\ scheduled' = TRUE
      BY <1>2, <1>6, <2>1, <2>5, Bounds1 DEF PollFails, scheduleNext
    <3> QED BY <1>1, <1>3, <2>1, <2>2, <2>3, <2>5, <3>1
  <2> QED BY <1>2, <2>1, <2>4, <2>5, Bounds1
<1>7. CASE AnotherRun
  BY <1>1, <1>7, Bounds1 DEF AnotherRun, applySnapshot, scheduleNext
<1>8. CASE Settling
  <2>1. /\ poll # NoPoll /\ settlementAttempts' = settlementAttempts + 1
        /\ unobservableAttempts' = 0 /\ handoffAttempts' = handoffAttempts
    BY <1>8 DEF Settling, SameRun, applySnapshot
  <2>2. settlementAttempts' \in 0..MaxSettlement /\ 0 \in 0..MaxUnobservable
    BY <1>2, <1>4, <2>1, Bounds1
  <2>3. CASE settlementAttempts' >= MaxSettlement
    <3>1. reconnectionState' = "failed-unobservable" /\ poll' = NoPoll /\ scheduled' = FALSE
      BY <1>8, <2>3 DEF Settling, fail, stop
    <3> QED BY <1>1, <2>1, <2>2, <3>1
  <2>4. CASE settlementAttempts' < MaxSettlement
    <3>1. reconnectionState' = "settling" /\ poll' = NoPoll /\ scheduled' = TRUE
      BY <1>2, <1>8, <2>1, <2>4, Bounds1 DEF Settling, scheduleNext
    <3> QED BY <1>1, <2>1, <2>2, <2>4, <3>1, Bounds1
  <2> QED BY <1>2, <2>1, <2>3, <2>4, Bounds1
<1>9. CASE Handoff
  BY <1>1, <1>2, <1>9, Bounds1 DEF Handoff, HandedOff, Settled, SameRun, applySnapshot, scheduleNext
<1>10. CASE Dormant
  <2>1. /\ reconnectionState' = "dormant" /\ poll' = NoPoll /\ scheduled' = FALSE
        /\ unobservableAttempts' = 0 /\ settlementAttempts' = 0
        /\ handoffAttempts' = handoffAttempts
    BY <1>10 DEF Dormant, Settled, SameRun, applySnapshot, stop
  <2>2. 0 \in 0..MaxUnobservable /\ 0 \in 0..MaxSettlement
    BY Bounds1
  <2> QED BY <1>1, <2>1, <2>2
<1>11. CASE Observing
  BY <1>1, <1>2, <1>11, Bounds1 DEF Observing, SameRun, applySnapshot, scheduleNext
<1>12. CASE Timer
  <2>1. Poll(shown) # NoPoll
    BY DEF Poll, NoPoll, Request
  <2> QED BY <1>1, <1>12, <2>1 DEF Timer, attempts
<1> QED BY <1>5, <1>6, <1>7, <1>8, <1>9, <1>10, <1>11, <1>12 DEF Polling

(* It stays so in every step. *)
LEMMA ReconnectingNext ==
  ASSUME PageInv, [Next]_vars
  PROVE  Reconnecting'
<1>1. Reconnecting
  BY ReconnectingFacts
<1>2. CASE Polling
  BY <1>2, PollingFacts
<1>3. CASE BootDone
  BY <1>1, <1>3, StartFacts, ReconnectingUnchanged DEF BootDone
<1>4. CASE \E s \in Sessions : VisitFresh(s) \/ Revisit(s)
  BY <1>1, <1>4
     DEF VisitFresh, Revisit, Visit, stop, attempts, Reconnecting, AttemptsLeft, Active,
         ReconnectionDriven
<1>5. CASE UNCHANGED reconnection
  BY <1>1, <1>5, ReconnectingUnchanged
<1> QED
  BY <1>2, <1>3, <1>4, <1>5 DEF Next, vars, User, Loading, Submitting, Breaking,
     RunBegins, RunWrites, RunStops, Elsewhere, Submit, Interrupt, RequestReads, Load, LoadFails,
     Submits, Accept, Frame, StreamEnds, ConnectFails,
     SubmissionFails, StreamBreaks, Caught, Reloaded, Finally

(* Navigation and submission. *)
Submissions(last) ==
  [id : 1..last, session : Sessions, at : {"posting", "streaming", "loading"}, run : Nat]

Navigating ==
  /\ shown \in Sessions \cup {""} /\ visits \in 0..MaxVisits
  /\ running \in BOOLEAN /\ sent \in 0..MaxSubmissions /\ abortController \in 0..sent
  /\ submissions \subseteq Submissions(sent)
  /\ booting \subseteq [visit : 1..visits, session : Sessions]

(* These controls are so in every state of the invariant. *)
LEMMA NavigatingFacts == ASSUME PageInv PROVE Navigating
BY DEF PageInv, TypeOK, Navigating, Submissions

(* Most steps leave them alone. *)
LEMMA NavigatingUnchanged ==
  ASSUME Navigating, UNCHANGED <<shown, visits, submitting, booting>>
  PROVE  Navigating'
BY DEF Navigating, Submissions, submitting

(* Submissions of which some end their stream. *)
LEMMA CloseTypes ==
  ASSUME Navigating, NEW ended \in SUBSET submissions, NEW session, NEW more,
         Close(ended, session, more)
  PROVE  submissions' \subseteq Submissions(sent)
<1>1. ASSUME NEW s \in Submissions(sent) PROVE [s EXCEPT !.at = "loading"] \in Submissions(sent)
  BY DEF Submissions
<1> QED BY <1>1 DEF Close, Navigating

(* They stay so in a navigation. *)
LEMMA VisitTypes ==
  ASSUME Navigating, NEW session \in Sessions, VisitFresh(session) \/ Revisit(session)
  PROVE  Navigating'
<1>1. Streaming(abortController) \in SUBSET submissions
  BY DEF Streaming
<1>2. submissions' \subseteq Submissions(sent)
  BY <1>1, CloseTypes DEF VisitFresh, Revisit
<1>3. /\ shown' = session /\ visits' = visits + 1 /\ visits < MaxVisits
      /\ running' = FALSE /\ abortController' = 0 /\ sent' = sent
  BY DEF VisitFresh, Revisit, Visit
<1>4. /\ visits' \in 0..MaxVisits /\ visits' \in 1..visits' /\ 0 \in 0..sent
      /\ 1..visits \subseteq 1..visits'
  <2>1. visits \in 0..MaxVisits /\ sent \in 0..MaxSubmissions
    BY DEF Navigating
  <2>2. visits \in Nat /\ sent \in Nat
    BY <2>1, Bounds
  <2> QED BY <1>3, <2>2, Bounds
<1>5. booting' \subseteq [visit : 1..visits', session : Sessions]
  <2>1. booting \subseteq [visit : 1..visits', session : Sessions]
    BY <1>4 DEF Navigating
  <2>2. [visit |-> visits', session |-> session] \in [visit : 1..visits', session : Sessions]
    BY <1>4
  <2> QED BY <2>1, <2>2 DEF VisitFresh, Revisit
<1> QED BY <1>2, <1>3, <1>4, <1>5 DEF Navigating, Submissions

(* In a submission. *)
LEMMA SubmitTypes ==
  ASSUME PageInv, Submit
  PROVE  Navigating'
<1>1. Navigating /\ visits \in Nat /\ sent \in Nat
  BY NavigatingFacts, PageFacts
<1>2. shown \in Sessions /\ sent < MaxSubmissions
  BY DEF Submit, PageInv, Opened
<1>3. sent' = sent + 1 /\ UNCHANGED <<shown, visits, abortController, booting>> /\ running' = TRUE
  BY DEF Submit
<1>4. /\ sent' \in 0..MaxSubmissions /\ 1..sent \subseteq 1..sent' /\ 0..sent \subseteq 0..sent'
      /\ sent + 1 \in 1..sent'
  BY <1>1, <1>2, <1>3, Bounds
<1>5. [id |-> sent + 1, session |-> shown, at |-> "posting", run |-> 0] \in Submissions(sent')
  BY <1>2, <1>4 DEF Submissions
<1>6. submissions \subseteq Submissions(sent')
  BY <1>1, <1>4 DEF Navigating, Submissions
<1>7. submissions' \subseteq Submissions(sent')
  BY <1>5, <1>6 DEF Submit
<1> QED BY <1>1, <1>3, <1>4, <1>7 DEF Navigating, Submissions

(* As it goes on and ends. *)
LEMMA SubmittingTypes ==
  ASSUME PageInv, NEW s \in submissions, Submits(s)
  PROVE  Navigating'
<1>1. Navigating /\ s \in Submissions(sent) /\ DbOK
  BY NavigatingFacts, PageFacts DEF Navigating
<1>2. UNCHANGED <<shown, visits, sent, booting>>
  BY DEF Submits, Accept, Frame, StreamEnds, ConnectFails,
     SubmissionFails, StreamBreaks, Caught, Reloaded, Finally, submitting
<1>3. running' \in BOOLEAN /\ abortController' \in 0..sent
  <2>1. s.id \in 0..sent /\ 0 \in 0..sent
    BY <1>1, PageFacts
  <2> QED BY <1>1, <2>1 DEF Submits, Accept, Frame, StreamEnds, ConnectFails,
     SubmissionFails, StreamBreaks, Caught, Reloaded, Finally, Navigating, submitting
<1>4. submissions' \subseteq Submissions(sent)
  <2>1. CASE Accept(s)
    <3>1. s.session \in Sessions /\ Len(db[s.session]) + 1 \in Nat
      BY <1>1 DEF Submissions, DbOK
    <3>2. [s EXCEPT !.at = "streaming", !.run = Len(db[s.session]) + 1] \in Submissions(sent)
      BY <1>1, <3>1 DEF Submissions
    <3> QED BY <1>1, <2>1, <3>2 DEF Accept, Navigating
  <2>2. CASE StreamEnds(s) \/ ConnectFails(s)
    BY <1>1, <2>2, CloseTypes DEF StreamEnds, ConnectFails
  <2>3. CASE Frame(s) \/ SubmissionFails(s) \/ StreamBreaks(s) \/ Reloaded(s)
    BY <1>1, <2>3
       DEF Frame, SubmissionFails, StreamBreaks, Caught, Reloaded, Finally, Navigating, submitting
  <2> QED BY <2>1, <2>2, <2>3 DEF Submits
<1> QED BY <1>1, <1>2, <1>3, <1>4 DEF Navigating, Submissions

(* In every step. *)
LEMMA NavigatingNext ==
  ASSUME PageInv, [Next]_vars
  PROVE  Navigating'
<1>1. Navigating
  BY NavigatingFacts
<1>2. CASE \E s \in Sessions : VisitFresh(s) \/ Revisit(s)
  BY <1>1, <1>2, VisitTypes
<1>3. CASE Submit
  BY <1>3, SubmitTypes
<1>4. CASE Submitting \/ Breaking
  BY <1>4, SubmittingTypes DEF Submitting, Breaking, Submits
<1>5. CASE Interrupt
  <2>1. Streaming(abortController) \in SUBSET submissions
    BY DEF Streaming
  <2>2. submissions' \subseteq Submissions(sent)
    BY <1>1, <1>5, <2>1, CloseTypes DEF Interrupt
  <2> QED BY <1>1, <1>5, <2>2 DEF Interrupt, Navigating, Submissions
<1>6. CASE BootDone
  <2>1. booting' \subseteq booting /\ UNCHANGED <<shown, visits, submitting>>
    BY <1>6 DEF BootDone
  <2> QED BY <1>1, <2>1 DEF Navigating, Submissions, submitting
<1>7. CASE UNCHANGED <<shown, visits, submitting, booting>>
  BY <1>1, <1>7, NavigatingUnchanged
<1> QED
  BY <1>2, <1>3, <1>4, <1>5, <1>6, <1>7 DEF Next, vars, User, Loading, Polling,
     RunBegins, RunWrites, RunStops, Elsewhere, RequestReads, Load, LoadFails,
     PollReads, PollFails, AnotherRun, Settling, Handoff, Dormant,
     Observing, Settled, SameRun, applySnapshot, Timer

(* What the page streams and the failures it tells are of its session, but for submissions that
   cross. *)
Viewing ==
  /\ liveEvents \subseteq Sessions /\ crossing \in BOOLEAN
  /\ ~crossing => liveEvents \subseteq {shown}
  /\ OneSubmission

(* It is so in every state of the invariant. *)
LEMMA ViewingFacts == ASSUME PageInv PROVE Viewing
BY DEF PageInv, TypeOK, ShownSessionOnly, Viewing

(* Most steps leave it alone. *)
LEMMA ViewingUnchanged ==
  ASSUME Viewing, UNCHANGED <<shown, view, submitting>>
  PROVE  Viewing'
BY DEF Viewing, OneSubmission, view, submitting

(* A navigation aborts the stream that is alone, and else submissions cross. *)
LEMMA ViewingVisit ==
  ASSUME PageInv, NEW session \in Sessions, VisitFresh(session) \/ Revisit(session)
  PROVE  Viewing'
<1>1. Viewing
  BY ViewingFacts
<1>2. /\ shown' = session /\ liveEvents' = {session}
      /\ crossing' = \E s \in submissions' : s.at = "posting" \/ (crossing /\ s.at = "streaming")
      /\ submissions' = (submissions \ Streaming(abortController))
                         \cup {[s EXCEPT !.at = "loading"] : s \in Streaming(abortController)}
  BY DEF VisitFresh, Revisit, Visit, Close
<1>3. ASSUME ~crossing', NEW s \in submissions', s.at # "loading" PROVE FALSE
  <2>1. s \in submissions \ Streaming(abortController) /\ s \in Submissions(sent)
    <3>1. \A r \in Streaming(abortController) : r \in Submissions(sent)
      BY NavigatingFacts DEF Streaming, Navigating
    <3>2. \A r \in Submissions(sent) : [r EXCEPT !.at = "loading"].at = "loading"
      BY DEF Submissions
    <3>3. s \in submissions \ Streaming(abortController)
      BY <1>2, <1>3, <3>1, <3>2
    <3> QED BY <3>3, NavigatingFacts DEF Navigating
  <2>2. s.at = "streaming" /\ ~crossing
    BY <1>2, <1>3, <2>1 DEF Submissions
  <2>3. abortController = s.id
    BY <1>1, <2>1, <2>2 DEF Viewing, OneSubmission
  <2> QED BY <2>1, <2>2, <2>3 DEF Streaming
<1> QED BY <1>2, <1>3 DEF Viewing, OneSubmission

(* A submission that begins beside another one crosses it; it goes on and ends alone. *)
LEMMA ViewingSubmits ==
  ASSUME PageInv, Submit \/ Interrupt \/ \E s \in submissions : Submits(s)
  PROVE  Viewing'
<1>1. Viewing /\ Navigating
  BY ViewingFacts, NavigatingFacts
<1>2. CASE Submit
  <2>1. shown \in Sessions
    BY <1>2 DEF Submit, PageInv, Opened
  <2> DEFINE new == [id |-> sent + 1, session |-> shown, at |-> "posting", run |-> 0]
  <2>2. /\ submissions' = submissions \cup {new} /\ liveEvents' = {shown} /\ shown' = shown
        /\ crossing' = (submissions # {})
    BY <1>2 DEF Submit
  <2>3. new.at = "posting" /\ new.session = shown
    OBVIOUS
  <2> HIDE DEF new
  <2>4. ASSUME ~crossing' PROVE submissions' = {new}
    BY <2>2, <2>4
  <2> QED BY <2>1, <2>2, <2>3, <2>4 DEF Viewing, OneSubmission
<1>3. ASSUME NEW ended \in SUBSET submissions, NEW more, Close(ended, shown, more),
             UNCHANGED <<shown, crossing, abortController>>
      PROVE  OneSubmission'
  <2>1. submissions' = (submissions \ ended) \cup {[s EXCEPT !.at = "loading"] : s \in ended}
    BY <1>3 DEF Close
  <2>2. \A r \in ended : [r EXCEPT !.at = "loading"].at = "loading"
    BY <1>1 DEF Navigating, Submissions
  <2>3. ASSUME NEW s \in submissions', s.at # "loading", ~crossing
        PROVE  /\ submissions' = {s} /\ s.session = shown
               /\ s.at = "streaming" => abortController = s.id
    <3>1. s \in submissions \ ended
      BY <2>1, <2>2, <2>3
    <3>2. /\ submissions = {s} /\ s.session = shown
          /\ s.at = "streaming" => abortController = s.id
      BY <1>1, <2>3, <3>1 DEF Viewing, OneSubmission
    <3> QED BY <2>1, <3>1, <3>2
  <2> QED BY <1>3, <2>3 DEF OneSubmission
<1>4. CASE Interrupt
  <2>1. Streaming(abortController) \in SUBSET submissions
    BY DEF Streaming
  <2> QED BY <1>1, <1>3, <1>4, <2>1 DEF Interrupt, Viewing, view
<1>5. ASSUME NEW s \in submissions, Submits(s) PROVE Viewing'
  <2>1. s \in Submissions(sent) /\ s.session \in Sessions
    BY <1>1 DEF Navigating, Submissions
  <2>2. ASSUME ~crossing, s.at # "loading"
        PROVE  submissions = {s} /\ s.session = shown
    BY <1>1, <2>2 DEF Viewing, OneSubmission
  <2>3. CASE Accept(s)
    <3> DEFINE begun == [s EXCEPT !.at = "streaming", !.run = Len(db[s.session]) + 1]
    <3>1. begun.id = s.id /\ begun.session = s.session
      BY <2>1 DEF Submissions
    <3>2. /\ submissions' = (submissions \ {s}) \cup {begun} /\ abortController' = s.id
          /\ UNCHANGED <<shown, view>> /\ s.at = "posting"
      BY <2>3 DEF Accept
    <3> HIDE DEF begun
    <3>3. ASSUME ~crossing PROVE submissions' = {begun} /\ begun.session = shown
      BY <2>2, <3>1, <3>2, <3>3
    <3> QED BY <1>1, <3>1, <3>2, <3>3 DEF Viewing, OneSubmission, view
  <2>4. CASE StreamEnds(s) \/ ConnectFails(s)
    <3>1. OneSubmission'
      BY <1>3, <2>4 DEF StreamEnds, ConnectFails, view
    <3> QED BY <1>1, <2>1, <2>2, <2>4, <3>1 DEF StreamEnds, ConnectFails, Viewing, view
  <2>5. CASE Frame(s)
    <3>1. /\ liveEvents' = liveEvents \cup {s.session} /\ s.at = "streaming"
          /\ UNCHANGED <<shown, crossing, submitting>>
      BY <2>5 DEF Frame
    <3> QED BY <1>1, <2>1, <2>2, <3>1 DEF Viewing, OneSubmission, submitting
  <2>6. CASE SubmissionFails(s) \/ StreamBreaks(s) \/ Reloaded(s)
    <3>1. submissions' = submissions \ {s} /\ UNCHANGED <<shown, crossing>>
      BY <2>6 DEF SubmissionFails, StreamBreaks, Caught, Reloaded, Finally
    <3>2. OneSubmission'
      <4>1. ASSUME NEW r \in submissions', r.at # "loading", ~crossing PROVE FALSE
        <5>1. submissions = {r}
          BY <1>1, <3>1, <4>1 DEF Viewing, OneSubmission
        <5> QED BY <3>1, <4>1, <5>1
      <4> QED BY <3>1, <4>1 DEF OneSubmission
    <3>3. \/ liveEvents' = liveEvents
          \/ liveEvents' = liveEvents \cup {s.session} /\ s.at # "loading"
      BY <2>6 DEF SubmissionFails, StreamBreaks, Caught, Reloaded
    <3> QED BY <1>1, <2>1, <2>2, <3>1, <3>2, <3>3 DEF Viewing
  <2> QED BY <1>5, <2>3, <2>4, <2>5, <2>6 DEF Submits
<1> QED BY <1>2, <1>4, <1>5

(* In every step. *)
LEMMA ViewingNext ==
  ASSUME PageInv, [Next]_vars
  PROVE  Viewing'
<1>1. Viewing
  BY ViewingFacts
<1>2. CASE \E s \in Sessions : VisitFresh(s) \/ Revisit(s)
  BY <1>2, ViewingVisit
<1>3. CASE Submit \/ Interrupt \/ Submitting \/ Breaking
  BY <1>3, ViewingSubmits DEF Submitting, Breaking, Submits
<1>4. CASE Polling
  <2>1. UNCHANGED <<shown, submitting, crossing>>
    BY <1>4 DEF Polling, PollReads, PollFails, AnotherRun, Settling, Handoff, Dormant, Observing,
       Settled, SameRun, applySnapshot, Timer, view
  <2>2. liveEvents' = liveEvents \/ (liveEvents' = liveEvents \cup {shown} /\ poll # NoPoll)
    BY <1>4 DEF Polling, PollReads, PollFails, AnotherRun, Settling, Handoff, Dormant, Observing,
       Settled, SameRun, applySnapshot, Timer, view, fail
  <2>3. poll # NoPoll => shown \in Sessions
    BY PollFacts DEF PollOK
  <2> QED BY <1>1, <2>1, <2>2, <2>3 DEF Viewing, OneSubmission, submitting
<1>5. CASE UNCHANGED <<shown, view, submitting>>
  BY <1>1, <1>5, ViewingUnchanged
<1> QED
  BY <1>2, <1>3, <1>4, <1>5 DEF Next, vars, User, Loading,
     RunBegins, RunWrites, RunStops, Elsewhere, RequestReads, Load, LoadFails, BootDone

(* Nothing but a navigation happens on a page that shows no session. *)
LEMMA OpenedNext ==
  ASSUME PageInv, [Next]_vars, RequestsStep, Navigating'
  PROVE  Opened'
<1>1. \A r \in requests' : r \in Requests /\ r.session \in Sessions /\ Read(r)
  BY RequestsNext
<1>2. visits \in Nat /\ visits' \in Nat /\ Opened /\ PollOK /\ ReconnectionDriven
  <2>1. visits' \in 0..MaxVisits
    BY DEF Navigating
  <2>2. visits' \in Nat
    BY <2>1, Bounds
  <2> QED BY <2>2, PageFacts, PollFacts DEF PageInv
<1>3. CASE \E s \in Sessions : VisitFresh(s) \/ Revisit(s)
  <2>1. shown' \in Sessions /\ visits' = visits + 1
    BY <1>3 DEF VisitFresh, Revisit, Visit
  <2> QED BY <1>1, <1>2, <2>1 DEF Opened
<1>4. CASE ~\E s \in Sessions : VisitFresh(s) \/ Revisit(s)
  <2>1. UNCHANGED <<shown, visits>>
    BY <1>4 DEF Next, vars, User, Loading, Polling, Submitting, Breaking,
     RunBegins, RunWrites, RunStops, Elsewhere, RequestReads, Load, LoadFails, BootDone, Submit, Interrupt,
     Submits, Accept, Frame, StreamEnds, ConnectFails,
     SubmissionFails, StreamBreaks, Caught, Reloaded, Finally,
     PollReads, PollFails, AnotherRun, Settling, Handoff, Dormant,
     Observing, Settled, SameRun, applySnapshot, Timer
  <2>2. CASE visits > 0
    BY <1>1, <1>2, <2>1, <2>2 DEF Opened
  <2>3. CASE visits = 0
    <3>1. submissions = {} /\ booting = {} /\ requests = {} /\ ~Active
      BY <1>2, <2>3 DEF Opened
    <3>2. poll = NoPoll /\ ~scheduled
      BY <1>2, <3>1 DEF ReconnectionDriven, Active
    <3>3. ~Polling
      BY <3>2, NewPollFacts DEF Polling, PollReads, PollFails, AnotherRun, Settling, Handoff,
        Dormant, Observing, Settled, SameRun, applySnapshot, Timer
    <3>4. ~Loading /\ ~Submitting /\ ~Breaking
      BY <3>1 DEF Loading, RequestReads, Load, LoadFails, BootDone, Submitting, Breaking
    <3>5. ~Submit /\ ~Interrupt
      BY <2>3, <3>1 DEF Submit, Interrupt, Streaming
    <3>6. UNCHANGED <<submissions, booting, requests, reconnectionState>>
      BY <1>4, <3>3, <3>4, <3>5
         DEF Next, vars, User, RunBegins, RunWrites, RunStops, Elsewhere, submitting, reconnection
    <3> QED BY <1>1, <2>1, <2>3, <3>1, <3>6 DEF Opened, Active
  <2> QED BY <1>2, <2>2, <2>3
<1> QED BY <1>3, <1>4

-----------------------------------------------------------------------------
(* The bootstrap of the page shown starts the reconnection if a run is open. *)

(* Where the transcript or the inspector shows the run that is owed, both tell. *)
LEMMA OpenIsNoticed ==
  ASSUME PageInv, Owed, canonicalTranscript.runs # <<>> \/ inspector.run # 0
  PROVE  InspectorNeedsReconnection \/ transcriptHasUnsettledRun(canonicalTranscript.runs)
<1>1. /\ canonicalTranscript.runs = <<>> \/ ShowsOpen(canonicalTranscript.runs, owed)
      /\ inspector.run \in {0, owed}
  BY DEF PageInv, SeenOpen
<1>2. CASE canonicalTranscript.runs # <<>>
  BY <1>1, <1>2 DEF ShowsOpen, transcriptHasUnsettledRun
<1>3. CASE canonicalTranscript.runs = <<>>
  <2>1. ~transcriptHasTerminalEvent(canonicalTranscript.runs, inspector.run)
    BY <1>3, EmptyTranscript DEF transcriptHasTerminalEvent
  <2> QED BY <1>3, <2>1 DEF InspectorNeedsReconnection
<1> QED BY <1>2, <1>3

(* The reconnection does not go dormant while the run is open. *)
LEMMA DormantIsSettled ==
  ASSUME PageInv, Dormant
  PROVE  /\ shown \in Sessions /\ poll.look.run \in DOMAIN db[shown]
         /\ Ended(db[shown][poll.look.run])
         /\ poll.transcript[poll.look.run] = TranscriptOf(shown)[poll.look.run]
         /\ poll.look.status = "complete" /\ poll.look.at = "done"
<1>1. poll # NoPoll /\ Answered(poll) /\ poll.look.status = "complete"
  BY DEF Dormant, Settled, SameRun, applySnapshot, ObservedStatus, isTerminalRunStatus
<1>2. PollOK
  BY PollFacts
<1>3. /\ poll.look.run \in DOMAIN poll.transcript
      /\ "ended" \in poll.transcript[poll.look.run]
  BY DEF Dormant, Settled, transcriptHasTerminalEvent
<1>4. poll.look.at = "done"
  BY <1>1, <1>2 DEF PollOK, Answered, Read
<1> QED BY <1>1, <1>2, <1>3, <1>4 DEF PageInv, PollIsTrue, PollOK

(* The bootstrap of the last navigation is of the session shown. *)
LEMMA BootsNext ==
  ASSUME PageInv, [Next]_vars
  PROVE  \A boot \in booting' : boot.visit = visits' => boot.session = shown'
<1>1. /\ \A boot \in booting : boot.visit = visits => boot.session = shown
      /\ \A boot \in booting : boot.visit <= visits
      /\ visits \in Nat
  <2>1. \A boot \in booting : boot.visit \in 1..visits
    BY DEF PageInv, TypeOK
  <2> QED BY <2>1, PageFacts DEF PageInv, Bootstrapped
<1>2. ASSUME NEW s \in Sessions, VisitFresh(s) \/ Revisit(s)
      PROVE  \A boot \in booting' : boot.visit = visits' => boot.session = shown'
  <2>1. /\ shown' = s /\ visits' = visits + 1
        /\ booting' \subseteq booting \cup {[visit |-> visits', session |-> s]}
    BY <1>2 DEF VisitFresh, Revisit, Visit
  <2> QED BY <1>1, <2>1
<1>3. CASE booting' \subseteq booting /\ UNCHANGED <<shown, visits>>
  BY <1>1, <1>3
<1> QED
  BY <1>2, <1>3 DEF Next, vars, User, Loading, Polling, Submitting, Breaking,
     RunBegins, RunWrites, RunStops, Elsewhere, RequestReads, Load, LoadFails, BootDone, Submit, Interrupt,
     Submits, Accept, Frame, StreamEnds, ConnectFails,
     SubmissionFails, StreamBreaks, Caught, Reloaded, Finally,
     PollReads, PollFails, AnotherRun, Settling, Handoff, Dormant,
     Observing, Settled, SameRun, applySnapshot, Timer

(* Once it has ended the reconnection is active, or has given up, while a run is owed. *)
LEMMA BootstrappedNext ==
  ASSUME PageInv, [Next]_vars, Steps
  PROVE  Bootstrapped'
<1> SUFFICES ASSUME Owed', \A boot \in booting' : boot.visit # visits'
             PROVE  reconnectionState' # "dormant"
  BY BootsNext DEF Bootstrapped
<1>1. DbOK /\ DbOK' /\ RunsStep
  BY PageFacts DEF Steps
<1>2. ASSUME owed' = owed, shown' = shown PROVE Owed
  <2>1. owed # 0 /\ ~Over(db'[shown][owed])
    BY <1>2 DEF Owed, Over, Ended
  <2>2. shown \in Sessions /\ owed \in DOMAIN db[shown]
    BY <2>1 DEF PageInv, SeenOpen
  <2>3. ~Over(db[shown][owed])
    BY <1>1, <2>1, <2>2, OpenBefore
  <2> QED BY <2>1, <2>3 DEF Owed
<1>3. CASE \E s \in Sessions : VisitFresh(s)
  BY <1>3 DEF VisitFresh, Owed
<1>4. ASSUME NEW s \in Sessions, Revisit(s) PROVE FALSE
  <2>1. [visit |-> visits', session |-> s] \in booting'
    BY <1>4 DEF Revisit
  <2> QED BY <2>1
<1>5. CASE BootDone
  <2>1. PICK boot \in booting :
          /\ ~\E request \in requests : request.why = "boot" /\ request.of = boot.visit
          /\ booting' = booting \ {boot}
          /\ IF /\ CurrentSession(boot.session)
                /\ InspectorNeedsReconnection \/ transcriptHasUnsettledRun(canonicalTranscript.runs)
             THEN start
             ELSE UNCHANGED reconnection
          /\ owed' = IF boot.visit = visits /\ canonicalTranscript.runs = <<>> /\ inspector.run = 0
                     THEN 0 ELSE owed
          /\ UNCHANGED <<db, shown, visits, submitting, page, requests>>
    BY <1>5 DEF BootDone
  <2>2. owed' = owed /\ Owed /\ UNCHANGED <<shown, visits>>
    BY <1>2, <2>1 DEF Owed
  <2>3. CASE boot.visit = visits
    <3>1. CurrentSession(boot.session)
      BY <2>3 DEF PageInv, Bootstrapped, CurrentSession
    <3>2. owed # 0
      BY <2>2 DEF Owed
    <3>3. canonicalTranscript.runs # <<>> \/ inspector.run # 0
      BY <2>1, <2>2, <2>3, <3>2
    <3>4. start
      BY <2>1, <2>2, <3>1, <3>3, OpenIsNoticed
    <3> QED BY <3>4 DEF start
  <2>4. CASE boot.visit # visits
    <3>1. \A b \in booting : b.visit # visits
      BY <2>1, <2>2, <2>4
    <3>2. reconnectionState # "dormant"
      BY <2>2, <3>1 DEF PageInv, Bootstrapped
    <3> QED BY <2>1, <3>2 DEF start, reconnection
  <2> QED BY <2>3, <2>4
<1>6. CASE Dormant
  <2>1. owed' = owed /\ shown' = shown
    BY <1>6 DEF Dormant, Settled, SameRun, applySnapshot
  <2>2. Owed
    BY <1>2, <2>1
  <2>3. PollOK /\ poll # NoPoll /\ poll.look.at = "done" /\ Ended(db[shown][poll.look.run])
    BY <1>6, DormantIsSettled, PollFacts DEF Dormant, Settled, SameRun, applySnapshot
  <2>4. poll.look.run = owed
    BY <2>2, <2>3 DEF PageInv, SeenOpen, ReadsOpen, PollOK
  <2> QED BY <2>2, <2>3, <2>4 DEF Owed, Over
<1>7. CASE /\ UNCHANGED <<booting, visits, shown, owed>>
           /\ reconnectionState # "dormant" => reconnectionState' # "dormant"
  BY <1>2, <1>7 DEF PageInv, Bootstrapped
<1>8. CASE Polling /\ ~Dormant
  <2>1. UNCHANGED <<booting, visits, shown, owed>>
    BY <1>8 DEF Polling, PollReads, PollFails, AnotherRun, Settling, Handoff, Dormant, Observing,
      Settled, SameRun, applySnapshot, Timer
  <2>2. reconnectionState # "dormant" => reconnectionState' # "dormant"
    BY <1>8 DEF Polling, PollReads, PollFails, AnotherRun, Settling, Handoff, Dormant, Observing,
      Timer, fail, attempts
  <2> QED BY <1>7, <2>1, <2>2
<1> QED
  BY <1>3, <1>4, <1>5, <1>6, <1>7, <1>8 DEF Next, vars, User, Loading, Submitting, Breaking, reconnection,
     RunBegins, RunWrites, RunStops, Elsewhere, RequestReads, Load, LoadFails, Submit, Interrupt,
     Submits, Accept, Frame, StreamEnds, ConnectFails,
     SubmissionFails, StreamBreaks, Caught, Reloaded, Finally

-----------------------------------------------------------------------------
(* The theorems. *)

(* The invariant holds at first. *)
LEMMA PageInit == Init => PageInv
<1> SUFFICES ASSUME Init PROVE PageInv
  OBVIOUS
<1>0. /\ db \in [Sessions -> Seq([script : Scripts, n : Nat, stopped : BOOLEAN])]
      /\ \A s \in Sessions : \A i \in DOMAIN db[s] : FALSE
  <2>1. /\ <<>> \in Seq([script : Scripts, n : Nat, stopped : BOOLEAN])
        /\ \A i \in DOMAIN <<>> : FALSE
    OBVIOUS
  <2> QED BY <2>1 DEF Init
<1>1. TypeOK
  <2>2. /\ 0 \in 0..MaxVisits /\ 0 \in 0..MaxSubmissions /\ 0 \in 0..MaxUnobservable
        /\ 0 \in 0..MaxHandoff /\ 0 \in 0..MaxSettlement /\ 0 \in 0..0
    BY Bounds
  <2> QED BY <1>0, <2>2, NewPollFacts DEF Init, TypeOK
<1>2. PageTypes /\ ShownSessionOnly /\ OneSubmission
  <2>1. /\ shown = "" /\ canonicalTranscript = TranscriptFor("", <<>>)
        /\ inspector = InspectorFor("", Unlooked)
    BY DEF Init
  <2>2. /\ TranscriptFor("", <<>>) \in
             [session : Sessions \cup {""}, runs : Seq(SUBSET InTranscript)]
        /\ TranscriptFor("", <<>>).session = ""
    BY EmptyTranscript DEF TranscriptFor
  <2>3. /\ InspectorFor("", Unlooked) \in
             [session : Sessions \cup {""}, run : Nat, status : {"none", "running", "complete"}]
        /\ InspectorFor("", Unlooked).session = ""
    BY UnlookedFacts DEF InspectorFor
  <2>4. liveEvents = {} /\ submissions = {}
    BY DEF Init
  <2> QED BY <2>1, <2>2, <2>3, <2>4 DEF PageTypes, ShownSessionOnly, OneSubmission
<1>3. Opened /\ Polled /\ ReconnectionDriven
  <2>1. /\ visits = 0 /\ submissions = {} /\ booting = {} /\ requests = {}
        /\ poll = NoPoll /\ ~scheduled /\ reconnectionState = "dormant"
    BY DEF Init
  <2>2. ~(visits > 0)
    BY <2>1
  <2> QED BY <2>1, <2>2 DEF Opened, Active, Polled, ReconnectionDriven
<1>4. AnswersAreRead
  BY NewPollFacts DEF Init, AnswersAreRead
<1>5. OneAfterTheOther
  BY <1>0 DEF OneAfterTheOther
<1>6. PollIsTrue
  BY NewPollFacts, EmptyTranscript DEF Init, PollIsTrue
<1>7. SeenOpen /\ Bootstrapped
  BY DEF Init, SeenOpen, Bootstrapped, Owed
<1> QED BY <1>1, <1>2, <1>3, <1>4, <1>5, <1>6, <1>7 DEF PageInv

(* Every step keeps it. *)
LEMMA PageNextInv == PageInv /\ [Next]_vars => PageInv'
<1> SUFFICES ASSUME PageInv, [Next]_vars PROVE PageInv'
  OBVIOUS
<1>1. Steps /\ OwedStep
  BY NextSteps, OwedNext
<1>2. \A r \in requests' : r \in Requests /\ r.session \in Sessions /\ Read(r)
  BY <1>1, RequestsNext DEF Steps
<1>3. PollOK' /\ Reconnecting' /\ Navigating' /\ Viewing'
  BY <1>1, PollNext, ReconnectingNext, NavigatingNext, ViewingNext DEF Steps
<1>4. TypeOK'
  <2>1. DbOK'
    BY <1>1 DEF Steps
  <2> QED BY <1>2, <1>3, <2>1 
       DEF TypeOK, DbOK, Runs, PollOK, Reconnecting, Navigating, Submissions, Viewing
<1>5. PageTypes' /\ ShownSessionOnly' /\ OneSubmission' /\ PollIsTrue'
  BY <1>1, <1>3, PageNext, PollTrueNext DEF Steps, Viewing, OwnPage, ShownSessionOnly
<1>6. Opened' /\ SeenOpen' /\ Bootstrapped'
  BY <1>1, <1>3, OpenedNext, SeenOpenNext, BootstrappedNext DEF Steps
<1>7. Polled' /\ AnswersAreRead' /\ ReconnectionDriven'
  BY <1>2, <1>3 DEF PollOK, Reconnecting, Polled, AttemptsLeft, AnswersAreRead, Read
<1>8. OneAfterTheOther'
  BY <1>1 DEF Steps
<1> QED BY <1>4, <1>5, <1>6, <1>7, <1>8 DEF PageInv

(* The inductive invariant is one. *)
LEMMA PageInvariant == Spec => []PageInv
BY PageInit, PageNextInv, PTL DEF Spec

(* The transcript and the inspector of the page are of the session it is at, and so is what it
   streams or says of failures unless submissions cross; one poll or timer drives an active
   reconnection, and a run that was going on when the page was opened is followed until it is
   over or the page has said that it cannot observe it, whichever loads fail or come late. *)
THEOREM PageIsFollowed == Spec => []PageFollowsRun
<1>1. PageInv => PageFollowsRun
  BY DEF PageInv, PageFollowsRun, Bootstrapped, OpenRunIsFollowed, Owed, runActive
<1> QED BY <1>1, PageInvariant, PTL

(* A reconnection that goes dormant by itself leaves the page with all its run wrote,
   though transcript, list of runs and row were read at moments of their own. *)
THEOREM SettledPagesAreWhole == Spec => SettledIsWhole
<1>1. ASSUME PageInv, [Next]_vars, reconnectionState' = "dormant", reconnectionState # "dormant",
             visits' = visits
      PROVE  /\ Ended(db[shown][observedRunId'])
             /\ canonicalTranscript'.runs[observedRunId'] = TranscriptOf(shown)[observedRunId']
             /\ inspector'.run = observedRunId' /\ isTerminalRunStatus(inspector'.status)
  <2>1. Dormant
    <3>1. ~\E s \in Sessions : VisitFresh(s) \/ Revisit(s)
      <4>1. ASSUME NEW s \in Sessions, VisitFresh(s) \/ Revisit(s) PROVE FALSE
        <5>1. visits' = visits + 1
          BY <4>1 DEF VisitFresh, Revisit, Visit
        <5> QED BY <1>1, <5>1, PageFacts
      <4> QED BY <4>1
    <3>2. ~UNCHANGED reconnectionState
      BY <1>1
    <3>3. ~BootDone
      BY <1>1, <3>2 DEF BootDone, start, reconnection
    <3>4. Polling => Dormant
      BY <1>1, <3>2 DEF Polling, PollReads, PollFails, AnotherRun, Settling, Handoff, Observing,
        Timer, fail
    <3> QED BY <1>1, <3>1, <3>2, <3>3, <3>4 DEF Next, vars, User, Loading, Submitting, Breaking, reconnection,
      RunBegins, RunWrites, RunStops, Elsewhere, RequestReads, Load, LoadFails, Submit, Interrupt,
      Submits, Accept, Frame, StreamEnds, ConnectFails,
     SubmissionFails, StreamBreaks, Caught, Reloaded, Finally
  <2>2. /\ Ended(db[shown][poll.look.run])
        /\ poll.transcript[poll.look.run] = TranscriptOf(shown)[poll.look.run]
        /\ poll.look.status = "complete"
    BY <1>1, <2>1, DormantIsSettled
  <2>3. /\ observedRunId' = poll.look.run
        /\ canonicalTranscript' = TranscriptFor(poll.session, poll.transcript)
        /\ inspector' = InspectorFor(poll.session, poll.look)
    BY <2>1 DEF Dormant, Settled, SameRun, applySnapshot
  <2> QED BY <2>2, <2>3 DEF TranscriptFor, InspectorFor, isTerminalRunStatus
<1> QED BY <1>1, PageInvariant, PTL DEF SettledIsWhole, Spec
=============================================================================
