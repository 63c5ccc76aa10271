-------------------------- MODULE StallWatchdogProofs --------------------------
(***************************************************************************)
(* Proofs about StallWatchdog, for every timeout, every size of the pipe   *)
(* and every set of delays of the database.  The invariant follows the     *)
(* output's growth from the pipe to the watchdog's clock: Ordered says     *)
(* what the waiting reports tell, Timely what that and a write's timeout   *)
(* leave of the clock, Prompt what a database that answers at once adds.   *)
(***************************************************************************)
EXTENDS StallWatchdog, SequenceTheorems, TLAPS

LEMMA Numbers ==
    /\ StallTimeout \in Nat /\ StallTimeout >= 5
    /\ Horizon \in Nat /\ Horizon = StallTimeout + 3
    /\ \A t \in 0..Horizon : Later(t) \in 0..Horizon /\ Later(t) <= t + 1
    /\ \A t \in 0..Horizon : t < Horizon => Later(t) = t + 1
  BY StallAssumption DEF StallTimeout, Horizon, Slack, Later

\* What taking a report from the pipe leaves, and what putting one into it makes.
LEMMA Taken ==
    ASSUME NEW p \in Seq(BOOLEAN), p # <<>>
    PROVE  /\ Head(p) = p[1] /\ Head(p) \in BOOLEAN /\ Tail(p) \in Seq(BOOLEAN)
           /\ Len(p) \in Nat /\ Len(p) >= 1 /\ Len(Tail(p)) = Len(p) - 1
           /\ \A i \in 1..Len(p) - 1 : Tail(p)[i] = p[i + 1]
  BY HeadTailProperties, EmptySeq, LenProperties

LEMMA PutIn ==
    ASSUME NEW p \in Seq(BOOLEAN), NEW b \in BOOLEAN
    PROVE  /\ Append(p, b) \in Seq(BOOLEAN) /\ Append(p, b) # <<>>
           /\ Len(p) \in Nat /\ Len(Append(p, b)) = Len(p) + 1
           /\ Len(p) < PipeSize => Len(Append(p, b)) <= PipeSize
           /\ Append(p, b)[Len(p) + 1] = b
           /\ \A i \in 1..Len(p) : Append(p, b)[i] = p[i]
  BY AppendProperties, StallAssumption

LEMMA InitTypeOK == Init => TypeOK
<1> SUFFICES ASSUME Init PROVE TypeOK
  OBVIOUS
<1>1. {age, silent, pause} \subseteq 0..Horizon
  BY Numbers DEF Init
<1>2. pipe \in Seq(BOOLEAN) /\ Len(pipe) <= PipeSize
  BY StallAssumption DEF Init
<1>3. {grew, fails, mediaSeen, checked, stopped, begun, slow} \subseteq BOOLEAN
  BY Zenon DEF Init
<1>4. busy \in 0..WriteTimeout /\ samples \in 0..2
  BY DEF Init, WriteTimeout
<1> QED
  BY <1>1, <1>2, <1>3, <1>4 DEF Init, TypeOK

\* A write starts: what the progress goroutine then waits for.
LEMMA WriteType ==
    ASSUME NEW place \in {"saving", "reporting"}, Write(place), slow \in BOOLEAN
    PROVE  /\ reader' = place /\ busy' \in 0..WriteTimeout
           /\ fails' \in BOOLEAN /\ slow' \in BOOLEAN
<1>1. PICK d \in Durations : busy' = d /\ slow' = (slow \/ d > 0)
  BY DEF Write
<1>2. busy' \in 0..WriteTimeout
  BY <1>1 DEF Durations
<1>3. slow' \in BOOLEAN
  BY <1>1
<1> QED
  BY <1>2, <1>3 DEF Write

LEMMA StepTypeOK == TypeOK /\ [Next]_vars => TypeOK'
<1> SUFFICES ASSUME TypeOK, [Next]_vars PROVE TypeOK'
  OBVIOUS
<1>0. /\ pipe \in Seq(BOOLEAN) /\ Len(pipe) <= PipeSize
      /\ reader \in {"reading", "saving", "reporting"}
      /\ busy \in 0..WriteTimeout /\ samples \in 0..2
      /\ status \in {"waiting_input", "recording"}
      /\ age \in 0..Horizon /\ silent \in 0..Horizon /\ pause \in 0..Horizon
      /\ grew \in BOOLEAN /\ fails \in BOOLEAN /\ mediaSeen \in BOOLEAN
      /\ checked \in BOOLEAN /\ stopped \in BOOLEAN /\ begun \in BOOLEAN /\ slow \in BOOLEAN
  BY DEF TypeOK
<1>1. ASSUME NEW growth \in BOOLEAN, Tick(growth) PROVE TypeOK'
  <2>1. (grew \/ growth) \in BOOLEAN /\ (begun \/ growth) \in BOOLEAN
    OBVIOUS
  <2>2. pipe' \in Seq(BOOLEAN) /\ Len(pipe') <= PipeSize /\ grew' \in BOOLEAN
    <3>1. CASE Len(pipe) < PipeSize
      <4>1. pipe' = Append(pipe, grew \/ growth) /\ grew' = FALSE
        BY <1>1, <3>1 DEF Tick
      <4>2. pipe \in Seq(BOOLEAN)
        BY <1>0
      <4> QED
        BY <2>1, <3>1, <4>1, <4>2, PutIn
    <3>2. CASE ~(Len(pipe) < PipeSize)
      <4>1. pipe' = pipe /\ grew' = (grew \/ growth)
        <5>1. IF Len(pipe) < PipeSize
              THEN pipe' = Append(pipe, grew \/ growth) /\ grew' = FALSE
              ELSE grew' = (grew \/ growth) /\ pipe' = pipe
          BY <1>1, Zenon DEF Tick
        <5> QED
          BY <3>2, <5>1, Zenon
      <4> QED
        BY <1>0, <2>1, <4>1
    <3> QED
      BY <3>1, <3>2
  <2>3. silent' \in 0..Horizon /\ age' \in 0..Horizon
    <3>1. /\ silent' = IF growth \/ ~begun THEN 0 ELSE Later(silent)
          /\ age' = IF mediaSeen THEN Later(age) ELSE age
      BY <1>1, Zenon DEF Tick
    <3>2. silent' \in {0, Later(silent)} /\ age' \in {age, Later(age)}
      BY <3>1, Zenon
    <3>3. Later(silent) \in 0..Horizon /\ Later(age) \in 0..Horizon /\ 0 \in 0..Horizon
      BY <1>0, Numbers
    <3> QED
      BY <1>0, <3>2, <3>3
  <2>4. pause' \in 0..Horizon
    BY <1>0, <1>1, <2>3 DEF Tick
  <2>5. busy' \in 0..WriteTimeout
    BY <1>0, <1>1 DEF Tick, WriteTimeout
  <2>6. checked' \in BOOLEAN /\ begun' \in BOOLEAN
    BY <1>1, <2>1 DEF Tick
  <2>7. {age', silent', pause'} \subseteq 0..Horizon
    BY <2>3, <2>4
  <2>8. /\ {grew', fails', mediaSeen', checked', stopped', begun', slow'} \subseteq BOOLEAN
        /\ reader' = reader /\ samples' = samples /\ status' = status
    BY <1>0, <1>1, <2>2, <2>6, Zenon DEF Tick
  <2> QED
    BY <1>0, <2>2, <2>5, <2>7, <2>8 DEF TypeOK
<1>2. CASE ReadReport
  <2>1. /\ pipe \in Seq(BOOLEAN) /\ pipe # <<>> /\ Len(pipe) <= PipeSize
        /\ pipe' = Tail(pipe)
    BY <1>0, <1>2, Zenon DEF ReadReport
  <2>2. mediaSeen' \in BOOLEAN
    BY <1>2, Zenon DEF ReadReport
  <2>3. age' \in 0..Horizon
    <3>1. age' = IF Head(pipe) THEN 0 ELSE age
      BY <1>2, Zenon DEF ReadReport, AgeAfter
    <3>2. age' \in {0, age}
      BY <3>1, Zenon
    <3> QED
      BY <1>0, <3>2, Numbers
  <2>4. samples' \in 0..2
    <3>1. samples' = IF Head(pipe) /\ samples < 2 THEN samples + 1 ELSE samples
      BY <1>2, Zenon DEF ReadReport
    <3>2. samples' = samples \/ (samples < 2 /\ samples' = samples + 1)
      BY <3>1, Zenon
    <3> QED
      BY <1>0, <3>2
  <2>5. PICK place \in {"saving", "reporting"} : Write(place)
    <3>1. Write(IF samples' = 2 /\ status # "recording" THEN "saving" ELSE "reporting")
      BY <1>2, Zenon DEF ReadReport
    <3> QED
      BY <3>1, Zenon
  <2>6. /\ reader' = place /\ busy' \in 0..WriteTimeout
        /\ fails' \in BOOLEAN /\ slow' \in BOOLEAN
    BY <1>0, <2>5, WriteType
  <2>7. pipe' \in Seq(BOOLEAN) /\ Len(pipe') <= PipeSize
    BY <2>1, Taken, StallAssumption
  <2>8. /\ {grew', fails', mediaSeen', checked', stopped', begun', slow'} \subseteq BOOLEAN
        /\ status' = status /\ silent' = silent /\ pause' = pause
    BY <1>0, <1>2, <2>2, <2>6, Zenon DEF ReadReport
  <2>9. {age', silent', pause'} \subseteq 0..Horizon
    BY <1>0, <2>3, <2>8
  <2> QED
    BY <1>0, <2>4, <2>6, <2>7, <2>8, <2>9 DEF TypeOK
<1>3. CASE SavingReturns
  <2>1. Write("reporting")
    BY <1>3 DEF SavingReturns
  <2>2. /\ reader' = "reporting" /\ busy' \in 0..WriteTimeout
        /\ fails' \in BOOLEAN /\ slow' \in BOOLEAN
    BY <1>0, <2>1, WriteType
  <2>3. status' \in {"waiting_input", "recording"}
    BY <1>0, <1>3 DEF SavingReturns, Started
  <2> QED
    BY <1>0, <1>3, <2>2, <2>3 DEF SavingReturns, TypeOK
<1>4. CASE ReportingReturns
  BY <1>0, <1>4 DEF ReportingReturns, TypeOK
<1>5. CASE Check
  <2>1. stopped' \in BOOLEAN
    BY <1>5 DEF Check
  <2> QED
    BY <1>0, <1>5, <2>1 DEF Check, TypeOK
<1>6. CASE UNCHANGED vars
  BY <1>0, <1>6 DEF vars, TypeOK
<1> QED
  BY <1>1, <1>2, <1>3, <1>4, <1>5, <1>6 DEF Next, Over

-----------------------------------------------------------------------------

\* As long as the output has never paused, reports of growth are followed by nothing
\* else ...
Ordered ==
    pause = 0 =>
       /\ (mediaSeen \/ grew) => begun
       /\ \A i \in 1..Len(pipe) : pipe[i] => begun
       /\ mediaSeen => \A i \in 1..Len(pipe) : pipe[i]
       /\ \A i, j \in 1..Len(pipe) : i < j /\ pipe[i] => pipe[j]

\* ... so that each report starts the count anew and the writes after it are the
\* longest wait: two for its own and two for the other one.
Fits(seconds, wait, place) == seconds + wait <= IF place = "saving" THEN 2 ELSE 4

Timely ==
    pause = 0 =>
       /\ mediaSeen \/ age = 0
       /\ age = 0 \/ pipe # <<>>
       /\ Fits(age, busy, reader)
       /\ ~stopped

\* As long as the database answers at once, the goroutine has taken every report
\* before the next second and knows how long the output has been silent.
Near(seconds, longest) == seconds <= longest + 1

Prompt ==
    ~slow =>
       /\ busy = 0 /\ ~grew
       /\ pipe = <<>> \/ (reader = "reading" /\ Len(pipe) = 1)
       /\ silent <= pause
       /\ begun \/ silent = 0
       /\ pipe # <<>> /\ pipe[1] => begun /\ silent = 0
       /\ pipe = <<>> \/ ~pipe[1] => (mediaSeen <=> begun) /\ age = silent
       /\ mediaSeen => /\ Near(age, pause)
                       /\ ~stopped => age <= StallTimeout /\ (checked => age < StallTimeout)
       /\ stopped => mediaSeen /\ age >= StallTimeout

IInv == TypeOK /\ Ordered /\ Timely /\ Prompt

\* What a second changes, each variable by itself.
LEMMA TickFacts ==
    ASSUME TypeOK, NEW growth \in BOOLEAN, Tick(growth)
    PROVE  /\ ~stopped /\ checked /\ ~checked'
           /\ reader = "reading" => pipe = <<>>
           /\ reader # "reading" => busy > 0
           /\ busy' = IF busy > 0 THEN busy - 1 ELSE 0
           /\ mediaSeen => age' = Later(age)
           /\ ~mediaSeen => age' = age
           /\ begun' <=> begun \/ growth
           /\ growth \/ ~begun => silent' = 0
           /\ ~growth /\ begun => silent' = Later(silent)
           /\ pause' = IF silent' > pause THEN silent' ELSE pause
           /\ Len(pipe) < PipeSize => pipe' = Append(pipe, grew \/ growth) /\ ~grew'
           /\ ~(Len(pipe) < PipeSize) => pipe' = pipe /\ (grew' <=> grew \/ growth)
           /\ reader' = reader /\ fails' = fails /\ (mediaSeen' <=> mediaSeen)
           /\ (stopped' <=> stopped) /\ (slow' <=> slow)
  BY Zenon DEF Tick

LEMMA ClockTypes ==
    ASSUME TypeOK
    PROVE  /\ age \in Nat /\ silent \in Nat /\ pause \in Nat /\ busy \in Nat /\ busy <= 2
           /\ age \in 0..Horizon /\ silent \in 0..Horizon /\ pause \in 0..Horizon
           /\ pipe \in Seq(BOOLEAN) /\ Len(pipe) \in Nat
           /\ grew \in BOOLEAN
<1>1. age \in 0..Horizon /\ silent \in 0..Horizon /\ pause \in 0..Horizon
  BY DEF TypeOK
<1>2. busy \in 0..2 /\ pipe \in Seq(BOOLEAN)
  BY DEF TypeOK, WriteTimeout
<1>3. grew \in BOOLEAN
  BY Zenon DEF TypeOK
<1> QED
  BY <1>1, <1>2, <1>3, Numbers

\* While the output has not paused, whatever begins to grow goes on.
LEMMA TickPause ==
    ASSUME TypeOK, TypeOK', NEW growth \in BOOLEAN, Tick(growth)
    PROVE  /\ silent' <= pause' /\ pause <= pause'
           /\ pause' = 0 => pause = 0 /\ (growth \/ ~begun)
<1>1. /\ silent \in 0..Horizon /\ silent \in Nat /\ pause \in Nat
      /\ silent' \in Nat /\ pause' \in Nat
  BY ClockTypes, Numbers DEF TypeOK
<1>2. silent' <= pause' /\ pause <= pause'
  BY <1>1, TickFacts
<1>3. CASE growth \/ ~begun
  BY <1>1, <1>2, <1>3
<1>4. CASE ~growth /\ begun
  <2>1. silent' = Later(silent)
    BY <1>4, TickFacts
  <2>2. Later(silent) > 0
    BY <1>1, Numbers DEF Later
  <2> QED
    BY <1>1, <1>2, <2>1, <2>2
<1> QED
  BY <1>2, <1>3, <1>4

LEMMA TickOrdered ==
    ASSUME IInv, TypeOK', NEW growth \in BOOLEAN, Tick(growth)
    PROVE  Ordered'
<1> SUFFICES ASSUME pause' = 0
             PROVE  /\ (mediaSeen' \/ grew') => begun'
                    /\ \A i \in 1..Len(pipe') : pipe'[i] => begun'
                    /\ mediaSeen' => \A i \in 1..Len(pipe') : pipe'[i]
                    /\ \A i, j \in 1..Len(pipe') : i < j /\ pipe'[i] => pipe'[j]
  BY DEF Ordered
<1> DEFINE b == grew \/ growth
<1>1. pause = 0 /\ (growth \/ ~begun)
  BY TickPause DEF IInv
<1>2. /\ (mediaSeen \/ grew) => begun
      /\ \A i \in 1..Len(pipe) : pipe[i] => begun
      /\ mediaSeen => \A i \in 1..Len(pipe) : pipe[i]
      /\ \A i, j \in 1..Len(pipe) : i < j /\ pipe[i] => pipe[j]
  BY <1>1 DEF IInv, Ordered
<1>3. /\ begun' <=> begun \/ growth
      /\ mediaSeen' <=> mediaSeen
      /\ Len(pipe) < PipeSize => pipe' = Append(pipe, b) /\ ~grew'
      /\ ~(Len(pipe) < PipeSize) => pipe' = pipe /\ (grew' <=> b)
  BY TickFacts DEF IInv
<1>4. /\ pipe \in Seq(BOOLEAN) /\ b \in BOOLEAN /\ Len(pipe) \in Nat
      /\ b <=> grew \/ growth
  BY ClockTypes DEF IInv
<1>5. /\ b => begun' 
      /\ begun => b
  BY <1>1, <1>2, <1>3, <1>4
<1> HIDE DEF b
<1>6. CASE Len(pipe) < PipeSize
  <2>1. /\ Len(pipe') = Len(pipe) + 1 /\ pipe'[Len(pipe) + 1] = b
        /\ \A i \in 1..Len(pipe) : pipe'[i] = pipe[i]
    BY <1>3, <1>4, <1>6, PutIn
  <2>2. ASSUME NEW i \in 1..Len(pipe') PROVE i \in 1..Len(pipe) \/ i = Len(pipe) + 1
    BY <1>4, <2>1
  <2>3. ASSUME NEW i \in 1..Len(pipe') PROVE pipe'[i] => begun'
    BY <1>2, <1>3, <1>5, <2>1, <2>2
  <2>4. ASSUME NEW i \in 1..Len(pipe'), mediaSeen' PROVE pipe'[i]
    BY <1>2, <1>3, <1>5, <2>1, <2>2, <2>4
  <2>5. ASSUME NEW i \in 1..Len(pipe'), NEW j \in 1..Len(pipe'), i < j, pipe'[i]
        PROVE  pipe'[j]
    <3>1. i \in 1..Len(pipe)
      BY <1>4, <2>1, <2>5
    <3>2. pipe[i] /\ begun /\ b
      BY <1>2, <1>5, <2>1, <2>5, <3>1
    <3> QED
      BY <1>2, <2>1, <2>2, <2>5, <3>1, <3>2
  <2>6. (mediaSeen' \/ grew') => begun'
    BY <1>2, <1>3, <1>6
  <2> QED
    BY <2>3, <2>4, <2>5, <2>6
<1>7. CASE ~(Len(pipe) < PipeSize)
  <2>1. pipe' = pipe /\ (grew' <=> b)
    BY <1>3, <1>7
  <2> QED
    BY <1>2, <1>3, <1>5, <2>1
<1> QED
  BY <1>6, <1>7

LEMMA TickTimely ==
    ASSUME IInv, TypeOK', NEW growth \in BOOLEAN, Tick(growth)
    PROVE  Timely'
<1> SUFFICES ASSUME pause' = 0
             PROVE  /\ mediaSeen' \/ age' = 0
                    /\ age' = 0 \/ pipe' # <<>>
                    /\ Fits(age', busy', reader')
                    /\ ~stopped'
  BY DEF Timely
<1>1. /\ mediaSeen \/ age = 0
      /\ age = 0 \/ pipe # <<>>
      /\ Fits(age, busy, reader)
      /\ ~stopped
  BY TickPause DEF IInv, Timely
<1>2. age \in Nat /\ busy \in Nat /\ age \in 0..Horizon /\ pipe \in Seq(BOOLEAN) /\ grew \in BOOLEAN
  BY ClockTypes DEF IInv
<1>3. /\ reader = "reading" => pipe = <<>>
      /\ reader # "reading" => busy > 0
      /\ busy' = IF busy > 0 THEN busy - 1 ELSE 0
      /\ mediaSeen => age' = Later(age)
      /\ ~mediaSeen => age' = age
      /\ reader' = reader /\ (mediaSeen' <=> mediaSeen) /\ (stopped' <=> stopped)
  BY TickFacts DEF IInv
<1>4. age' \in Nat /\ age' <= age + 1 /\ (mediaSeen' \/ age' = 0)
  BY <1>1, <1>2, <1>3, Numbers DEF Later
<1>5. pipe' # <<>>
  <2>1. CASE Len(pipe) < PipeSize
    BY <1>2, <2>1, TickFacts, PutIn DEF IInv
  <2>2. CASE ~(Len(pipe) < PipeSize)
    <3>1. pipe' = pipe /\ Len(pipe) # 0
      BY <1>2, <2>2, TickFacts, StallAssumption DEF IInv
    <3> QED
      BY <3>1
  <2> QED
    BY <2>1, <2>2
<1>6. Fits(age', busy', reader')
  <2>1. PICK a : a = age'
    OBVIOUS
  <2>2. PICK b : b = busy'
    OBVIOUS
  <2>3. a \in Nat /\ a <= age + 1 /\ b = (IF busy > 0 THEN busy - 1 ELSE 0)
    BY <1>3, <1>4, <2>1, <2>2, Zenon
  <2>4. busy > 0 \/ (reader = "reading" /\ age = 0)
    BY <1>1, <1>3
  <2>5. CASE busy > 0
    <3>1. b = busy - 1 /\ b \in Nat
      BY <1>2, <2>3, <2>5
    <3>2. a + b <= age + busy
      BY <1>2, <2>3, <3>1
    <3>3. a + b <= IF reader = "saving" THEN 2 ELSE 4
      BY <1>1, <1>2, <2>3, <3>1, <3>2 DEF Fits
    <3> QED
      BY <1>3, <2>1, <2>2, <3>3, Zenon DEF Fits
  <2>6. CASE ~(busy > 0)
    <3>1. b = 0 /\ reader = "reading" /\ a <= 1
      BY <1>2, <2>3, <2>4, <2>6
    <3>2. a + b <= 4 /\ ~(reader = "saving")
      BY <2>3, <3>1
    <3> QED
      BY <1>3, <2>1, <2>2, <3>2, Zenon DEF Fits
  <2> QED
    BY <2>5, <2>6
<1> QED
  BY <1>1, <1>3, <1>4, <1>5, <1>6

LEMMA TickPrompt ==
    ASSUME IInv, TypeOK', NEW growth \in BOOLEAN, Tick(growth)
    PROVE  Prompt'
<1> SUFFICES ASSUME ~slow'
             PROVE  /\ busy' = 0 /\ ~grew'
                    /\ pipe' = <<>> \/ (reader' = "reading" /\ Len(pipe') = 1)
                    /\ silent' <= pause'
                    /\ begun' \/ silent' = 0
                    /\ pipe' # <<>> /\ pipe'[1] => begun' /\ silent' = 0
                    /\ pipe' = <<>> \/ ~pipe'[1] => (mediaSeen' <=> begun') /\ age' = silent'
                    /\ mediaSeen' =>
                          /\ Near(age', pause')
                          /\ ~stopped' => /\ age' <= StallTimeout
                                          /\ checked' => age' < StallTimeout
                    /\ stopped' => mediaSeen' /\ age' >= StallTimeout
  BY DEF Prompt
<1>1. /\ busy = 0 /\ ~grew
      /\ silent <= pause
      /\ begun \/ silent = 0
      /\ pipe = <<>> \/ ~pipe[1] => (mediaSeen <=> begun) /\ age = silent
      /\ mediaSeen /\ checked /\ ~stopped => age < StallTimeout
  BY TickFacts DEF IInv, Prompt
<1>2. /\ age \in Nat /\ age \in 0..Horizon /\ silent \in Nat /\ silent \in 0..Horizon
      /\ pause \in Nat /\ pipe \in Seq(BOOLEAN)
  BY ClockTypes DEF IInv
<1>3. /\ ~stopped /\ checked /\ ~checked'
      /\ reader = "reading" => pipe = <<>>
      /\ reader # "reading" => busy > 0
      /\ busy' = IF busy > 0 THEN busy - 1 ELSE 0
      /\ mediaSeen => age' = Later(age)
      /\ ~mediaSeen => age' = age
      /\ begun' <=> begun \/ growth
      /\ growth \/ ~begun => silent' = 0
      /\ ~growth /\ begun => silent' = Later(silent)
      /\ Len(pipe) < PipeSize => pipe' = Append(pipe, grew \/ growth) /\ ~grew'
      /\ reader' = reader /\ (mediaSeen' <=> mediaSeen) /\ (stopped' <=> stopped)
  BY TickFacts DEF IInv
<1>4. reader = "reading" /\ pipe = <<>> /\ busy' = 0
  BY <1>1, <1>3
<1>5. (mediaSeen <=> begun) /\ age = silent
  BY <1>1, <1>4
<1>6. pipe' # <<>> /\ Len(pipe') = 1 /\ (pipe'[1] <=> growth) /\ ~grew'
  <2>1. PICK b : b = (grew \/ growth)
    OBVIOUS
  <2>2. b \in BOOLEAN /\ (b <=> growth)
    BY <1>1, <2>1, Zenon
  <2>3. Len(pipe) = 0 /\ Len(pipe) < PipeSize
    BY <1>4, StallAssumption
  <2>4. pipe' = Append(pipe, b) /\ ~grew'
    BY <1>3, <2>1, <2>3
  <2>5. Append(pipe, b) # <<>> /\ Len(Append(pipe, b)) = 1 /\ Append(pipe, b)[1] = b
    BY <1>2, <2>2, <2>3, PutIn
  <2> QED
    BY <2>2, <2>4, <2>5, Zenon
<1>7. silent' <= pause' /\ pause <= pause'
  BY TickPause DEF IInv
<1>8. age' \in Nat /\ pause' \in Nat /\ silent' \in Nat
  <2>1. age' \in 0..Horizon /\ pause' \in 0..Horizon /\ silent' \in 0..Horizon
    BY DEF TypeOK
  <2> QED
    BY <2>1, Numbers
<1>9. ~growth => (mediaSeen' <=> begun') /\ age' = silent'
  <2>1. CASE begun
    BY <1>3, <1>5, <2>1
  <2>2. CASE ~begun
    BY <1>1, <1>3, <1>5, <2>2
  <2> QED
    BY <2>1, <2>2
<1>10. mediaSeen' => Near(age', pause') /\ age' <= StallTimeout
  <2> SUFFICES ASSUME mediaSeen PROVE Near(age', pause') /\ age' <= StallTimeout
    BY <1>3
  <2>1. PICK a : a = age'
    OBVIOUS
  <2>2. PICK q : q = pause'
    OBVIOUS
  <2>3. a = Later(age) /\ q \in Nat /\ pause <= q
    BY <1>3, <1>7, <1>8, <2>1, <2>2, Zenon
  <2>4. a \in Nat /\ a <= age + 1 /\ age < StallTimeout
    BY <1>1, <1>2, <1>3, <2>3, Numbers DEF Later
  <2>5. Near(a, q) /\ a <= StallTimeout
    <3>1. age \in Nat /\ pause \in Nat /\ age <= pause
      BY <1>1, <1>2, <1>5
    <3>2. a <= q + 1
      BY <2>3, <2>4, <3>1
    <3>3. a <= StallTimeout
      BY <2>4, <3>1, Numbers
    <3> QED
      BY <3>2, <3>3 DEF Near
  <2> QED
    BY <2>1, <2>2, <2>5, Zenon
<1>11. begun' \/ silent' = 0
  BY <1>3
<1> QED
  BY <1>3, <1>4, <1>6, <1>7, <1>9, <1>10, <1>11

\* A write ends within its timeout, and at once if the database always answers at once.
LEMMA WriteWaits ==
    ASSUME TypeOK, NEW place, Write(place)
    PROVE  /\ reader' = place /\ busy' \in {0, 1, 2}
           /\ ~slow' => ~slow /\ busy' = 0
<1>1. PICK d \in Durations : busy' = d /\ slow' = (slow \/ d > 0)
  BY DEF Write
<1>2. d \in {0, 1, 2}
  BY DEF Durations, WriteTimeout
<1>3. d > 0 \/ d = 0
  BY <1>2
<1> QED
  BY <1>1, <1>2, <1>3, Zenon DEF Write

LEMMA ReadFacts ==
    ASSUME TypeOK, ReadReport
    PROVE  /\ reader = "reading" /\ pipe # <<>> /\ ~stopped /\ ~stopped'
           /\ pipe' = Tail(pipe)
           /\ mediaSeen' <=> mediaSeen \/ Head(pipe)
           /\ Head(pipe) => age' = 0
           /\ ~Head(pipe) => age' = age
           /\ grew' <=> grew
           /\ begun' <=> begun
           /\ checked' <=> checked
           /\ silent' = silent /\ pause' = pause
  BY Zenon DEF ReadReport, AgeAfter

LEMMA ReadWrites ==
    ASSUME TypeOK, ReadReport
    PROVE  /\ reader' \in {"saving", "reporting"} /\ busy' \in {0, 1, 2}
           /\ ~slow' => ~slow /\ busy' = 0
<1>1. PICK place \in {"saving", "reporting"} : Write(place)
  <2>1. Write(IF samples' = 2 /\ status # "recording" THEN "saving" ELSE "reporting")
    BY Zenon DEF ReadReport
  <2> QED
    BY <2>1, Zenon
<1> QED
  BY <1>1, WriteWaits

LEMMA ReadOrdered == ASSUME IInv, ReadReport PROVE Ordered'
<1> SUFFICES ASSUME pause' = 0
             PROVE  /\ (mediaSeen' \/ grew') => begun'
                    /\ \A i \in 1..Len(pipe') : pipe'[i] => begun'
                    /\ mediaSeen' => \A i \in 1..Len(pipe') : pipe'[i]
                    /\ \A i, j \in 1..Len(pipe') : i < j /\ pipe'[i] => pipe'[j]
  BY DEF Ordered
<1>1. /\ pipe # <<>> /\ pipe' = Tail(pipe) /\ pause = 0
      /\ mediaSeen' <=> mediaSeen \/ Head(pipe)
      /\ grew' <=> grew
      /\ begun' <=> begun
  BY ReadFacts DEF IInv
<1>2. /\ (mediaSeen \/ grew) => begun
      /\ \A i \in 1..Len(pipe) : pipe[i] => begun
      /\ mediaSeen => \A i \in 1..Len(pipe) : pipe[i]
      /\ \A i, j \in 1..Len(pipe) : i < j /\ pipe[i] => pipe[j]
  BY <1>1 DEF IInv, Ordered
<1>3. pipe \in Seq(BOOLEAN)
  BY ClockTypes DEF IInv
<1>4. /\ Head(pipe) = pipe[1] /\ Len(pipe) \in Nat /\ Len(pipe) >= 1
      /\ Len(pipe') = Len(pipe) - 1
      /\ \A i \in 1..Len(pipe) - 1 : pipe'[i] = pipe[i + 1]
  BY <1>1, <1>3, Taken
<1>5. ASSUME NEW i \in 1..Len(pipe')
      PROVE  /\ i \in 1..Len(pipe) - 1 /\ i + 1 \in 1..Len(pipe) /\ 1 < i + 1
             /\ 1 \in 1..Len(pipe) /\ pipe'[i] = pipe[i + 1]
  BY <1>4
<1>6. ASSUME NEW i \in 1..Len(pipe') PROVE pipe'[i] => begun'
  BY <1>1, <1>2, <1>5
<1>7. ASSUME NEW i \in 1..Len(pipe'), mediaSeen' PROVE pipe'[i]
  BY <1>1, <1>2, <1>4, <1>5, <1>7
<1>8. ASSUME NEW i \in 1..Len(pipe'), NEW j \in 1..Len(pipe'), i < j, pipe'[i]
      PROVE  pipe'[j]
  <2>1. i + 1 < j + 1
    BY <1>4, <1>8
  <2> QED
    BY <1>2, <1>5, <1>8, <2>1
<1>9. (mediaSeen' \/ grew') => begun'
  <2>1. 1 \in 1..Len(pipe)
    BY <1>4
  <2> QED
    BY <1>1, <1>2, <1>4, <2>1
<1> QED
  BY <1>6, <1>7, <1>8, <1>9

LEMMA ReadTimely == ASSUME IInv, ReadReport PROVE Timely'
<1> SUFFICES ASSUME pause' = 0
             PROVE  /\ mediaSeen' \/ age' = 0
                    /\ age' = 0 \/ pipe' # <<>>
                    /\ Fits(age', busy', reader')
                    /\ ~stopped'
  BY DEF Timely
<1>1. /\ pipe # <<>> /\ pause = 0 /\ ~stopped'
      /\ Head(pipe) => age' = 0
      /\ ~Head(pipe) => age' = age
  BY ReadFacts DEF IInv
<1>2. /\ mediaSeen \/ age = 0
      /\ mediaSeen => \A i \in 1..Len(pipe) : pipe[i]
  BY <1>1 DEF IInv, Ordered, Timely
<1>3. pipe \in Seq(BOOLEAN)
  BY ClockTypes DEF IInv
<1>4. Head(pipe) = pipe[1] /\ 1 \in 1..Len(pipe)
  <2>1. pipe # <<>>
    BY <1>1
  <2> QED
    BY <1>3, <2>1, Taken
<1>5. age' = 0
  BY <1>1, <1>2, <1>4
<1>6. Fits(0, busy', reader')
  <2>1. PICK b : b = busy'
    OBVIOUS
  <2>2. b \in {0, 1, 2}
    BY <2>1, ReadWrites DEF IInv
  <2>3. ASSUME NEW c PROVE Fits(0, b, c)
    BY <2>2 DEF Fits
  <2> QED
    BY <2>1, <2>3, Zenon
<1> QED
  BY <1>1, <1>5, <1>6

LEMMA ReadPrompt == ASSUME IInv, ReadReport PROVE Prompt'
<1> SUFFICES ASSUME ~slow'
             PROVE  /\ busy' = 0 /\ ~grew'
                    /\ pipe' = <<>>
                    /\ silent' <= pause'
                    /\ begun' \/ silent' = 0
                    /\ (mediaSeen' <=> begun') /\ age' = silent'
                    /\ mediaSeen' =>
                          /\ Near(age', pause')
                          /\ age' <= StallTimeout
                          /\ checked' => age' < StallTimeout
                    /\ ~stopped'
  BY DEF Prompt
<1>1. /\ reader = "reading" /\ pipe # <<>> /\ ~stopped /\ ~stopped'
      /\ pipe' = Tail(pipe)
      /\ mediaSeen' <=> mediaSeen \/ Head(pipe)
      /\ Head(pipe) => age' = 0
      /\ ~Head(pipe) => age' = age
      /\ grew' <=> grew
      /\ begun' <=> begun
      /\ checked' <=> checked
      /\ silent' = silent /\ pause' = pause
  BY ReadFacts DEF IInv
<1>2. busy' = 0 /\ ~slow
  BY ReadWrites DEF IInv
<1>3. /\ ~grew /\ Len(pipe) = 1 /\ silent <= pause
      /\ begun \/ silent = 0
      /\ pipe[1] => begun /\ silent = 0
      /\ ~pipe[1] => (mediaSeen <=> begun) /\ age = silent
      /\ mediaSeen => age <= StallTimeout /\ (checked => age < StallTimeout)
  BY <1>1, <1>2 DEF IInv, Prompt
<1>4. pipe \in Seq(BOOLEAN) /\ silent \in Nat /\ pause \in Nat
  BY ClockTypes DEF IInv
<1>5. Head(pipe) = pipe[1] /\ pipe' = <<>>
  <2>1. pipe # <<>> /\ pipe' = Tail(pipe) /\ Len(pipe) = 1
    BY <1>1, <1>3
  <2>2. Head(pipe) = pipe[1] /\ Tail(pipe) \in Seq(BOOLEAN) /\ Len(Tail(pipe)) = 0
    BY <1>4, <2>1, Taken
  <2>3. Tail(pipe) = <<>>
    BY <2>2, EmptySeq
  <2> QED
    BY <2>1, <2>2, <2>3
<1>6. (mediaSeen' <=> begun') /\ age' = silent
  BY <1>1, <1>3, <1>5
<1>7. Near(silent, pause)
  BY <1>3, <1>4 DEF Near
<1>8. Near(age', pause')
  <2>1. age' = silent /\ pause' = pause
    BY <1>1, <1>6
  <2> QED
    BY <1>7, <2>1, Zenon
<1>9. mediaSeen' => age' <= StallTimeout /\ (checked' => age' < StallTimeout)
  <2>1. CASE Head(pipe)
    <3>1. 0 <= StallTimeout /\ 0 < StallTimeout
      BY Numbers
    <3> QED
      BY <1>1, <2>1, <3>1
  <2>2. CASE ~Head(pipe)
    BY <1>1, <1>3, <2>2
  <2> QED
    BY <2>1, <2>2
<1> QED
  BY <1>1, <1>2, <1>3, <1>5, <1>6, <1>8, <1>9

\* SetRecordingStarted and UpdateRecordingProgress return: a wait is over, and the
\* pipe and the clocks are as they were.
LEMMA ReturnFacts ==
    ASSUME TypeOK, SavingReturns \/ ReportingReturns
    PROVE  /\ busy = 0 /\ ~stopped /\ ~stopped' /\ age' = age /\ pipe' = pipe
           /\ silent' = silent /\ pause' = pause
           /\ grew' <=> grew
           /\ begun' <=> begun
           /\ mediaSeen' <=> mediaSeen
           /\ checked' <=> checked
           /\ reader # "reading" /\ reader' # "saving" /\ busy' \in {0, 1, 2}
           /\ reader = "saving" \/ busy' = 0
           /\ ~slow' => ~slow /\ busy' = 0
<1>1. CASE SavingReturns
  <2>1. Write("reporting")
    BY <1>1, Zenon DEF SavingReturns
  <2>2. /\ reader' = "reporting" /\ busy' \in {0, 1, 2}
        /\ ~slow' => ~slow /\ busy' = 0
    BY <2>1, WriteWaits
  <2>3. /\ reader = "saving" /\ busy = 0 /\ ~stopped /\ age' = age /\ pipe' = pipe
        /\ silent' = silent /\ pause' = pause
        /\ (stopped' <=> stopped) /\ (grew' <=> grew) /\ (begun' <=> begun)
        /\ (mediaSeen' <=> mediaSeen) /\ (checked' <=> checked)
    BY <1>1, Zenon DEF SavingReturns
  <2> QED
    BY <2>2, <2>3
<1>2. CASE ReportingReturns
  <2>1. /\ reader = "reporting" /\ reader' = "reading" /\ busy = 0 /\ busy' = busy
        /\ ~stopped /\ age' = age /\ pipe' = pipe
        /\ silent' = silent /\ pause' = pause
        /\ (stopped' <=> stopped) /\ (grew' <=> grew) /\ (begun' <=> begun)
        /\ (mediaSeen' <=> mediaSeen) /\ (checked' <=> checked) /\ (slow' <=> slow)
    BY <1>2, Zenon DEF ReportingReturns
  <2> QED
    BY <2>1
<1> QED
  BY <1>1, <1>2

LEMMA ReturnKeeps ==
    ASSUME IInv, SavingReturns \/ ReportingReturns
    PROVE  Ordered' /\ Timely' /\ Prompt'
<1>1. /\ busy = 0 /\ ~stopped /\ ~stopped' /\ age' = age /\ pipe' = pipe
      /\ silent' = silent /\ pause' = pause
      /\ grew' <=> grew
      /\ begun' <=> begun
      /\ mediaSeen' <=> mediaSeen
      /\ checked' <=> checked
      /\ reader # "reading" /\ reader' # "saving" /\ busy' \in {0, 1, 2}
      /\ reader = "saving" \/ busy' = 0
      /\ ~slow' => ~slow /\ busy' = 0
  BY ReturnFacts DEF IInv
<1>2. Ordered'
  BY <1>1 DEF IInv, Ordered
<1>3. Timely'
  <2> SUFFICES ASSUME pause' = 0 PROVE Fits(age', busy', reader')
    BY <1>1 DEF IInv, Timely
  <2>1. Fits(age, 0, reader) /\ age \in Nat
    BY <1>1, ClockTypes DEF IInv, Timely
  <2>2. PICK b : b = busy'
    OBVIOUS
  <2>3. PICK c : c = reader'
    OBVIOUS
  <2>4. b \in {0, 1, 2} /\ c # "saving" /\ (reader = "saving" \/ b = 0)
    BY <1>1, <2>2, <2>3
  <2>5. Fits(age, b, c)
    BY <2>1, <2>4 DEF Fits
  <2> QED
    BY <1>1, <2>2, <2>3, <2>5, Zenon
<1>4. Prompt'
  <2> SUFFICES ASSUME ~slow' PROVE Prompt'
    BY DEF Prompt
  <2>1. ~slow /\ busy' = 0 /\ pipe = <<>> /\ pipe' = <<>>
    BY <1>1 DEF IInv, Prompt
  <2>2. Near(age, pause) => Near(age', pause')
    BY <1>1, Zenon
  <2> QED
    BY <1>1, <2>1, <2>2 DEF IInv, Prompt
<1> QED
  BY <1>2, <1>3, <1>4

LEMMA CheckKeeps ==
    ASSUME IInv, Check
    PROVE  Ordered' /\ Timely' /\ Prompt'
<1>1. /\ ~checked /\ ~stopped /\ checked' /\ (stopped' <=> mediaSeen /\ age >= StallTimeout)
      /\ busy' = busy /\ age' = age /\ pipe' = pipe /\ reader' = reader
      /\ silent' = silent /\ pause' = pause
      /\ (grew' <=> grew) /\ (begun' <=> begun) /\ (mediaSeen' <=> mediaSeen)
      /\ (slow' <=> slow)
  BY Zenon DEF Check
<1>2. age \in Nat /\ busy \in Nat
  BY ClockTypes DEF IInv
<1>3. Ordered'
  BY <1>1 DEF IInv, Ordered
<1>4. Timely'
  <2> SUFFICES ASSUME pause' = 0 PROVE Fits(age', busy', reader') /\ ~stopped'
    BY <1>1 DEF IInv, Timely
  <2>1. Fits(age, busy, reader)
    BY <1>1 DEF IInv, Timely
  <2>2. age < StallTimeout
    BY <1>2, <2>1, Numbers DEF Fits
  <2>3. ~stopped'
    BY <1>1, <1>2, <2>2, Numbers
  <2>4. Fits(age', busy', reader')
    BY <1>1, <2>1, Zenon
  <2> QED
    BY <2>3, <2>4
<1>5. Prompt'
  <2>1. Near(age, pause) => Near(age', pause')
    BY <1>1, Zenon
  <2>2. ~stopped' /\ mediaSeen => age < StallTimeout
    BY <1>1, <1>2, Numbers
  <2>3. age < StallTimeout => age <= StallTimeout
    BY <1>2, Numbers
  <2> QED
    BY <1>1, <2>1, <2>2, <2>3 DEF IInv, Prompt
<1> QED
  BY <1>3, <1>4, <1>5

\* The three facts that make the invariant one: it holds at first, every step keeps it,
\* and it says what the runs check.
LEMMA InitIInv == Init => IInv
<1> SUFFICES ASSUME Init PROVE IInv
  OBVIOUS
<1>1. TypeOK
  BY InitTypeOK
<1>2. Ordered
  BY DEF Init, Ordered
<1>3. Timely
  BY DEF Init, Timely, Fits
<1>4. Prompt
  BY DEF Init, Prompt
<1> QED
  BY <1>1, <1>2, <1>3, <1>4 DEF IInv

LEMMA StepIInv == IInv /\ [Next]_vars => IInv'
<1> SUFFICES ASSUME IInv, [Next]_vars PROVE Ordered' /\ Timely' /\ Prompt'
  BY StepTypeOK DEF IInv
<1>0. TypeOK'
  BY StepTypeOK DEF IInv
<1>1. CASE \E growth \in BOOLEAN : Tick(growth)
  BY <1>0, <1>1, TickOrdered, TickTimely, TickPrompt
<1>2. CASE ReadReport
  BY <1>2, ReadOrdered, ReadTimely, ReadPrompt
<1>3. CASE SavingReturns \/ ReportingReturns
  BY <1>3, ReturnKeeps
<1>4. CASE Check
  BY <1>4, CheckKeeps
<1>5. CASE UNCHANGED vars
  <2>1. Ordered' <=> Ordered
    BY <1>5 DEF vars, Ordered
  <2>2. Timely' <=> Timely
    BY <1>5 DEF vars, Timely, Fits
  <2>3. Prompt' <=> Prompt
    BY <1>5 DEF vars, Prompt, Near
  <2> QED
    BY <2>1, <2>2, <2>3 DEF IInv
<1> QED
  BY <1>1, <1>2, <1>3, <1>4, <1>5 DEF Next, Over

LEMMA IInvJudges == IInv => LiveStreamIsKept /\ StallIsJudged
<1> SUFFICES ASSUME IInv PROVE LiveStreamIsKept /\ StallIsJudged
  OBVIOUS
<1>1. /\ age \in Nat /\ silent \in Nat /\ pause \in Nat /\ StallTimeout \in Nat
      /\ StallTimeout >= 5
  BY ClockTypes, Numbers DEF IInv
<1>2. LiveStreamIsKept
  BY <1>1 DEF IInv, Timely, LiveStreamIsKept
<1>3. ASSUME ~slow, stopped PROVE pause + Slack >= StallTimeout
  <2>1. mediaSeen /\ age >= StallTimeout
    BY <1>3 DEF IInv, Prompt
  <2>2. age <= pause + 1
    BY <1>3, <2>1 DEF IInv, Prompt, Near
  <2> QED
    BY <1>1, <2>1, <2>2 DEF Slack
<1>4. ASSUME ~slow, silent > StallTimeout + Slack PROVE stopped
  <2> SUFFICES ASSUME ~stopped PROVE FALSE
    OBVIOUS
  <2>1. /\ begun \/ silent = 0
        /\ pipe # <<>> /\ pipe[1] => begun /\ silent = 0
        /\ pipe = <<>> \/ ~pipe[1] => (mediaSeen <=> begun) /\ age = silent
        /\ mediaSeen => age <= StallTimeout
    BY <1>4 DEF IInv, Prompt
  <2>2. silent # 0
    BY <1>1, <1>4 DEF Slack
  <2>3. age = silent /\ age <= StallTimeout
    BY <2>1, <2>2
  <2> QED
    BY <1>1, <1>4, <2>3 DEF Slack
<1> QED
  BY <1>2, <1>3, <1>4 DEF StallIsJudged

\* The invariant holds in every reachable state.
THEOREM StallInvariant == Spec => []IInv
<1>1. Init => IInv
  BY InitIInv
<1>2. IInv /\ [Next]_vars => IInv'
  BY StepIInv
<1> QED
  BY <1>1, <1>2, PTL DEF Spec

\* Every variable keeps its type, and the pipe its size.
THEOREM StallTypeOK == Spec => []TypeOK
<1>1. IInv => TypeOK
  BY DEF IInv
<1> QED
  BY <1>1, StallInvariant, PTL

\* Whatever the stream's timeout and however long the database lets its writes wait, a
\* recording whose output never pauses is not stopped as stalled
\* (worker.go:296-298,322-336,351).
THEOREM StallLiveStreamIsKept == Spec => []LiveStreamIsKept
<1>1. IInv => LiveStreamIsKept
  BY IInvJudges
<1> QED
  BY <1>1, StallInvariant, PTL

\* With a database that answers at once, an output that stopped growing is noticed
\* within the timeout and the two seconds of the tickers, and no other is
\* (worker.go:296-298,305-336,347-353).
THEOREM StallIsJudgedHolds == Spec => []StallIsJudged
<1>1. IInv => StallIsJudged
  BY IInvJudges
<1> QED
  BY <1>1, StallInvariant, PTL

=============================================================================
