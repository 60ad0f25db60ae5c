-------------------------- MODULE OperationLogProofs --------------------------
(***************************************************************************)
(* The log of an op through cuts and restarts: for any number of lines,    *)
(* seconds, cuts and restarts, and any MAX_LOGS.                           *)
(***************************************************************************)
EXTENDS OperationLog, SequenceTheorems, WellFoundedInduction, TLAPS

\* The clock of the container: a line is of its second, and no second comes back.
Written ==
    /\ \A i, j \in DOMAIN lines : i <= j => lines[i] <= lines[j]
    /\ \A i \in DOMAIN lines : lines[i] <= second

\* The last line heard.
Newest == heard[Len(heard)]

\* The second to ask for is that after the last line heard, while the run listens.
LastIsNewest == run # "over" => last = IF heard = <<>> THEN 0 ELSE lines[Newest]

\* What a stream has not brought is newer than what was heard: it was opened for the second after
\* the last line's, or has brought one.
Resumes ==
    run # "over" /\ stream.at # "none" =>
        \/ stream.next = 1 /\ stream.since = last + 1
        \/ heard # <<>> /\ stream.next = Newest + 1 /\ stream.since <= last

\* The first part of a frame is kept only while the stream it came by is.
PartIsOfTheStream == stream.at # "none" => remainder = stream.half

\* Only lines that were written are heard.
HeardWasWritten == Heard \subseteq DOMAIN lines

Followed ==
    /\ TypeOK /\ Written /\ LastIsNewest /\ Resumes /\ PartIsOfTheStream /\ HeardWasWritten
    /\ KeepsTheNewest /\ OnlyTheSecondIsLost

\* Nothing cut the stream, and docker restarts nothing.
Undisturbed == ~aborted /\ policy # "docker" /\ left.cuts = MaxCuts

\* A line that was heard, or a line of its second before it.
Covered(i) == i \in Heard \/ \E j \in Heard : j < i /\ lines[j] = lines[i]

\* A container that is down for good, and nothing of its log left out.
Complete == box = "down" /\ \A i \in DOMAIN lines : Covered(i)

\* Where nothing disturbs them: a restart in place is what restarts the container, an exit is known
\* once it is real and no stream is to be opened, and a stream that stays closed was brought to its end.
Settled ==
    Undisturbed =>
        /\ sm.restarting <=> box = "restarting"
        /\ sm.state = "exited" => box = "down" /\ ~timer /\ stream.at # "opening"
        /\ run # "on" => sm.state = "exited"
        /\ run # "over" /\ stream.at = "none" /\ ~timer => Complete
        /\ run = "over" /\ ~late => Complete
        /\ policy = "none" => /\ box # "restarting" /\ ~timer
                              /\ stream.at = "opening" => ~sm.on
                              /\ sm.state \in {"starting", "exited"}

-----------------------------------------------------------------------------
(* The least of what a stream has to bring.                                    *)

LEMMA Bounds ==
    /\ MaxLines \in Nat /\ MaxCuts \in Nat /\ MaxRestarts \in Nat
    /\ MaxSeconds \in Nat \ {0} /\ MaxLogs \in Nat \ {0}
BY LogAssumption

Below == {ss \in Nat \X Nat : ss[1] < ss[2]}

\* A set of numbers that is not empty has a least one.
LEMMA LeastExists ==
    ASSUME NEW S, S \subseteq Nat, S # {}
    PROVE  \E x \in S : \A y \in S : x <= y
<1>1. IsWellFoundedOn(Below, Nat)
  BY NatLessThanWellFounded DEF OpToRel, Below
<1>2. PICK x \in S : \A y \in S : <<y, x>> \notin Below
  BY <1>1, WFMin
<1>3. ASSUME NEW y \in S PROVE x <= y
  <2>1. x \in Nat /\ y \in Nat /\ <<y, x>> \notin Below
    BY <1>2
  <2>2. ~(y < x)
    BY <2>1 DEF Below
  <2> QED BY <2>1, <2>2
<1> QED BY <1>3

\* The fields of the monitor and of the stream.
LEMMA FieldsTyped ==
    ASSUME TypeOK
    PROVE  /\ sm \in MonitorState /\ stream \in StreamState
           /\ sm.on \in BOOLEAN /\ sm.restarting \in BOOLEAN
           /\ sm.state \in {"starting", "running", "restarting", "exited"}
           /\ stream.at \in {"none", "opening", "open"} /\ stream.since \in 0..MaxSeconds + 1
           /\ stream.next \in 1..MaxLines + 1 /\ stream.half \in BOOLEAN
<1>1. sm \in MonitorState /\ stream \in StreamState
  BY DEF TypeOK
<1>2. sm.on \in BOOLEAN /\ sm.restarting \in BOOLEAN /\ sm.state \in {"starting", "running", "restarting", "exited"}
  BY <1>1 DEF MonitorState
<1>3. /\ stream.at \in {"none", "opening", "open"} /\ stream.since \in 0..MaxSeconds + 1
      /\ stream.next \in 1..MaxLines + 1 /\ stream.half \in BOOLEAN
  BY <1>1 DEF StreamState
<1> QED BY <1>1, <1>2, <1>3

\* The line a stream brings next is the first it has not brought.
LEMMA NextLineIsFirst ==
    ASSUME TypeOK, Brings(stream.next, stream.since) # {}
    PROVE  /\ NextLine \in Brings(stream.next, stream.since)
           /\ \A j \in Brings(stream.next, stream.since) : NextLine <= j
<1>1. stream.next \in Nat /\ Len(lines) \in Nat
  BY FieldsTyped, Bounds DEF TypeOK
<1>2. Brings(stream.next, stream.since) \subseteq Nat
  BY <1>1 DEF Brings
<1>3. \E i \in Brings(stream.next, stream.since) : \A j \in Brings(stream.next, stream.since) : i <= j
  BY <1>2, LeastExists
<1> QED BY <1>3 DEF NextLine

LEMMA NextLineTyped ==
    ASSUME TypeOK, Brings(stream.next, stream.since) # {}
    PROVE  /\ NextLine \in DOMAIN lines /\ NextLine \in 1..MaxLines
           /\ stream.next <= NextLine /\ lines[NextLine] \in 1..MaxSeconds /\ stream.since <= lines[NextLine]
<1>1. NextLine \in Brings(stream.next, stream.since)
  BY NextLineIsFirst
<1>2. stream.next \in 1..MaxLines + 1 /\ Len(lines) \in Nat /\ Len(lines) <= MaxLines /\ lines \in Seq(1..MaxSeconds)
  BY FieldsTyped, Bounds DEF TypeOK
<1>3. NextLine \in stream.next..Len(lines) /\ lines[NextLine] >= stream.since
  BY <1>1 DEF Brings
<1>4. NextLine \in 1..Len(lines) /\ NextLine \in 1..MaxLines /\ stream.next <= NextLine
  BY <1>2, <1>3, Bounds
<1>5. lines[NextLine] \in 1..MaxSeconds
  BY <1>2, <1>4, ElementOfSeq
<1>6. stream.since \in Int
  BY FieldsTyped, Bounds
<1> QED BY <1>2, <1>3, <1>4, <1>5, <1>6, Bounds

-----------------------------------------------------------------------------
(* Types.                                                                      *)

\* What a line is kept as.
LEMMA KeepTyped ==
    ASSUME NEW S, saved \in Seq(S), NEW line \in S PROVE Keep(line) \in Seq(S)
<1>1. Len(saved) >= MaxLogs => saved # <<>>
  BY Bounds
<1>2. saved # <<>> => Tail(saved) \in Seq(S)
  BY HeadTailProperties
<1> QED BY <1>1, <1>2 DEF Keep

LEMMA BudgetTyped ==
    ASSUME TypeOK
    PROVE  /\ Cut => left' \in Budget /\ left.cuts > 0 /\ left'.cuts = left.cuts - 1
           /\ Restart => left' \in Budget /\ left'.cuts = left.cuts
<1>1. left \in Budget
  BY DEF TypeOK
<1>2. left.cuts \in 0..MaxCuts /\ left.restarts \in 0..MaxRestarts
  BY <1>1 DEF Budget
<1>3. ASSUME Cut PROVE left' \in Budget /\ left.cuts > 0 /\ left'.cuts = left.cuts - 1
  <2>1. left.cuts > 0 /\ left' = [left EXCEPT !.cuts = left.cuts - 1] /\ left.cuts - 1 \in 0..MaxCuts
    BY <1>2, <1>3, Bounds DEF Cut
  <2> QED BY <1>1, <2>1 DEF Budget
<1>4. ASSUME Restart PROVE left' \in Budget /\ left'.cuts = left.cuts
  <2>1. left' = [left EXCEPT !.restarts = left.restarts - 1] /\ left.restarts - 1 \in 0..MaxRestarts
    BY <1>2, <1>4, Bounds DEF Restart
  <2> QED BY <1>1, <2>1 DEF Budget
<1> QED BY <1>3, <1>4

LEMMA StreamsTyped ==
    /\ Closed \in StreamState
    /\ \A since \in 0..MaxSeconds + 1 : Stream("opening", since) \in StreamState
BY Bounds DEF Closed, Stream, StreamOf, StreamState

LEMMA TypeStep == TypeOK /\ [Next]_vars => TypeOK'
<1> SUFFICES ASSUME TypeOK, [Next]_vars PROVE TypeOK'
  OBVIOUS
<1> USE DEF container, follower, kept, ends
<1>1. CASE Writes
  <2>1. lines' \in Seq(1..MaxSeconds) /\ Len(lines') = Len(lines) + 1 /\ Len(lines) < MaxLines
    BY <1>1, AppendProperties DEF Writes, TypeOK
  <2>2. Len(lines') <= MaxLines
    BY <2>1, Bounds DEF TypeOK
  <2> QED BY <1>1, <2>1, <2>2 DEF Writes, TypeOK
<1>2. CASE TimePasses
  BY <1>2, Bounds DEF TimePasses, TypeOK
<1>3. CASE Exits \/ DockerRestarts
  BY <1>3, BudgetTyped DEF Exits, DockerRestarts, TypeOK
<1>4. CASE RestartInPlace
  <2>1. sm' \in MonitorState
    BY <1>4, FieldsTyped DEF RestartInPlace, MonitorState
  <2> QED BY <1>4, <2>1, BudgetTyped DEF RestartInPlace, TypeOK
<1>5. CASE RestartReturns
  <2>1. sm' \in MonitorState
    BY <1>5, FieldsTyped DEF RestartReturns, Monitor, MonitorState
  <2> QED BY <1>5, <2>1 DEF RestartReturns, TypeOK
<1>6. CASE Attach
  <2>1. last + 1 \in 0..MaxSeconds + 1
    BY Bounds DEF TypeOK
  <2>2. stream' \in StreamState /\ remainder' \in BOOLEAN
    BY <1>6, <2>1, StreamsTyped DEF Attach, TypeOK
  <2> QED BY <1>6, <2>2 DEF Attach, TypeOK
<1>7. CASE Opens
  <2>1. sm' \in MonitorState /\ stream' \in StreamState
    BY <1>7, FieldsTyped DEF Opens, MonitorState, StreamState
  <2> QED BY <1>7, <2>1 DEF Opens, TypeOK
<1>8. CASE OpenFails
  <2>1. sm' \in MonitorState /\ stream' \in StreamState
    BY <1>8, FieldsTyped, StreamsTyped DEF OpenFails, MonitorState
  <2>2. timer' \in BOOLEAN /\ left' \in Budget
    BY <1>8, BudgetTyped DEF OpenFails, TypeOK
  <2> QED BY <1>8, <2>1, <2>2 DEF OpenFails, TypeOK
<1>9. CASE PartArrives
  <2>1. stream' \in StreamState
    BY <1>9, FieldsTyped DEF PartArrives, StreamState
  <2> QED BY <1>9, <2>1 DEF PartArrives, TypeOK
<1>10. CASE LineArrives
  <2>1. NextLine \in 1..MaxLines /\ lines[NextLine] \in 1..MaxSeconds
    BY <1>10, NextLineTyped DEF LineArrives
  <2>2. stream' \in StreamState
    <3>1. NextLine + 1 \in 1..MaxLines + 1
      BY <2>1, Bounds
    <3> QED BY <1>10, <3>1, FieldsTyped DEF LineArrives, StreamOf, StreamState
  <2>3. heard' \in Seq(0..MaxLines) /\ saved' \in Seq(0..MaxLines)
    <3>1. Arrived \in 0..MaxLines /\ heard \in Seq(0..MaxLines) /\ saved \in Seq(0..MaxLines)
      BY <2>1, Bounds DEF Arrived, TypeOK
    <3>2. Keep(Arrived) \in Seq(0..MaxLines) /\ Append(heard, Arrived) \in Seq(0..MaxLines)
      BY <3>1, KeepTyped, AppendProperties
    <3> QED BY <1>10, <3>1, <3>2 DEF LineArrives
  <2>4. last' \in 0..MaxSeconds
    BY <1>10, <2>1, Bounds DEF LineArrives
  <2> QED BY <1>10, <2>2, <2>3, <2>4 DEF LineArrives, TypeOK
<1>11. CASE Closes
  <2>1. timer' \in BOOLEAN /\ left' \in Budget /\ stream' \in StreamState
    BY <1>11, BudgetTyped, StreamsTyped DEF Closes, TypeOK
  <2> QED BY <1>11, <2>1 DEF Closes, TypeOK
<1>12. CASE WaitSettles
  <2>1. sm' \in MonitorState /\ left' \in Budget
    BY <1>12, FieldsTyped, BudgetTyped DEF WaitSettles, MonitorState, TypeOK
  <2> QED BY <1>12, <2>1 DEF WaitSettles, TypeOK
<1>13. CASE Poll
  <2>1. sm' \in MonitorState
    BY <1>13, FieldsTyped DEF Poll, MonitorState
  <2> QED BY <1>13, <2>1 DEF Poll, TypeOK
<1>14. CASE WaitForExit \/ Drained \/ Abort
  <2>1. stream' \in StreamState
    BY <1>14, FieldsTyped, StreamsTyped DEF WaitForExit, Drained, Abort
  <2> QED BY <1>14, <2>1 DEF WaitForExit, Drained, Abort, TypeOK
<1>15. CASE UNCHANGED vars
  BY <1>15 DEF vars, TypeOK
<1> QED BY <1>1, <1>2, <1>3, <1>4, <1>5, <1>6, <1>7, <1>8, <1>9, <1>10, <1>11, <1>12, <1>13, <1>14, <1>15 DEF Next

LEMMA InitTyped == Init => TypeOK
<1> SUFFICES ASSUME Init PROVE TypeOK
  OBVIOUS
<1>1. sm \in MonitorState /\ stream \in StreamState /\ left \in Budget
  BY Bounds, StreamsTyped DEF Init, Monitor, MonitorState, Budget
<1>2. lines = <<>> /\ Len(lines) = 0 /\ lines \in Seq(1..MaxSeconds) /\ heard \in Seq(0..MaxLines) /\ saved \in Seq(0..MaxLines)
  BY DEF Init
<1>3. second \in 1..MaxSeconds /\ last \in 0..MaxSeconds /\ Len(lines) <= MaxLines
  BY <1>2, Bounds DEF Init
<1>4. timer = FALSE /\ remainder = FALSE /\ late = FALSE /\ aborted = FALSE
  BY DEF Init
<1> QED BY <1>1, <1>2, <1>3, <1>4 DEF Init, TypeOK

\* Every variable keeps its type, the numbers within what the container writes and when.
THEOREM LogTypeCorrect == Spec => []TypeOK
BY InitTyped, TypeStep, PTL DEF Spec
-----------------------------------------------------------------------------
(* What is heard, and what of it is kept.                                      *)

\* Where the newest MAX_LOGS of a sequence begin.
From(s) == IF Len(s) > MaxLogs THEN Len(s) - MaxLogs + 1 ELSE 1

\* The newest of one line more are the newest so far and that line, less the oldest when they are full.
LEMMA NewestOfOneMore ==
    ASSUME NEW S, NEW s \in Seq(S), NEW e \in S, NEW t, t = Append(s, e),
           saved = SubSeq(s, From(s), Len(s))
    PROVE  Keep(e) = SubSeq(t, From(t), Len(t))
<1>1. t \in Seq(S) /\ Len(t) = Len(s) + 1 /\ t[Len(s) + 1] = e /\ Len(s) \in Nat
  BY AppendProperties
<1>2. From(t) \in 1..Len(t) /\ From(t) \in 1..Len(s) + 1 /\ From(s) \in 1..Len(s) + 1
  BY <1>1, Bounds DEF From
<1>3. SubSeq(t, From(t), Len(t)) = SubSeq(t, From(t), Len(s)) \o <<e>>
  <2>1. Len(t) \in From(t)..Len(t) /\ Len(t) - 1 = Len(s)
    BY <1>1, <1>2
  <2>2. SubSeq(t, From(t), Len(t)) = SubSeq(t, From(t), Len(t) - 1) \o <<t[Len(t)]>>
    BY <1>1, <1>2, <2>1, SubSeqRecursiveSecond
  <2> QED BY <1>1, <2>1, <2>2
<1>4. SubSeq(t, From(t), Len(s)) = SubSeq(s, From(t), Len(s))
  <2>1. t = s \o <<e>> /\ <<e>> \in Seq(S)
    BY AppendIsConcat
  <2>2. CASE From(t) \in 1..Len(s)
    <3>1. Len(s) \in 1..Len(s)
      BY <1>1, <2>2
    <3>2. SubSeq(s \o <<e>>, From(t), Len(s)) = SubSeq(s, From(t), Len(s))
      BY <2>1, <2>2, <3>1, SubSeqOfConcat1
    <3> QED BY <2>1, <3>2
  <2>3. CASE From(t) = Len(s) + 1
    <3>1. From(t) \in Int /\ Len(s) \in Int /\ Len(s) < From(t)
      BY <1>1, <2>3
    <3>2. SubSeq(t, From(t), Len(s)) = <<>> /\ SubSeq(s, From(t), Len(s)) = <<>>
      BY <3>1, SubSeqEmpty
    <3> QED BY <3>2
  <2> QED BY <1>1, <1>2, <2>2, <2>3
<1>5. SubSeq(s, From(t), Len(s)) = IF Len(saved) >= MaxLogs THEN Tail(saved) ELSE saved
  <2>1. saved \in Seq(S) /\ Len(saved) = Len(s) - From(s) + 1
    <3>1. \A i \in From(s)..Len(s) : s[i] \in S
      BY <1>1, <1>2
    <3>2. Len(saved) = IF From(s) <= Len(s) THEN Len(s) - From(s) + 1 ELSE 0
      BY <1>1, <1>2, <3>1, SubSeqProperties
    <3> QED BY <1>1, <1>2, <3>1, <3>2, SubSeqProperties
  <2>2. CASE Len(s) < MaxLogs
    <3>1. From(t) = 1 /\ From(s) = 1
      BY <1>1, <2>2, Bounds DEF From
    <3>2. ~(Len(saved) >= MaxLogs)
      BY <1>1, <2>1, <2>2, <3>1, Bounds
    <3> QED BY <3>1, <3>2
  <2>3. CASE Len(s) >= MaxLogs
    <3>1. From(s) = Len(s) - MaxLogs + 1 /\ From(t) = From(s) + 1 /\ From(s) \in 1..Len(s)
      BY <1>1, <2>3, Bounds DEF From
    <3>2. Len(saved) >= MaxLogs
      BY <1>1, <2>1, <3>1, Bounds
    <3>3. Len(s) \in From(s)..Len(s)
      BY <1>1, <3>1
    <3>4. Tail(saved) = SubSeq(s, From(s) + 1, Len(s))
      BY <3>1, <3>3, HeadTailOfSubSeq
    <3> QED BY <3>1, <3>2, <3>4
  <2>4. Len(s) < MaxLogs \/ Len(s) >= MaxLogs
    BY <1>1, Bounds
  <2> QED BY <2>2, <2>3, <2>4
<1>6. Keep(e) = SubSeq(s, From(t), Len(s)) \o <<e>>
  <2>1. \A i \in From(t)..Len(s) : s[i] \in S
    BY <1>1, <1>2
  <2>2. SubSeq(s, From(t), Len(s)) \in Seq(S)
    BY <1>1, <1>2, <2>1, SubSeqProperties
  <2>3. Keep(e) = Append(SubSeq(s, From(t), Len(s)), e)
    BY <1>5 DEF Keep
  <2> QED BY <2>2, <2>3, AppendIsConcat
<1> QED BY <1>3, <1>4, <1>6

LEMMA HeardTyped ==
    ASSUME TypeOK
    PROVE  /\ DOMAIN heard = 1..Len(heard) /\ Len(heard) \in Nat
           /\ DOMAIN lines = 1..Len(lines) /\ Len(lines) \in Nat
           /\ \A k \in DOMAIN heard : heard[k] \in Nat
           /\ \A i \in DOMAIN lines : lines[i] \in 1..MaxSeconds
BY Bounds, LenProperties, ElementOfSeq DEF TypeOK

\* The last line heard is the newest of them.
LEMMA NewestIsLast ==
    ASSUME TypeOK, KeepsTheNewest, HeardWasWritten, heard # <<>>
    PROVE  /\ Newest \in Heard /\ Newest \in DOMAIN lines
           /\ \A j \in Heard : j <= Newest
<1>1. Len(heard) \in DOMAIN heard
  BY HeardTyped, EmptySeq DEF TypeOK
<1>2. Newest \in Heard
  BY <1>1 DEF Newest, Heard
<1>3. ASSUME NEW k \in DOMAIN heard PROVE heard[k] <= Newest
  <2>1. k = Len(heard) \/ k < Len(heard)
    BY HeardTyped
  <2>2. k < Len(heard) => heard[k] < Newest
    BY <1>1 DEF KeepsTheNewest, Newest
  <2>3. heard[k] \in Nat /\ Newest \in Nat
    BY <1>1, HeardTyped DEF Newest
  <2> QED BY <2>1, <2>2, <2>3 DEF Newest
<1> QED BY <1>2, <1>3 DEF HeardWasWritten, Heard

\* What a stream passes over, or has brought, was heard, or a line of its second was before it.
LEMMA PassedIsCovered ==
    ASSUME Followed, run # "over", stream.at # "none", NEW i \in DOMAIN lines,
           i \notin Brings(stream.next, stream.since)
    PROVE  Covered(i)
<1> USE DEF Followed
<1>t. /\ stream.next \in Nat /\ stream.since \in Nat /\ last \in Nat /\ i \in Nat /\ i \in 1..Len(lines)
      /\ lines[i] \in Nat /\ lines[i] >= 1
  BY FieldsTyped, HeardTyped, Bounds DEF TypeOK
<1>1. i < stream.next \/ lines[i] < stream.since
  BY <1>t, HeardTyped DEF Brings
<1>2. heard # <<>>
  BY <1>t, <1>1 DEF Resumes, LastIsNewest
<1>3. /\ Newest \in Heard /\ Newest \in DOMAIN lines /\ Newest \in Nat
      /\ last = lines[Newest]
  BY <1>2, NewestIsLast, HeardTyped DEF LastIsNewest
<1>4. i <= Newest \/ (lines[i] = lines[Newest] /\ Newest < i)
  <2>1. CASE i > Newest
    <3>1. lines[Newest] <= lines[i]
      BY <1>3, <1>t, <2>1 DEF Written
    <3>2. lines[i] <= lines[Newest]
      BY <1>1, <1>3, <1>t, <2>1 DEF Resumes
    <3> QED BY <1>3, <1>t, <2>1, <3>1, <3>2, HeardTyped
  <2> QED BY <1>3, <1>t, <2>1
<1>5. CASE i = Newest
  BY <1>3, <1>5 DEF Covered
<1>6. CASE i < Newest
  BY <1>3, <1>6, <1>t DEF OnlyTheSecondIsLost, Covered
<1>7. CASE lines[i] = lines[Newest] /\ Newest < i
  BY <1>3, <1>7 DEF Covered
<1> QED BY <1>3, <1>4, <1>5, <1>6, <1>7, <1>t

\* What a stream has to bring is newer than all that was heard.
LEMMA BroughtIsNewer ==
    ASSUME Followed, run # "over", stream.at # "none", NEW n \in Brings(stream.next, stream.since)
    PROVE  \A j \in Heard : j < n
<1> USE DEF Followed
<1> SUFFICES ASSUME NEW j \in Heard PROVE j < n
  OBVIOUS
<1>1. heard # <<>>
  BY HeardTyped DEF Heard, TypeOK
<1>2. Newest \in DOMAIN lines /\ Newest \in Nat /\ j <= Newest /\ j \in DOMAIN lines /\ j \in Nat
  BY <1>1, NewestIsLast, HeardTyped DEF HeardWasWritten
<1>3. /\ n \in Nat /\ stream.next <= n /\ n \in DOMAIN lines /\ stream.since <= lines[n]
      /\ stream.next \in 1..MaxLines + 1 /\ stream.since \in Nat
  BY FieldsTyped, HeardTyped, Bounds DEF Brings
<1>4. CASE stream.next = Newest + 1
  BY <1>2, <1>3, <1>4
<1>5. CASE stream.since = last + 1
  <2>1. last = lines[Newest] /\ lines[Newest] \in Nat /\ lines[n] \in Nat
    BY <1>1, <1>2, <1>3, HeardTyped DEF LastIsNewest
  <2>2. n <= Newest => lines[n] <= lines[Newest]
    BY <1>2, <1>3 DEF Written
  <2> QED BY <1>2, <1>3, <1>5, <2>1, <2>2
<1> QED BY <1>4, <1>5 DEF Resumes

-----------------------------------------------------------------------------
(* Followed is inductive.                                                      *)

\* A line that arrives is read right, is newer than all that was heard, and leaves out no line but
\* one of a second that was heard of before.
LEMMA ArrivesFollowed == Followed /\ LineArrives => Followed'
<1> SUFFICES ASSUME Followed, LineArrives PROVE Followed'
  OBVIOUS
<1> USE DEF kept, container, ends
<1> DEFINE n == NextLine
<1>t. TypeOK /\ TypeOK'
  BY TypeStep DEF Followed, Next
<1>n. /\ n \in Brings(stream.next, stream.since)
      /\ \A j \in Brings(stream.next, stream.since) : n <= j
      /\ n \in DOMAIN lines /\ n \in 1..MaxLines
  BY <1>t, NextLineIsFirst, NextLineTyped DEF LineArrives
<1>l. /\ lines' = lines /\ second' = second /\ run' = run /\ last' = lines[n] /\ stream.at = "open"
      /\ stream'.at = "open" /\ stream'.next = n + 1 /\ stream'.since = stream.since /\ stream'.half = FALSE
      /\ remainder' = FALSE
  BY DEF LineArrives, StreamOf
<1>a. Arrived = n
  BY <1>l DEF Arrived, Followed, PartIsOfTheStream
<1> HIDE DEF n
<1>1. Written' /\ PartIsOfTheStream'
  BY <1>l DEF Followed, Written, PartIsOfTheStream
<1>2. CASE run = "over"
  <2>1. heard' = heard /\ saved' = saved
    BY <1>2 DEF LineArrives
  <2>2. Heard' = Heard
    BY <2>1 DEF Heard
  <2> QED BY <1>t, <1>l, <1>1, <1>2, <2>1, <2>2
        DEF Followed, LastIsNewest, Resumes, HeardWasWritten, KeepsTheNewest, OnlyTheSecondIsLost
<1>3. CASE run # "over"
  <2>1. heard' = Append(heard, n) /\ saved' = Keep(n)
    BY <1>3, <1>a DEF LineArrives
  <2>2. heard \in Seq(0..MaxLines) /\ n \in 0..MaxLines /\ n \in Nat
    BY <1>t, <1>n, Bounds DEF TypeOK
  <2>3. /\ Len(heard') = Len(heard) + 1 /\ heard' # <<>> /\ heard'[Len(heard')] = n
        /\ \A k \in DOMAIN heard : heard'[k] = heard[k]
        /\ DOMAIN heard' = 1..Len(heard) + 1 /\ DOMAIN heard = 1..Len(heard) /\ Len(heard) \in Nat
    BY <2>1, <2>2, AppendProperties, LenProperties
  <2>4. Heard' = Heard \cup {n}
    <3>1. DOMAIN heard' = DOMAIN heard \cup {Len(heard')}
      BY <2>3
    <3> QED BY <2>3, <3>1 DEF Heard
  <2>5. \A j \in Heard : j < n
    BY <1>3, <1>l, <1>n, BroughtIsNewer
  <2>6. LastIsNewest' /\ HeardWasWritten'
    BY <1>l, <1>n, <2>3, <2>4 DEF Followed, LastIsNewest, HeardWasWritten, Newest
  <2>7. Resumes'
    <3>1. stream.since <= lines[n]
      BY <1>t, NextLineTyped DEF n, LineArrives
    <3> QED BY <1>l, <2>3, <3>1 DEF Resumes, Newest
  <2>8. KeepsTheNewest'
    <3>1. 0 \notin Heard'
      BY <1>n, <2>4 DEF Followed, KeepsTheNewest
    <3>2. ASSUME NEW j \in DOMAIN heard', NEW k \in DOMAIN heard', j < k PROVE heard'[j] < heard'[k]
      <4>1. j \in DOMAIN heard /\ heard'[j] = heard[j] /\ heard[j] \in Heard
        BY <2>3, <3>2 DEF Heard
      <4>2. CASE k \in DOMAIN heard
        BY <2>3, <3>2, <4>1, <4>2 DEF Followed, KeepsTheNewest
      <4>3. CASE k = Len(heard')
        BY <2>3, <2>5, <4>1, <4>3
      <4> QED BY <2>3, <4>2, <4>3
    <3>3. saved = SubSeq(heard, From(heard), Len(heard))
      BY DEF Followed, KeepsTheNewest, From
    <3>4. saved' = SubSeq(heard', From(heard'), Len(heard'))
      BY <2>1, <2>2, <3>3, NewestOfOneMore
    <3> QED BY <3>1, <3>2, <3>4 DEF KeepsTheNewest, From
  <2>9. OnlyTheSecondIsLost'
    <3> SUFFICES ASSUME NEW i \in DOMAIN lines, i \notin Heard, NEW j \in Heard \cup {n}, j > i
                 PROVE  \E h \in Heard \cup {n} : h < i /\ lines[h] = lines[i]
      BY <1>l, <1>t, <2>4, HeardTyped DEF OnlyTheSecondIsLost
    <3>1. CASE j \in Heard
      BY <1>t, <3>1, HeardTyped DEF Followed, OnlyTheSecondIsLost
    <3>2. CASE j = n
      <4>1. i \notin Brings(stream.next, stream.since)
        BY <1>n, <1>t, <3>2, HeardTyped
      <4>2. Covered(i)
        BY <1>3, <1>l, <4>1, PassedIsCovered
      <4> QED BY <4>2 DEF Covered
    <3> QED BY <3>1, <3>2
  <2> QED BY <1>t, <1>1, <2>6, <2>7, <2>8, <2>9 DEF Followed
<1> QED BY <1>2, <1>3

\* A line is written in the second that it is.
LEMMA WritesFollowed == Followed /\ Writes => Followed'
<1> SUFFICES ASSUME Followed, Writes PROVE Followed'
  OBVIOUS
<1> USE DEF kept, follower, ends
<1>t. TypeOK /\ TypeOK'
  BY TypeStep DEF Followed, Next
<1>1. /\ second' = second /\ stream' = stream /\ last' = last /\ remainder' = remainder /\ run' = run
      /\ heard' = heard /\ saved' = saved /\ Heard' = Heard
  BY DEF Writes, Heard
<1>2. /\ Len(lines') = Len(lines) + 1 /\ lines'[Len(lines) + 1] = second
      /\ DOMAIN lines = 1..Len(lines) /\ DOMAIN lines' = 1..Len(lines) + 1 /\ Len(lines) \in Nat
      /\ \A i \in DOMAIN lines : lines'[i] = lines[i] /\ lines[i] \in Nat
      /\ second \in Nat
  BY <1>t, AppendProperties, LenProperties, ElementOfSeq, Bounds DEF Writes, TypeOK
<1>3. Written'
  BY <1>1, <1>2 DEF Followed, Written
<1>4. HeardWasWritten' /\ Heard \subseteq DOMAIN lines
  BY <1>1, <1>2 DEF Followed, HeardWasWritten
<1>5. heard # <<>> => Newest \in DOMAIN lines
  BY NewestIsLast DEF Followed
<1>6. LastIsNewest' /\ Resumes' /\ PartIsOfTheStream' /\ KeepsTheNewest'
  BY <1>1, <1>2, <1>5 DEF Followed, LastIsNewest, Resumes, PartIsOfTheStream, KeepsTheNewest, Newest
<1>7. OnlyTheSecondIsLost'
  <2> SUFFICES ASSUME NEW i \in DOMAIN lines', i \notin Heard, NEW j \in Heard, j > i
               PROVE  \E h \in Heard : h < i /\ lines'[h] = lines'[i]
    BY <1>1, <1>2 DEF OnlyTheSecondIsLost
  <2>1. i \in DOMAIN lines
    BY <1>2, <1>4
  <2>2. PICK h \in Heard : h < i /\ lines[h] = lines[i]
    BY <1>2, <2>1 DEF Followed, OnlyTheSecondIsLost
  <2> QED BY <1>2, <1>4, <2>1, <2>2
<1> QED BY <1>t, <1>3, <1>4, <1>6, <1>7 DEF Followed

\* The other steps hear nothing: they open, close or leave the stream.
LEMMA QuietFollowed ==
    ASSUME Followed, [Next]_vars, lines' = lines, heard' = heard, saved' = saved, last' = last,
           second \in Nat, second' \in Nat, second <= second', run = "over" => run' = "over",
           Resumes', PartIsOfTheStream'
    PROVE  Followed'
<1>1. TypeOK' /\ Heard' = Heard
  BY TypeStep DEF Followed, Heard
<1>2. Written'
  BY HeardTyped DEF Followed, Written
<1> QED BY <1>1, <1>2 DEF Followed, LastIsNewest, HeardWasWritten, KeepsTheNewest, OnlyTheSecondIsLost, Newest

LEMMA FollowedStep == Followed /\ [Next]_vars => Followed'
<1> SUFFICES ASSUME Followed, [Next]_vars PROVE Followed'
  OBVIOUS
<1> USE DEF kept, container, follower, ends
<1>1. ASSUME ~Writes, ~LineArrives
      PROVE  lines' = lines /\ heard' = heard /\ saved' = saved /\ last' = last /\ second \in Nat /\ second' \in Nat /\ second <= second'
  <2>1. lines' = lines /\ heard' = heard /\ saved' = saved /\ last' = last /\ second' \in {second, second + 1}
    BY <1>1 DEF Next, TimePasses, Exits, DockerRestarts, RestartInPlace, RestartReturns, Attach, Opens, OpenFails,
                PartArrives, Closes, WaitSettles, Poll, WaitForExit, Drained, Abort, vars
  <2>2. second \in Nat
    BY Bounds DEF Followed, TypeOK
  <2> QED BY <2>1, <2>2
<1>2. run = "over" => run' = "over"
  BY DEF Next, Writes, TimePasses, Exits, DockerRestarts, RestartInPlace, RestartReturns, Attach, Opens, OpenFails,
         PartArrives, LineArrives, Closes, WaitSettles, Poll, WaitForExit, Drained, Abort, vars
<1>3. ASSUME ~Writes, ~LineArrives PROVE Resumes' /\ PartIsOfTheStream'
  <2> USE <1>1, <1>3
  <2>1. CASE stream' = stream /\ remainder' = remainder
    BY <1>2, <2>1 DEF Followed, Resumes, PartIsOfTheStream, Newest
  <2>2. CASE stream'.at = "none"
    BY <2>2 DEF Resumes, PartIsOfTheStream
  <2>3. CASE Attach /\ ~aborted
    <3>1. /\ stream'.next = 1 /\ stream'.since = last + 1 /\ stream'.half = FALSE
          /\ remainder' = FALSE /\ last' = last
      BY <2>3 DEF Attach, Stream, StreamOf
    <3> QED BY <3>1 DEF Resumes, PartIsOfTheStream
  <2>4. CASE Opens \/ PartArrives
    <3>1. stream.at # "none" /\ stream'.next = stream.next /\ stream'.since = stream.since /\ run' = run
      BY <2>4, FieldsTyped DEF Followed, Opens, PartArrives, StreamState
    <3>2. remainder' = stream'.half
      BY <2>4, <3>1, FieldsTyped DEF Followed, Opens, PartArrives, StreamState, PartIsOfTheStream
    <3> QED BY <3>1, <3>2 DEF Followed, Resumes, PartIsOfTheStream, Newest
  <2>5. CASE OpenFails \/ Closes
    BY <2>2, <2>5 DEF OpenFails, Closes, Closed, Stream, StreamOf
  <2>6. CASE Drained \/ Abort
    BY <2>1, <2>2, <2>6 DEF Drained, Abort, Closed, Stream, StreamOf
  <2>7. ASSUME \/ TimePasses \/ Exits \/ DockerRestarts \/ RestartInPlace \/ RestartReturns \/ WaitSettles \/ Poll
               \/ WaitForExit \/ UNCHANGED vars
               \/ Attach /\ aborted
        PROVE  stream' = stream /\ remainder' = remainder
    BY <2>7 DEF TimePasses, Exits, DockerRestarts, RestartInPlace, RestartReturns, WaitSettles, Poll, WaitForExit,
                Attach, vars
  <2> QED BY <2>1, <2>3, <2>4, <2>5, <2>6, <2>7 DEF Next
<1> QED BY <1>1, <1>2, <1>3, ArrivesFollowed, WritesFollowed, QuietFollowed

LEMMA InitFollowed == Init => Followed
<1> SUFFICES ASSUME Init PROVE Followed
  OBVIOUS
<1>1. /\ lines = <<>> /\ heard = <<>> /\ saved = <<>> /\ last = 0 /\ Len(heard) = 0
      /\ DOMAIN lines = {} /\ DOMAIN heard = {} /\ Len(lines) = 0 /\ Heard = {}
  BY DEF Init, Heard
<1>2. /\ stream.next = 1 /\ stream.since = last + 1 /\ stream.half = FALSE /\ remainder = FALSE
  BY DEF Init, Stream, StreamOf
<1>3. saved = SubSeq(heard, IF Len(heard) > MaxLogs THEN Len(heard) - MaxLogs + 1 ELSE 1, Len(heard))
  BY <1>1, SubSeqEmpty, Bounds
<1>4. Written /\ LastIsNewest /\ Resumes /\ PartIsOfTheStream /\ HeardWasWritten /\ KeepsTheNewest /\ OnlyTheSecondIsLost
  BY <1>1, <1>2, <1>3
    DEF Written, LastIsNewest, Resumes, PartIsOfTheStream, HeardWasWritten, KeepsTheNewest, OnlyTheSecondIsLost
<1> QED BY <1>4, InitTyped DEF Followed

\* However often the stream is cut off and opened again, no line is heard garbled, twice or out of
\* order, the newest MAX_LOGS of them are kept, and one is passed over only when a line of its second
\* was heard before it (ContainerStateManager.attachLogStream, NodeRepository.updateOpStateLogs).
THEOREM KeepsTheLogAlways == Spec => []KeepsTheLog
<1>1. Followed => KeepsTheLog
  BY DEF Followed, KeepsTheLog
<1> QED BY <1>1, InitFollowed, FollowedStep, PTL DEF Spec

-----------------------------------------------------------------------------
(* What the results have.                                                      *)

\* A step that leaves the run undisturbed spends no cut.
LEMMA UndisturbedBefore ==
    ASSUME TypeOK, [Next]_vars, Undisturbed'
    PROVE  Undisturbed /\ policy' = policy /\ ~Cut /\ ~Abort /\ ~DockerRestarts /\ ~OpenFails
<1> USE DEF container, follower, kept, ends
<1>1. policy' = policy /\ (aborted' = aborted \/ aborted' = TRUE)
  BY DEF Next, Writes, TimePasses, Exits, DockerRestarts, RestartInPlace, RestartReturns, Attach, Opens, OpenFails,
         PartArrives, LineArrives, Closes, WaitSettles, Poll, WaitForExit, Drained, Abort, vars
<1>2. left' = left \/ Cut \/ Restart
  BY DEF Next, Writes, TimePasses, Exits, DockerRestarts, RestartInPlace, RestartReturns, Attach, Opens, OpenFails,
         PartArrives, LineArrives, Closes, WaitSettles, Poll, WaitForExit, Drained, Abort, vars
<1>3. left.cuts \in 0..MaxCuts
  BY DEF TypeOK, Budget
<1>4. left.cuts = MaxCuts /\ ~Cut
  BY <1>2, <1>3, BudgetTyped, Bounds DEF Undisturbed
<1> QED BY <1>1, <1>4 DEF Undisturbed, Abort, DockerRestarts, OpenFails

\* What is complete stays so while the container is down and nothing that was heard is forgotten.
LEMMA CompleteStays ==
    ASSUME Complete, box' = box, lines' = lines, heard' = heard PROVE Complete'
BY DEF Complete, Covered, Heard

LEMMA SettledStep == Followed /\ Settled /\ [Next]_vars => Settled'
<1> SUFFICES ASSUME Followed, Settled, [Next]_vars, Undisturbed'
             PROVE  (/\ sm.restarting <=> box = "restarting"
                     /\ sm.state = "exited" => box = "down" /\ ~timer /\ stream.at # "opening"
                     /\ run # "on" => sm.state = "exited"
                     /\ run # "over" /\ stream.at = "none" /\ ~timer => Complete
                     /\ run = "over" /\ ~late => Complete
                     /\ policy = "none" => /\ box # "restarting" /\ ~timer
                                           /\ stream.at = "opening" => ~sm.on
                                           /\ sm.state \in {"starting", "exited"})'
  BY DEF Settled
<1>u. Undisturbed /\ policy' = policy /\ ~Cut /\ ~Abort /\ ~DockerRestarts /\ ~OpenFails
  BY UndisturbedBefore DEF Followed
<1>s. /\ sm.restarting <=> box = "restarting"
      /\ sm.state = "exited" => box = "down" /\ ~timer /\ stream.at # "opening"
      /\ run # "on" => sm.state = "exited"
      /\ run # "over" /\ stream.at = "none" /\ ~timer => Complete
      /\ run = "over" /\ ~late => Complete
      /\ policy = "none" => /\ box # "restarting" /\ ~timer
                            /\ stream.at = "opening" => ~sm.on
                            /\ sm.state \in {"starting", "exited"}
  BY <1>u DEF Settled
<1>d. Complete => box = "down"
  BY DEF Complete
<1>t. /\ sm \in MonitorState /\ stream \in StreamState
      /\ sm.on \in BOOLEAN /\ sm.restarting \in BOOLEAN
  BY FieldsTyped DEF Followed
<1>b. aborted = FALSE /\ policy # "docker"
  BY <1>u DEF Undisturbed, Followed, TypeOK
<1> USE DEF kept, container, follower, ends
<1>1. CASE Writes
  BY <1>1, <1>s, <1>d DEF Writes
<1>2. CASE TimePasses \/ UNCHANGED vars
  BY <1>2, <1>s, CompleteStays DEF TimePasses, vars
<1>3. CASE Exits
  BY <1>3, <1>s, <1>d, <1>u, <1>b DEF Exits
<1>4. CASE RestartInPlace
  <2>1. sm'.restarting = TRUE /\ sm'.state = sm.state
    BY <1>4, <1>t DEF RestartInPlace, MonitorState
  <2> QED BY <1>4, <1>s, <1>d, <2>1 DEF RestartInPlace
<1>5. CASE RestartReturns
  BY <1>5, <1>s, <1>d DEF RestartReturns, Monitor
<1>6. CASE Attach
  BY <1>6, <1>s, <1>b, CompleteStays DEF Attach, Stream, StreamOf
<1>7. CASE Opens
  <2>1. sm'.restarting = sm.restarting /\ sm'.state = sm.state /\ stream'.at = "open"
    BY <1>7, <1>t DEF Opens, MonitorState, StreamState
  <2> QED BY <1>7, <1>s, <2>1, CompleteStays DEF Opens
<1>8. CASE PartArrives
  <2>1. stream'.at = "open"
    BY <1>8, <1>t DEF PartArrives, StreamState
  <2> QED BY <1>8, <1>s, <2>1, CompleteStays DEF PartArrives
<1>9. CASE LineArrives
  <2>1. stream'.at = "open"
    BY <1>9 DEF LineArrives, StreamOf
  <2>2. run = "over" => heard' = heard
    BY <1>9 DEF LineArrives
  <2> QED BY <1>9, <1>s, <2>1, <2>2, CompleteStays DEF LineArrives
<1>10. CASE Closes
  <2>1. /\ box # "up" /\ Brings(stream.next, stream.since) = {} /\ stream.at = "open" /\ stream'.at = "none"
        /\ timer' = ((sm.state = "running" \/ sm.restarting) /\ ~aborted)
        /\ UNCHANGED <<box, lines, heard, sm, run, late>>
    BY <1>10, <1>u DEF Closes, Closed, Stream, StreamOf
  <2>2. box \in {"up", "down", "restarting"}
    BY DEF Followed, TypeOK
  <2>3. run # "over" /\ box = "down" => Complete
    BY <2>1, PassedIsCovered DEF Complete
  <2>4. sm.state = "exited" => ~timer'
    BY <1>s, <2>1
  <2>5. policy = "none" => ~timer'
    BY <1>s, <2>1
  <2>6. run # "over" /\ ~timer' => Complete
    BY <1>s, <1>b, <2>1, <2>2, <2>3
  <2>7. Complete => Complete'
    BY <2>1, CompleteStays
  <2> QED BY <1>s, <1>u, <2>1, <2>4, <2>5, <2>6, <2>7
<1>11. CASE WaitSettles
  <2>1. box = "down" /\ sm'.state = "exited" /\ sm'.restarting = sm.restarting /\ sm'.on = sm.on
    BY <1>11, <1>t, <1>u, <1>b DEF WaitSettles, MonitorState
  <2> QED BY <1>11, <1>s, <2>1, CompleteStays DEF WaitSettles
<1>12. CASE Poll
  <2>1. /\ sm'.state = CASE box = "up" -> "running" [] box = "restarting" -> "restarting" [] OTHER -> "exited"
        /\ sm'.restarting = sm.restarting /\ ~sm.restarting
    BY <1>12, <1>t DEF Poll, MonitorState
  <2>2. /\ box = "down" => ~timer /\ stream.at # "opening"
        /\ run = "on" /\ policy # "none"
        /\ UNCHANGED <<policy, box, lines, heard, stream, timer, run, late>>
    BY <1>12 DEF Poll
  <2>3. box \in {"up", "down"}
    BY <1>s, <2>1 DEF Followed, TypeOK
  <2> QED BY <1>s, <2>1, <2>2, <2>3, CompleteStays
<1>13. CASE WaitForExit
  BY <1>13, <1>s, <1>b, CompleteStays DEF WaitForExit
<1>14. CASE Drained
  <2>1. box = "down" /\ ~timer /\ stream.at # "opening" /\ sm.state = "exited"
    BY <1>14, <1>s DEF Drained
  <2>2. stream.at # "open" => Complete
    BY <1>14, <1>s, <1>t, <2>1 DEF Drained, StreamState
  <2>3. stream.at = "open" => late'
    BY <1>14, <1>b DEF Drained
  <2>4. run' = "over" /\ stream'.at # "opening" /\ UNCHANGED <<policy, box, lines, heard, sm, timer>>
    BY <1>14, <2>1 DEF Drained, Closed, Stream, StreamOf
  <2> QED BY <1>s, <2>1, <2>2, <2>3, <2>4, CompleteStays
<1> QED BY <1>u, <1>1, <1>2, <1>3, <1>4, <1>5, <1>6, <1>7, <1>8, <1>9, <1>10, <1>11, <1>12, <1>13, <1>14 DEF Next

\* When the results are read of a container that docker does not restart by itself and whose stream
\* was not cut off, the last line is among what was heard, unless the run was aborted, the stream did
\* not close in time, or an earlier line of its second was (waitForLogsDrained, Provider).
THEOREM ResultsHaveTheLastLineAlways == Spec => []ResultsHaveTheLastLine
<1>1. Init => Settled
  BY DEF Init, Settled, Monitor, Stream, StreamOf, Policies
<1>2. Followed /\ Settled => ResultsHaveTheLastLine
  BY HeardTyped DEF Followed, Settled, Undisturbed, Complete, Covered, ResultsHaveTheLastLine
<1> QED BY <1>1, <1>2, InitFollowed, FollowedStep, SettledStep, PTL DEF Spec
=============================================================================
