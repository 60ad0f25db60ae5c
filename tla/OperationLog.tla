---------------------------- MODULE OperationLog ----------------------------
(***************************************************************************)
(* How the log of an operation is followed and kept.  ContainerState-      *)
(* Manager follows the log of the container over a stream of frames that   *)
(* docker may cut off, and asks for what it has not had when it follows it *)
(* again; the 'log' listener of runTaskManagerOperation keeps the newest   *)
(* MAX_LOGS lines in the repository; the provider lets the stream drain    *)
(* before the results are read off what was kept.                          *)
(*                                                                         *)
(* A line is its place in what the container wrote, and its time stamp the *)
(* second it was written in, which is all attachLogStream compares.  The   *)
(* three polls that confirm an exit are one step here (ContainerWatch has  *)
(* them one by one), and so is a restart in place while docker stops and   *)
(* starts the container.  Left out: the text of a line, the copy for the   *)
(* sockets that subscribe, and the statistics stream.                      *)
(***************************************************************************)
EXTENDS Naturals, Sequences, FiniteSets

CONSTANTS
    MaxLines,     \* lines the container writes
    MaxSeconds,   \* seconds in which it writes them
    MaxLogs,      \* MAX_LOGS of the repository
    MaxCuts,      \* streams that docker cuts off, or calls to follow that fail
    MaxRestarts   \* restarts of the container, in place or by its policy

ASSUME LogAssumption ==
    /\ {MaxLines, MaxCuts, MaxRestarts} \subseteq Nat
    /\ {MaxSeconds, MaxLogs} \subseteq Nat \ {0}

\* What may restart the container: nothing, a liveness probe in place, docker by its policy.
Policies == {"none", "liveness", "docker"}

VARIABLES
    policy,     \* what may restart it
    box,        \* the container: up, down for good, restarting by docker, or in place
    lines,      \* the second of every line it wrote
    second,     \* the time
    sm,         \* ContainerStateManager: startMonitoring is over, its state, and restarting
    stream,     \* currentLogStream: none, opening, open, what it brings next, half a frame or a whole
    timer,      \* a call of attachLogStream is scheduled
    last,       \* lastLogTimestamp
    remainder,  \* logRemainder holds the first part of a frame
    heard,      \* the lines the 'log' event has brought, in their order, 0 for a garbled one
    saved,      \* opState.logs
    run,        \* the run: on, draining, over
    late,       \* the time to drain ran out
    aborted,    \* its controller was aborted
    left        \* cuts and restarts still to come

vars == <<policy, box, lines, second, sm, stream, timer, last, remainder, heard, saved, run, late,
          aborted, left>>
container == <<box, lines, second>>
follower == <<sm, stream, timer, last, remainder>>
kept == <<heard, saved>>
ends == <<run, late, aborted>>

MonitorState == [on : BOOLEAN, state : {"starting", "running", "restarting", "exited"}, restarting : BOOLEAN]
StreamState ==
    [at : {"none", "opening", "open"}, since : 0..MaxSeconds + 1, next : 1..MaxLines + 1, half : BOOLEAN]
Budget == [cuts : 0..MaxCuts, restarts : 0..MaxRestarts]

Monitor(on, state, restarting) == [on |-> on, state |-> state, restarting |-> restarting]
StreamOf(at, since, next, half) == [at |-> at, since |-> since, next |-> next, half |-> half]
Stream(at, since) == StreamOf(at, since, 1, FALSE)
Closed == Stream("none", 0)
Cut == left.cuts > 0 /\ left' = [left EXCEPT !.cuts = @ - 1]
Restart == left.restarts > 0 /\ left' = [left EXCEPT !.restarts = @ - 1]

\* The lines from `n` on that a stream opened for `since` brings: docker leaves out the older ones.
Brings(n, since) == {i \in n..Len(lines) : lines[i] >= since}
NextLine == CHOOSE i \in Brings(stream.next, stream.since) :
                \A j \in Brings(stream.next, stream.since) : i <= j

Init ==
    /\ policy \in Policies
    /\ box = "up" /\ lines = <<>> /\ second = 1
    /\ sm = Monitor(FALSE, "starting", FALSE)
    /\ stream = Stream("opening", 1) /\ timer = FALSE
    /\ last = 0 /\ remainder = FALSE
    /\ heard = <<>> /\ saved = <<>>
    /\ run = "on" /\ late = FALSE /\ aborted = FALSE
    /\ left = [cuts |-> MaxCuts, restarts |-> MaxRestarts]

------------------------------------------------------------------------------
(* The container.                                                              *)

Writes ==
    /\ box = "up" /\ Len(lines) < MaxLines
    /\ lines' = Append(lines, second)
    /\ UNCHANGED <<policy, box, second, follower, kept, ends, left>>

TimePasses ==
    /\ second < MaxSeconds
    /\ second' = second + 1
    /\ UNCHANGED <<policy, box, lines, follower, kept, ends, left>>

\* It exits for good, or docker brings it back.
Exits ==
    /\ box = "up"
    /\ \/ box' = "down" /\ left' = left
       \/ policy = "docker" /\ box' = "restarting" /\ Restart
    /\ UNCHANGED <<policy, lines, second, follower, kept, ends>>

DockerRestarts ==
    /\ box = "restarting" /\ policy = "docker"
    /\ box' = "up"
    /\ UNCHANGED <<policy, lines, second, follower, kept, ends, left>>

\* restartContainer(): docker stops the container and starts it again.
RestartInPlace ==
    /\ policy = "liveness" /\ Restart
    /\ box = "up" /\ run = "on" /\ ~aborted /\ sm.on /\ sm.state # "exited" /\ ~sm.restarting
    /\ box' = "restarting"
    /\ sm' = [sm EXCEPT !.restarting = TRUE]
    /\ UNCHANGED <<policy, lines, second, stream, timer, last, remainder, kept, ends>>

RestartReturns ==
    /\ sm.restarting /\ box = "restarting"
    /\ box' = "up"
    /\ sm' = Monitor(sm.on, "running", FALSE)
    /\ UNCHANGED <<policy, lines, second, stream, timer, last, remainder, kept, ends, left>>

------------------------------------------------------------------------------
(* Following the log.                                                          *)

\* Mutants: asks for a second too many, for the second of the last line again.
AttachSince(since) ==
    /\ timer
    /\ timer' = FALSE
    /\ IF aborted THEN UNCHANGED <<remainder, stream>>
       ELSE remainder' = FALSE /\ stream' = Stream("opening", since)
    /\ UNCHANGED <<policy, container, sm, last, kept, ends, left>>
AttachSkipping == AttachSince(last + 2)
AttachRepeating == AttachSince(last)

\* attachLogStream(), when its time has come: a partial frame of the stream before is dropped.
Attach ==
    /\ timer
    /\ timer' = FALSE
    /\ IF aborted THEN UNCHANGED <<remainder, stream>>
       ELSE /\ remainder' = FALSE
            /\ stream' = Stream("opening", last + 1)
    /\ UNCHANGED <<policy, container, sm, last, kept, ends, left>>

\* The first call answered, startMonitoring() goes on to wait for the exit, or to poll.
Opens ==
    /\ stream.at = "opening" /\ ~aborted
    /\ stream' = [stream EXCEPT !.at = "open"]
    /\ sm' = [sm EXCEPT !.on = TRUE]
    /\ UNCHANGED <<policy, container, timer, last, remainder, kept, ends, left>>

\* Mutant: a call that fails is not made again.
OpenFailsForGood ==
    /\ stream.at = "opening"
    /\ \/ aborted /\ left' = left
       \/ Cut
    /\ stream' = Closed
    /\ timer' = FALSE
    /\ sm' = [sm EXCEPT !.on = TRUE]
    /\ UNCHANGED <<policy, container, last, remainder, kept, ends>>

\* The call fails: only a container known to be running is followed again.
OpenFails ==
    /\ stream.at = "opening"
    /\ \/ aborted /\ left' = left
       \/ Cut
    /\ stream' = Closed
    /\ timer' = (sm.state = "running" /\ ~aborted)
    /\ sm' = [sm EXCEPT !.on = TRUE]
    /\ UNCHANGED <<policy, container, last, remainder, kept, ends>>

\* updateOpStateLogs(): the oldest line makes room.
Keep(line) == Append(IF Len(saved) >= MaxLogs THEN Tail(saved) ELSE saved, line)

\* Frames that have not arrived in full wait in logRemainder.
PartArrives ==
    /\ stream.at = "open" /\ Brings(stream.next, stream.since) # {} /\ ~stream.half
    /\ remainder' = TRUE /\ stream' = [stream EXCEPT !.half = TRUE]
    /\ UNCHANGED <<policy, container, sm, timer, last, kept, ends, left>>

\* A frame is read right when what was kept is its first part.
Arrived == IF remainder = stream.half THEN NextLine ELSE 0

\* A frame is complete.  After 'end' nobody listens.
LineArrives ==
    /\ stream.at = "open" /\ Brings(stream.next, stream.since) # {}
    /\ remainder' = FALSE
    /\ stream' = StreamOf("open", stream.since, NextLine + 1, FALSE)
    /\ last' = lines[NextLine]
    /\ IF run = "over" THEN UNCHANGED kept
       ELSE heard' = Append(heard, Arrived) /\ saved' = Keep(Arrived)
    /\ UNCHANGED <<policy, container, sm, timer, ends, left>>

\* The stream closes once the container has stopped and it has brought everything, or is cut off.
\* The log of a container known to run, or being restarted in place, is followed again.
Closes ==
    /\ stream.at = "open"
    /\ \/ box # "up" /\ Brings(stream.next, stream.since) = {} /\ left' = left
       \/ Cut
    /\ stream' = Closed
    /\ timer' = ((sm.state = "running" \/ sm.restarting) /\ ~aborted)
    /\ UNCHANGED <<policy, container, sm, last, remainder, kept, ends>>

------------------------------------------------------------------------------
(* The end of the run.                                                         *)

\* wait() is answered, or fails: the container is taken for exited either way.
WaitSettles ==
    /\ policy = "none" /\ run = "on" /\ sm.on /\ sm.state # "exited"
    /\ IF box = "down" \/ aborted THEN UNCHANGED left ELSE Cut
    /\ sm' = [sm EXCEPT !.state = "exited"]
    /\ UNCHANGED <<policy, container, stream, timer, last, remainder, kept, ends>>

\* A poll finds the container running or restarting, or the third in a row finds it gone.  Three
\* polls take two seconds: the call scheduled last has been made and answered by then.
Poll ==
    /\ policy # "none" /\ run = "on" /\ ~aborted /\ sm.on /\ ~sm.restarting
    /\ sm' = [sm EXCEPT !.state = CASE box = "up" -> "running"
                                    [] box = "restarting" -> "restarting"
                                    [] OTHER -> "exited"]
    /\ box = "down" => ~timer /\ stream.at # "opening"
    /\ UNCHANGED <<policy, container, stream, timer, last, remainder, kept, ends, left>>

\* waitForExit() is over and waitForLogsDrained() begins.
WaitForExit ==
    /\ run = "on" /\ sm.on /\ (sm.state = "exited" \/ aborted)
    /\ run' = "draining"
    /\ UNCHANGED <<policy, container, follower, kept, late, aborted, left>>

\* Mutant: nothing waits for the stream.
DrainedAtOnce ==
    /\ run = "draining"
    /\ run' = "over"
    /\ stream' = IF stream.at = "open" THEN Closed ELSE stream
    /\ UNCHANGED <<policy, container, sm, timer, last, remainder, kept, late, aborted, left>>

\* The stream is gone, or there is no waiting for it; results are read, stopMonitoring() closes it.
Drained ==
    /\ run = "draining"
    /\ \/ stream.at # "open" /\ late' = late
       \/ stream.at = "open" /\ aborted /\ late' = late
       \/ stream.at = "open" /\ ~aborted /\ late' = TRUE
    /\ run' = "over"
    /\ stream' = IF stream.at = "open" THEN Closed ELSE stream
    /\ UNCHANGED <<policy, container, sm, timer, last, remainder, kept, aborted, left>>

\* The controller is aborted: the stream is destroyed.
Abort ==
    /\ run # "over" /\ ~aborted
    /\ aborted' = TRUE
    /\ stream' = IF stream.at = "open" THEN Closed ELSE stream
    /\ UNCHANGED <<policy, container, sm, timer, last, remainder, kept, run, late, left>>

Next ==
    \/ Writes \/ TimePasses \/ Exits \/ DockerRestarts \/ RestartInPlace \/ RestartReturns
    \/ Attach \/ Opens \/ OpenFails \/ PartArrives \/ LineArrives \/ Closes
    \/ WaitSettles \/ Poll \/ WaitForExit \/ Drained \/ Abort

\* Timers fire, docker answers, streams bring what they have, and what is stopped comes back.
Fairness ==
    /\ WF_vars(Attach) /\ WF_vars(Opens) /\ WF_vars(OpenFails /\ aborted) /\ WF_vars(LineArrives) /\ WF_vars(Closes)
    /\ WF_vars(DockerRestarts) /\ WF_vars(RestartReturns)
    /\ WF_vars(WaitSettles) /\ WF_vars(Poll) /\ WF_vars(WaitForExit)

Spec == Init /\ [][Next]_vars /\ Fairness

------------------------------------------------------------------------------
(* Properties.                                                                 *)

Heard == {heard[k] : k \in DOMAIN heard}

\* Every variable keeps its type.
TypeOK ==
    /\ policy \in Policies
    /\ box \in {"up", "down", "restarting"}
    /\ lines \in Seq(1..MaxSeconds) /\ Len(lines) <= MaxLines /\ second \in 1..MaxSeconds
    /\ sm \in MonitorState /\ stream \in StreamState
    /\ timer \in BOOLEAN /\ last \in 0..MaxSeconds /\ remainder \in BOOLEAN
    /\ heard \in Seq(0..MaxLines) /\ saved \in Seq(0..MaxLines)
    /\ run \in {"on", "draining", "over"} /\ late \in BOOLEAN /\ aborted \in BOOLEAN
    /\ left \in Budget

\* However often the stream is cut off and opened again, in the middle of a frame included, no line
\* is heard garbled, twice or out of order, and what is kept is the newest MAX_LOGS of what was heard
\* (ContainerStateManager.attachLogStream, NodeRepository.updateOpStateLogs).
KeepsTheNewest ==
    /\ 0 \notin Heard
    /\ \A j, k \in DOMAIN heard : j < k => heard[j] < heard[k]
    /\ saved = SubSeq(heard, IF Len(heard) > MaxLogs THEN Len(heard) - MaxLogs + 1 ELSE 1, Len(heard))

\* A line another was heard after is missing only when a line of the same second had been heard
\* before it: that is all that asking for the seconds after the last one can pass over
\* (ContainerStateManager.attachLogStream).
OnlyTheSecondIsLost ==
    \A i \in 1..Len(lines) :
        (i \notin Heard /\ \E j \in Heard : j > i) => \E j \in Heard : j < i /\ lines[j] = lines[i]

\* When the results are read of a container that docker does not restart by itself and whose stream
\* was not cut off, the last line is among what was heard, unless the run was aborted or the stream
\* did not close in time, or an earlier line of its second was (waitForLogsDrained, Provider).
ResultsHaveTheLastLine ==
    (run = "over" /\ ~aborted /\ ~late /\ policy # "docker" /\ left.cuts = MaxCuts) =>
        \A i \in 1..Len(lines) : i \in Heard \/ \E j \in Heard : j < i /\ lines[j] = lines[i]

\* Once the log of a container that was seen running is followed, it is followed again after every
\* restart in place and every cut, until the container is taken for exited (the 'close' listener
\* and the catch of attachLogStream).
FollowedAgain ==
    []((policy = "liveness" /\ sm.state = "running" /\ stream.at = "open") =>
        []<>(stream.at = "open" \/ sm.state = "exited" \/ aborted))

\* What is kept of the log is the newest of what was written, in order, but for seconds a cut splits.
KeepsTheLog == KeepsTheNewest /\ OnlyTheSecondIsLost
=============================================================================
