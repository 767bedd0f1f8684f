-------------------------------- MODULE LogFiles --------------------------------
(***************************************************************************)
(* The log files of a process (CLogger).  Lines go to file m_idx of        *)
(* 1..MaxBak until it has reached MaxSize, then to the next in the ring,   *)
(* emptied first.  The logger opens its files again when the file has      *)
(* been removed, after WriteErrTime failing writes, when the output is     *)
(* turned on again and when the process restarts; after TryTimes failing   *)
(* attempts it tries no more.  One logger serves all the threads of a      *)
(* process, without a lock.                                                *)
(***************************************************************************)
EXTENDS Naturals, FiniteSets, FiniteSetsExt, SequencesExt

CONSTANTS Threads,      \* the threads that log
          MaxBak,       \* m_maxBakFile
          MaxSize,      \* m_maxSize
          Lens,         \* the lengths of lines
          TryTimes, WriteErrTime,
          MaxLines,     \* bound on the lines logged
          MaxFaults     \* bound on restarts, removed files, failures and switching

Files == 1..MaxBak
None == 0                               \* no file; and an invalid descriptor
Fds == 1..Cardinality(Threads) + 1
Gone == MaxBak + 1                      \* the contents of an open file that has been removed

VARIABLES text,     \* what each file contains: a sequence of lines <<number, length>>
          exists,   \* the names in the directory
          opens,    \* the files that can be opened: the directory is there and the disk works
          fds,      \* the file behind each descriptor of the process
          log,      \* the logger
          th,       \* where each thread stands in writeFile
          lines,    \* lines logged so far
          faults,
          round,    \* whether the last file of the ring has been opened ("round"), and the files have
                    \* been opened again after that ("late")
          stray     \* whether a descriptor that is not open has been closed or written to

vars == <<text, exists, opens, fds, log, th, lines, faults, round, stray>>

Closed == [fd |-> None, idx |-> 1, name |-> None, size |-> 0, tries |-> 0, errs |-> 0]
Idle == [pc |-> "idle", line |-> <<0, 0>>, fd |-> None, idx |-> None]

Init == /\ text = [f \in Files |-> <<>>]
        /\ exists = {}
        /\ opens = TRUE
        /\ fds = [d \in Fds |-> None]
        /\ log = Closed
        /\ th = [t \in Threads |-> Idle]
        /\ lines = 0 /\ faults = 0
        /\ round = "first"
        /\ stray = FALSE

Length(ls) == FoldSeq(LAMBDA l, n : n + l[2], 0, ls)
Fault == faults < MaxFaults /\ faults' = faults + 1
FreeFd == CHOOSE d \in Fds : fds[d] = None /\ \A e \in Fds : fds[e] = None => d <= e
Opened(f) == round' = IF f = MaxBak /\ round = "first" THEN "round" ELSE round

-----------------------------------------------------------------------------
\* MUTANT of CloseFile: the descriptor is kept.
CloseFileKeeps(l) == [l EXCEPT !.name = None]

CloseFile(l) == [l EXCEPT !.fd = None, !.name = None]
Shut(d) == /\ fds' = IF d = None THEN fds ELSE [fds EXCEPT ![d] = None]
           /\ stray' = (stray \/ (d # None /\ fds[d] = None))

\* createDir: whether another attempt to open is made.
Tries(l) == l.tries < TryTimes
Failed(l) == [l EXCEPT !.tries = IF @ <= TryTimes THEN @ + 1 ELSE @]

\* openCurrentFile: the last of the files that exist, and the first when that is the last of the ring.
Resumed == LET last == Max(exists \cup {1}) IN IF last >= MaxBak THEN 1 ELSE last

\* closeFile and openCurrentFile, for logger l.
OpenCurrent(l) ==
  LET shut == IF l.fd = None THEN fds ELSE [fds EXCEPT ![l.fd] = None]
      d == CHOOSE d \in Fds : shut[d] = None /\ \A e \in Fds : shut[e] = None => d <= e
      f == Resumed
  IN /\ IF opens /\ Tries(l)
        THEN /\ log' = [CloseFile(l) EXCEPT !.fd = d, !.idx = f, !.name = f, !.size = Length(text[f]), !.tries = 0]
             /\ fds' = [shut EXCEPT ![d] = f]
             /\ exists' = exists \cup {f}
             /\ round' = IF round # "first" THEN "late" ELSE IF f = MaxBak THEN "round" ELSE round
        ELSE /\ log' = Failed(CloseFile(l))
             /\ fds' = shut
             /\ UNCHANGED <<exists, round>>
     /\ stray' = (stray \/ (l.fd # None /\ fds[l.fd] = None))

-----------------------------------------------------------------------------
(* writeFile.                                                              *)

At(t, pc) == th[t].pc = pc
Go(t, pc) == th' = [th EXCEPT ![t].pc = pc]

\* The file is opened when it is not, or its name is gone.
Enter(t) ==
  /\ At(t, "idle") /\ lines < MaxLines
  /\ lines' = lines + 1
  /\ \E n \in Lens : th' = [th EXCEPT ![t].pc = "write", ![t].line = <<lines + 1, n>>]
  /\ IF log.fd = None \/ log.name \notin exists THEN OpenCurrent(log)
     ELSE UNCHANGED <<exists, fds, log, round, stray>>
  /\ UNCHANGED <<text, opens, faults>>

\* The line is dropped when no file is open.
Write(t) ==
  /\ At(t, "write")
  /\ IF log.fd = None THEN th' = [th EXCEPT ![t] = Idle] /\ UNCHANGED <<text, log, stray>>
     ELSE /\ text' = IF fds[log.fd] \in Files
                     THEN [text EXCEPT ![fds[log.fd]] = Append(@, th[t].line)] ELSE text
          /\ stray' = (stray \/ fds[log.fd] = None)
          /\ log' = [log EXCEPT !.errs = 0]
          /\ Go(t, "count")
  /\ UNCHANGED <<exists, opens, fds, lines, faults, round>>

\* A failing write; reOpenFile.
WriteFails(t) ==
  /\ At(t, "write") /\ log.fd # None
  /\ Fault
  /\ IF log.errs + 1 < WriteErrTime
     THEN log' = [log EXCEPT !.errs = @ + 1] /\ UNCHANGED <<exists, fds, round, stray>>
     ELSE OpenCurrent([log EXCEPT !.errs = 0])
  /\ th' = [th EXCEPT ![t] = Idle]
  /\ UNCHANGED <<text, opens, lines>>

NextIdx == IF log.idx >= MaxBak THEN 1 ELSE log.idx + 1

\* MUTANT of Emptied: the next file is opened as it is, without O_TRUNC.
EmptiedNot(f) == text

Emptied(f) == [text EXCEPT ![f] = <<>>]

\* MUTANT of Full: the size is compared with the line alone.
FullLine(t) == th[t].line[2] >= MaxSize

Full(t) == log.size + th[t].line[2] >= MaxSize

\* checkAndNewFile: openNextFile,
Count(t) ==
  /\ At(t, "count")
  /\ LET counted == [log EXCEPT !.size = @ + th[t].line[2]]
     IN IF ~Full(t) THEN /\ log' = counted
                         /\ th' = [th EXCEPT ![t] = Idle]
                         /\ UNCHANGED <<text, exists, fds, round>>
        ELSE IF opens /\ Tries(log)
        THEN /\ log' = [counted EXCEPT !.tries = 0]
             /\ th' = [th EXCEPT ![t] = [@ EXCEPT !.pc = "close", !.fd = FreeFd, !.idx = NextIdx]]
             /\ fds' = [fds EXCEPT ![FreeFd] = NextIdx]
             /\ text' = Emptied(NextIdx)
             /\ exists' = exists \cup {NextIdx}
             /\ Opened(NextIdx)
        ELSE /\ log' = Failed(counted)
             /\ th' = [th EXCEPT ![t] = Idle]
             /\ UNCHANGED <<text, exists, fds, round>>
  /\ UNCHANGED <<opens, lines, faults, stray>>

\* closeFile, whose test, close and reset other threads may come between,
Close(t) == /\ At(t, "close")
            /\ Shut(log.fd)
            /\ Go(t, "install")
            /\ UNCHANGED <<text, exists, opens, log, lines, faults, round>>

\* and the new file takes the place of the old.
Install(t) ==
  /\ At(t, "install")
  /\ log' = [CloseFile(log) EXCEPT !.fd = th[t].fd, !.idx = th[t].idx, !.name = th[t].idx, !.size = 0]
  /\ th' = [th EXCEPT ![t] = Idle]
  /\ UNCHANGED <<text, exists, opens, fds, lines, faults, round, stray>>

-----------------------------------------------------------------------------
\* setOutput(0), and the next writeFile closes the file.
Off == /\ log.fd # None /\ \A t \in Threads : At(t, "idle")
       /\ Fault
       /\ Shut(log.fd) /\ log' = CloseFile(log)
       /\ UNCHANGED <<text, exists, opens, th, lines, round>>

Restart == /\ Fault
           /\ fds' = [d \in Fds |-> None] /\ log' = Closed /\ th' = [t \in Threads |-> Idle]
           /\ UNCHANGED <<text, exists, opens, lines, round, stray>>

RemoveFile(f) == /\ f \in exists /\ Fault
             /\ exists' = exists \ {f}
             /\ text' = [text EXCEPT ![f] = <<>>]
             /\ fds' = [d \in Fds |-> IF fds[d] = f THEN Gone ELSE fds[d]]
             /\ UNCHANGED <<opens, log, th, lines, round, stray>>

Disk == /\ opens' = ~opens /\ IF opens THEN Fault ELSE UNCHANGED faults
        /\ UNCHANGED <<text, exists, fds, log, th, lines, round, stray>>

Writing(t) == Enter(t) \/ Write(t) \/ WriteFails(t) \/ Count(t) \/ Close(t) \/ Install(t)

Next == (\E t \in Threads : Writing(t)) \/ Off \/ Restart \/ (\E f \in Files : RemoveFile(f)) \/ Disk

Spec == Init /\ [][Next]_vars

-----------------------------------------------------------------------------
TypeOK == /\ fds \in [Fds -> Files \cup {None, Gone}]
          /\ log.idx \in Files /\ exists \subseteq Files

\* Descriptors are closed once and written to while they are open; when no thread is at work, at most
\* one is open.  (With two threads both parts fail.)
OwnDescriptors == /\ ~stray
                  /\ Cardinality({d \in Fds : fds[d] # None}) <= 1 + Cardinality({t \in Threads : ~At(t, "idle")})

\* The lines on disk from the oldest file of the ring to the newest are in the order they were logged in,
\* until the files have gone round once and are opened again.
Ordered == LET ring(k) == ((log.idx + k - 1) % MaxBak) + 1
               all == FoldLeft(LAMBDA s, k : s \o text[ring(k)], <<>>, [k \in Files |-> k])
           IN \A i, j \in DOMAIN all : i < j => all[i][1] < all[j][1]
InOrder == round # "late" /\ log.fd # None => Ordered

\* No file outgrows its size by more than a line, while nothing goes wrong.  (Every restart may add a
\* line to a full file, and a disk that fails lets the file grow for ever.)
Bounded == faults = 0 => \A f \in Files : Length(text[f]) < MaxSize + Max(Lens)

\* "Find the log file written last" (CLogger.cpp:146): once the files have gone round, opening them
\* again goes on at the first or the last of them, wherever the lines ended.
ResumesLatest == log.fd # None => Ordered

\* A line is written once files can be opened again; after TryTimes failures none ever is.
Resumes == opens /\ log.fd = None => Tries(log)
=============================================================================
