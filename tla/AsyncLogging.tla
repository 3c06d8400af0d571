----------------------------- MODULE AsyncLogging -----------------------------
(***************************************************************************)
(* muduo::AsyncLogging: threads append lines to the buffers of their shard, *)
(* one backend thread collects the buffers and writes them to a LogFile.    *)
(* A line is <<appender, number>>.  Where buffers come from and go back to  *)
(* (nextBuffer, spareBuffers, globalPool_) decides about allocation only    *)
(* and is left out.                                                         *)
(***************************************************************************)
EXTENDS LogFile

CONSTANTS
  Shards,        \* 1..shardCount_
  ShardOf,       \* shardIndex() of each appender; its domain is the appenders
  BufferLines,   \* kLargeBuffer
  DropAbove,     \* 25
  DropKeeps,     \* 2
  MaxLines,      \* bound: lines of each appender
  MaxTime,       \* bound: the clock
  MaxFaults,     \* bound: failures to write or to open
  MaxStarts      \* bound: calls of start()

ASSUME LoggingAssumption ==
  /\ Shards \in Nat \ {0} /\ \A a \in DOMAIN ShardOf : ShardOf[a] \in 1..Shards
  /\ BufferLines \in Nat \ {0}
  /\ DropKeeps \in Nat /\ DropAbove \in Nat /\ DropKeeps <= DropAbove
  /\ CheckEveryN \in Nat \ {0} /\ DayLength \in Nat \ {0}

VARIABLES
  current, full,   \* of each shard: currentBuffer and buffers
  wakeup,          \* wakeup_
  toWrite,         \* buffersToWrite
  bpc, shard,      \* where the backend is; the shard collect() is at
  file, now, faults,
  apc, said,       \* where each appender is, how many lines it has appended
  started, starts, stopping,
  owed,            \* history: the lines appended before stop() was called
  dropped          \* history: the lines of dropped buffers

backendVars == <<toWrite, bpc, shard>>
controlVars == <<started, starts, stopping, owed>>
vars == <<current, full, wakeup, backendVars, file, now, faults, apc, said, controlVars,
          dropped>>

Appenders == DOMAIN ShardOf
Note == <<"Dropped log messages">>

Init ==
  /\ current = [s \in 1..Shards |-> <<>>] /\ full = [s \in 1..Shards |-> <<>>]
  /\ wakeup = 0
  /\ toWrite = <<>> /\ bpc = "none" /\ shard = 1
  /\ file = NoFile /\ now = 0 /\ faults = 0
  /\ apc = [a \in Appenders |-> "idle"] /\ said = [a \in Appenders |-> 0]
  /\ started = FALSE /\ starts = 0 /\ stopping = FALSE
  /\ owed = {} /\ dropped = {}

(* release() of a binary_semaphore that is not zero is undefined: it counts *)
(* on, or it stays.                                                         *)
Released(n) == IF n = 0 THEN {1} ELSE {n, 2}

----------------------------------------------------------------------------
(* append(): the region under the lock of the shard, and the wakeup.        *)
Append1(a) ==
  LET s == ShardOf[a]
      line == <<a, said[a] + 1>>
      fits == Len(current[s]) < BufferLines
  IN  /\ apc[a] = "idle" /\ said[a] < MaxLines
      /\ said' = [said EXCEPT ![a] = @ + 1]
      /\ IF fits
         THEN /\ current' = [current EXCEPT ![s] = Append(@, line)]
              /\ UNCHANGED <<full, apc>>
         ELSE /\ full' = [full EXCEPT ![s] = Append(@, current[s])]
              /\ current' = [current EXCEPT ![s] = <<line>>]
              /\ apc' = [apc EXCEPT ![a] = "wake"]
      /\ UNCHANGED <<wakeup, backendVars, file, now, faults, controlVars, dropped>>

Wakeup(a) ==
  /\ apc[a] = "wake"
  /\ apc' = [apc EXCEPT ![a] = "idle"]
  /\ wakeup' \in Released(wakeup)
  /\ UNCHANGED <<current, full, backendVars, file, now, faults, said, controlVars, dropped>>

----------------------------------------------------------------------------
(* start() and stop().                                                      *)
Start ==
  /\ ~started /\ ~stopping /\ starts < MaxStarts
  /\ started' = TRUE /\ starts' = starts + 1
  /\ bpc' = "open" /\ shard' = 1 /\ toWrite' = <<>>
  /\ UNCHANGED <<current, full, wakeup, file, now, faults, apc, said, stopping, owed, dropped>>

(* request_stop() runs the callback that releases wakeup_.  start() has     *)
(* waited for the backend to be in its loop.                                *)
Stop ==
  /\ started /\ bpc # "open"
  /\ started' = FALSE /\ stopping' = TRUE
  /\ wakeup' \in Released(wakeup)
  /\ owed' = UNION {{<<a, n>> : n \in 1..said[a]} : a \in Appenders}
  /\ UNCHANGED <<current, full, backendVars, file, now, faults, apc, said, starts, dropped>>

Join ==
  /\ stopping /\ bpc = "done"
  /\ stopping' = FALSE
  /\ UNCHANGED <<current, full, wakeup, backendVars, file, now, faults, apc, said, started,
                 starts, owed, dropped>>

----------------------------------------------------------------------------
(* The backend: threadFunc().                                               *)
Goes(to) == bpc' = to /\ shard' = 1

(* What the file system does may fail, MaxFaults times.                     *)
Counted(fails) ==
  /\ fails => faults < MaxFaults
  /\ faults' = IF fails THEN faults + 1 ELSE faults

(* LogFile::append(): a prefix of the lines is written, and if it rolls the *)
(* next file is opened or not.                                              *)
Writes(lines) ==
  \E prefix \in 0..Len(lines), open \in BOOLEAN :
    /\ Counted(prefix < Len(lines) \/ ~open)
    /\ file' = AppendUnlocked(file, lines, now, prefix, open)

Open ==
  /\ bpc = "open"
  /\ \E open \in BOOLEAN : Counted(~open) /\ file' = NewLogFile(file, now, open)
  /\ Goes("loop")
  /\ UNCHANGED <<current, full, wakeup, toWrite, now, apc, said, controlVars, dropped>>

Continues == ~stopping

(* Mutant: the wait has no timeout.                                         *)
WaitEndsSignalled == wakeup > 0

WaitEnds == TRUE

(* The head of the loop and try_acquire_for(): a signal, or the timeout.    *)
Wait ==
  /\ bpc = "loop" /\ Continues /\ WaitEnds
  /\ wakeup' = IF wakeup > 0 THEN wakeup - 1 ELSE 0
  /\ Goes("collect")
  /\ UNCHANGED <<current, full, toWrite, file, now, faults, apc, said, controlVars, dropped>>

LeaveLoop ==
  /\ bpc = "loop" /\ ~Continues
  /\ Goes("last")
  /\ UNCHANGED <<current, full, wakeup, toWrite, file, now, faults, apc, said, controlVars,
                 dropped>>

(* Mutants: the current buffer goes first, and only full ones are taken.    *)
BuffersSwapped(s) == (IF current[s] = <<>> THEN <<>> ELSE <<current[s]>>) \o full[s]
BuffersFullOnly(s) == full[s]

Buffers(s) == full[s] \o (IF current[s] = <<>> THEN <<>> ELSE <<current[s]>>)

(* collect(), one shard at a time.                                          *)
Collect ==
  /\ bpc \in {"collect", "last"}
  /\ toWrite' = toWrite \o Buffers(shard)
  /\ full' = [full EXCEPT ![shard] = <<>>]
  /\ current' = [current EXCEPT ![shard] = <<>>]
  /\ IF shard < Shards THEN shard' = shard + 1 /\ UNCHANGED bpc
     ELSE Goes(IF bpc = "last" THEN "finish" ELSE "limit")
  /\ UNCHANGED <<wakeup, file, now, faults, apc, said, controlVars, dropped>>

Kept == SubSeq(toWrite, 1, DropKeeps)
LinesOf(buffers) == UNION {Range(buffers[i]) : i \in DOMAIN buffers}

Limit ==
  /\ bpc = "limit"
  /\ IF Len(toWrite) > DropAbove
     THEN /\ Writes(<<Note>>)
          /\ toWrite' = Kept
          /\ dropped' = dropped \cup (LinesOf(toWrite) \ LinesOf(Kept))
     ELSE UNCHANGED <<file, faults, toWrite, dropped>>
  /\ Goes("write")
  /\ UNCHANGED <<current, full, wakeup, now, apc, said, controlVars>>

WriteBuffer ==
  /\ bpc \in {"write", "finish"} /\ toWrite # <<>>
  /\ Writes(Head(toWrite))
  /\ toWrite' = Tail(toWrite)
  /\ UNCHANGED <<current, full, wakeup, bpc, shard, now, apc, said, controlVars, dropped>>

Written ==
  /\ bpc \in {"write", "finish"} /\ toWrite = <<>>
  /\ Goes(IF bpc = "write" THEN "loop" ELSE "done")
  /\ UNCHANGED <<current, full, wakeup, toWrite, file, now, faults, apc, said, controlVars,
                 dropped>>

Backend == Open \/ Wait \/ LeaveLoop \/ Collect \/ Limit \/ WriteBuffer \/ Written

Tick ==
  /\ now < MaxTime
  /\ now' = now + 1
  /\ UNCHANGED <<current, full, wakeup, backendVars, file, faults, apc, said, controlVars,
                 dropped>>

Next ==
  \/ Start \/ Stop \/ Join \/ Backend \/ Tick
  \/ \E a \in Appenders : Append1(a) \/ Wakeup(a)

Spec == Init /\ [][Next]_vars

(* The threads are scheduled, and try_acquire_for() times out.              *)
FairSpec ==
  /\ Spec
  /\ WF_vars(Backend) /\ WF_vars(Join) /\ \A a \in Appenders : WF_vars(Wakeup(a))

----------------------------------------------------------------------------
Out == Range(file.lines) \cup dropped \cup file.failed \cup file.silent

(* When stop() returns, every line appended before it was called is in the  *)
(* files, unless its buffer was dropped or the file system failed.          *)
StopWritesAll == ~started /\ ~stopping => owed \subseteq Out

(* The lines of a thread are in the files in the order it appended them,    *)
(* and none is there twice, over drops, failures and restarts.              *)
LinesInOrder ==
  \A i, j \in DOMAIN file.lines :
    i < j /\ file.lines[i] # Note /\ file.lines[j] # Note
          /\ file.lines[i][1] = file.lines[j][1]
      => file.lines[i][2] < file.lines[j][2]

(* A file does not outlive its day by CheckEveryN appends.                  *)
RollsEachDay == file.stale < CheckEveryN

(* A line that waits in a buffer gets out while the logger runs, without    *)
(* anybody appending more, and stop() returns.                              *)
LineGetsOut ==
  /\ \A a \in Appenders, n \in 1..MaxLines :
       said[a] >= n /\ started ~> <<a, n>> \in Out \/ ~started
  /\ stopping ~> ~stopping

=============================================================================
