------------------------------- MODULE FileCache -------------------------------
(***************************************************************************)
(* test_libevent/basichttpfile.c: an HTTP server that answers every        *)
(* request with the text of one file, which it loads at the start and      *)
(* again, by a timer, when its modification time is later than the last    *)
(* one seen.  The file's writers know nothing of the server.               *)
(***************************************************************************)
EXTENDS Naturals

CONSTANTS
  RELOAD_TIMEOUT,
  Whole,        \* the length of a text that is written to its end
  MaxVersion,   \* bound: texts written
  MaxTime       \* bound: nothing is written in or after this second

ASSUME CacheAssumption == {RELOAD_TIMEOUT, Whole, MaxVersion, MaxTime} \subseteq Nat \ {0}

VARIABLES
  at,          \* "stat", "open", "read", "close" (read_file), "start" (evhttp_start), "serve", "exited"
  http_server, \* FALSE for NULL
  filedata,    \* the text served; version 0 stands for NULL
  lasttime,
  seen,        \* buf.st_mtime
  size,        \* what ftell returned
  data,        \* what fread has so far
  timer,       \* seconds until the reload
  now,         \* the clock, in whole seconds
  disk,        \* the file
  stat,        \* (not in the code) the second of the stat, 0 if it failed
  looked       \* (not in the code) the same of the last load

cache == <<filedata, lasttime, looked>>
reading == <<seen, size, data, stat>>
clock == <<timer, now>>
vars == <<at, http_server, filedata, lasttime, seen, size, data, timer, now, disk, stat, looked>>

(***************************************************************************)
(* A text is known by its version and by how much of it there is.  One     *)
(* that was read in parts is known by the first; mixed says that not all   *)
(* are of the same version, tail that what strcpy found behind it was not  *)
(* a zero.  honest says that mtime is the second in which the file was     *)
(* last changed.  Times after MaxTime stand for the future.                *)
(***************************************************************************)
Times == 0 .. MaxTime + 1
Data == [version : 0 .. MaxVersion, len : 0 .. Whole, mixed : BOOLEAN]
FileData == [version : 0 .. MaxVersion, len : 0 .. Whole, mixed : BOOLEAN, tail : BOOLEAN]
File == [there : BOOLEAN, version : 1 .. MaxVersion, len : 0 .. Whole,
         mtime : Times, honest : BOOLEAN]

NoData == [version |-> 0, len |-> 0, mixed |-> FALSE]
Ending(read, tail) ==
  [version |-> read.version, len |-> read.len, mixed |-> read.mixed, tail |-> tail]

Init ==
  /\ at = "stat" /\ http_server = FALSE
  /\ filedata = Ending(NoData, FALSE) /\ lasttime = 0
  /\ seen = 0 /\ size = 0 /\ data = NoData /\ stat = 0 /\ looked = 0
  /\ timer = RELOAD_TIMEOUT /\ now = 1
  /\ disk \in {[there |-> b, version |-> 1, len |-> Whole, mtime |-> 1, honest |-> TRUE] : b \in BOOLEAN}

-----------------------------------------------------------------------------
(* The clock and the writers.  A file that takes the place of the one the  *)
(* server has open is not the one it reads: such a change is put after the *)
(* read.                                                                   *)

Tick ==
  /\ at # "exited" /\ (now < MaxTime \/ timer > 0)
  /\ now' = IF now < MaxTime THEN now + 1 ELSE now
  /\ timer' = IF timer > 0 THEN timer - 1 ELSE 0
  /\ UNCHANGED <<at, http_server, cache, reading, disk>>

Change(file) ==
  /\ at # "exited" /\ now < MaxTime
  /\ disk' = file
  /\ UNCHANGED <<at, http_server, cache, reading, clock>>

Truncate ==
  /\ disk.version < MaxVersion
  /\ disk.there \/ at # "read"
  /\ Change([there |-> TRUE, version |-> disk.version + 1, len |-> 0, mtime |-> now, honest |-> TRUE])

Write ==
  /\ disk.there /\ disk.len < Whole
  /\ Change([disk EXCEPT !.len = @ + 1, !.mtime = now, !.honest = TRUE])

(* rename brings another file's time with it.                              *)
Replace(mtime) ==
  /\ disk.version < MaxVersion /\ at # "read"
  /\ Change([there |-> TRUE, version |-> disk.version + 1, len |-> Whole,
             mtime |-> mtime, honest |-> mtime = now])

Remove == disk.there /\ Change([disk EXCEPT !.there = FALSE])

-----------------------------------------------------------------------------
(* load_file and read_file, step by step.                                  *)

load_file ==
  /\ at = "serve" /\ timer = 0
  /\ at' = "stat"
  /\ UNCHANGED <<http_server, cache, reading, clock, disk>>

(* load_file returns, the timer added: to main, or to the event loop.      *)
Rearm ==
  /\ at' = IF http_server THEN "serve" ELSE "start"
  /\ timer' = RELOAD_TIMEOUT
  /\ UNCHANGED <<http_server, now, disk>>

(* Nobody asks whether stat failed: buf is then whatever was on the stack. *)
Stat(mtime) ==
  /\ at = "stat"
  /\ disk.there => mtime = disk.mtime
  /\ IF mtime > lasttime
     THEN /\ seen' = mtime /\ stat' = (IF disk.there THEN now ELSE 0)
          /\ at' = "open"
          /\ UNCHANGED <<http_server, size, data, clock, disk>>
     ELSE Rearm /\ UNCHANGED reading
  /\ UNCHANGED cache

(* fopen, and ftell at the end.                                            *)
Open ==
  /\ at = "open" /\ disk.there
  /\ size' = disk.len
  /\ at' = "read"
  /\ UNCHANGED <<http_server, cache, seen, data, stat, clock, disk>>

OpenFails ==
  /\ at = "open" /\ ~disk.there
  /\ at' = "exited"
  /\ UNCHANGED <<http_server, cache, reading, clock, disk>>

Least(a, b) == IF a < b THEN a ELSE b

(* fread reads the file as it is by now, on from where it is, and takes as *)
(* many reads as it needs.                                                 *)
ReadPart(n) ==
  /\ at = "read"
  /\ data.len + n <= Least(size, disk.len)
  /\ data' = [version |-> IF data.len = 0 THEN disk.version ELSE data.version,
              len     |-> data.len + n,
              mixed   |-> data.len > 0 /\ (data.mixed \/ data.version # disk.version)]
  /\ UNCHANGED <<at, http_server, cache, seen, size, stat, clock, disk>>

(* It ends with the size asked for, or at the end of the file.             *)
WasRead ==
  /\ at = "read" /\ data.len >= Least(size, disk.len)
  /\ at' = "close" /\ data' = NoData
  /\ UNCHANGED <<http_server, lasttime, looked, seen, size, stat, clock, disk>>

AllRead == IF data.len = 0 THEN [data EXCEPT !.version = disk.version] ELSE data

(* Mutant of Read: a text is there already.                                *)
Read_Once ==
  /\ WasRead
  /\ filedata' = IF filedata.version = 0 THEN Ending(AllRead, FALSE) ELSE filedata

(* data is not terminated before strcpy.                                   *)
Read ==
  /\ WasRead
  /\ \E tail \in BOOLEAN : filedata' = Ending(AllRead, tail)

Noted(mtime, second) ==
  /\ at = "close"
  /\ lasttime' = mtime /\ looked' = second
  /\ seen' = 0 /\ size' = 0 /\ stat' = 0
  /\ Rearm
  /\ UNCHANGED <<filedata, data>>

(* Mutant of Close: the file's time is asked for after its text was read.  *)
Close_StatAgain == disk.there /\ Noted(disk.mtime, now)

(* lasttime becomes the time seen before the text was read.                *)
Close == Noted(seen, stat)

(* strcpy may also run out of data's block, or of filedata's.              *)
ReadCrashes ==
  /\ at = "read"
  /\ at' = "exited"
  /\ UNCHANGED <<http_server, cache, reading, clock, disk>>

(* Mutant of Start: its result is not kept.                                *)
Start_Lost ==
  /\ at = "start"
  /\ at' = "serve"
  /\ UNCHANGED <<http_server, cache, reading, clock, disk>>

Start ==
  /\ at = "start"
  /\ at' = "serve" /\ http_server' = TRUE
  /\ UNCHANGED <<cache, reading, clock, disk>>

(* evhttp_start returns NULL, which evhttp_set_gencb follows.              *)
StartFails ==
  /\ at = "start"
  /\ at' = "exited"
  /\ UNCHANGED <<http_server, cache, reading, clock, disk>>

-----------------------------------------------------------------------------
ServerStep ==
  load_file \/ (\E t \in Times : Stat(t)) \/ Open \/ OpenFails
  \/ (\E n \in 1 .. Whole : ReadPart(n)) \/ Read \/ Close \/ Start

Next ==
  \/ ServerStep \/ ReadCrashes \/ StartFails
  \/ Tick \/ Truncate \/ Write \/ (\E t \in Times : Replace(t)) \/ Remove

Spec == Init /\ [][Next]_vars
FairSpec == Spec /\ WF_vars(ServerStep) /\ WF_vars(Tick)

-----------------------------------------------------------------------------
(* Correctness.                                                            *)

(* Every variable has its type, and requests are served once the server is *)
(* set up.                                                                 *)
TypeOK ==
  /\ at \in {"stat", "open", "read", "close", "start", "serve", "exited"}
  /\ http_server \in BOOLEAN
  /\ at \in {"start", "serve"} => http_server = (at = "serve")
  /\ filedata \in FileData /\ data \in Data /\ disk \in File
  /\ lasttime \in Times /\ seen \in Times
  /\ size \in 0 .. Whole
  /\ timer \in 0 .. RELOAD_TIMEOUT /\ now \in 1 .. MaxTime
  /\ stat \in 0 .. MaxTime /\ looked \in 0 .. MaxTime

Served(file) ==
  filedata.version = file.version /\ filedata.len = file.len /\ ~filedata.mixed

(* A change is not missed, whichever step of read_file it falls between,   *)
(* if the file's times are honest and the load before it came in a later   *)
(* second than the time it saw: what is served is what is on the disk, or  *)
(* the timer will see that it is not.                                      *)
ChangeSeen ==
  at \in {"start", "serve"} /\ disk.there /\ disk.honest /\ looked > lasttime
    => disk.mtime > lasttime \/ Served(disk)

(* A reload never goes back to an older text.  What it read while a writer *)
(* wrote may be less of the text than was served, or begin with one text   *)
(* and go on with another, but only when the next one is on the disk by    *)
(* the time it is served.                                                  *)
NeverBackwards ==
  [][/\ filedata'.version >= filedata.version
     /\ filedata'.version = filedata.version /\ filedata'.len < filedata.len
          => disk.version > filedata'.version
     /\ filedata'.mixed => disk.version > filedata'.version]_filedata

(* A text that was written to its end and dated later than the one loaded  *)
(* is served in the end, unless it is replaced or removed before, or the   *)
(* server exits: for want of a file, or in strcpy.                         *)
Newer(v) == at = "serve" /\ disk.there /\ disk.version = v /\ disk.len = Whole /\ disk.mtime > lasttime
ChangeServed ==
  \A v \in 1 .. MaxVersion :
    Newer(v) ~> \/ filedata.version = v /\ filedata.len = Whole /\ ~filedata.mixed
                \/ disk.version # v \/ ~disk.there \/ at = "exited"
=============================================================================
