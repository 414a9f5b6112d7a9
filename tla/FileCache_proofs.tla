--------------------------- MODULE FileCache_proofs ----------------------------
(***************************************************************************)
(* The inductive invariant of FileCache, and what follows from it for any  *)
(* reload interval, however long the clock runs and however many texts are *)
(* written.                                                                *)
(***************************************************************************)
EXTENDS FileCache, TLAPS

(* If the file was looked at in a second after the time it had then, what  *)
(* was taken from it is good, or its time tells that it is not.            *)
Tells(time, second, good) ==
  disk.there /\ disk.honest /\ second > time => disk.mtime > time \/ good

(* What fread has so far, if anything, is all of the text on the disk.     *)
OneText == ~data.mixed /\ (data.len > 0 => data.version = disk.version)

(* The load at hand, and the one before, keep to that at every step.       *)
Loads ==
  /\ stat <= now /\ looked <= now
  /\ at \notin {"read", "exited"} => data = NoData
  /\ at = "read" => data.len <= size /\ Tells(seen, stat, size = disk.len /\ OneText)
  /\ at = "close" => Tells(seen, stat, Served(disk))
  /\ at # "close" => Tells(lasttime, looked, Served(disk))

IInv == TypeOK /\ Loads

LEMMA Sizes ==
  /\ RELOAD_TIMEOUT \in Nat \ {0} /\ Whole \in Nat \ {0}
  /\ MaxVersion \in Nat \ {0} /\ MaxTime \in Nat \ {0}
BY CacheAssumption

LEMMA InitInv == Init => IInv
<1>. SUFFICES ASSUME Init PROVE IInv
  OBVIOUS
<1>1. filedata \in FileData /\ data \in Data
  BY Sizes DEF Init, FileData, Data, Ending, NoData
<1>2. disk \in File
  <2>1. PICK b \in BOOLEAN :
          disk = [there |-> b, version |-> 1, len |-> Whole, mtime |-> 1, honest |-> TRUE]
    BY DEF Init
  <2>2. 1 \in 1 .. MaxVersion /\ Whole \in 0 .. Whole /\ 1 \in Times
    BY Sizes DEF Times
  <2>. QED
    BY <2>1, <2>2 DEF File
<1>3. TypeOK
  <2>1. 0 \in Times /\ 0 \in 0 .. Whole /\ 0 \in 0 .. MaxTime /\ 1 \in 1 .. MaxTime
        /\ RELOAD_TIMEOUT \in 0 .. RELOAD_TIMEOUT
    BY Sizes DEF Times
  <2>. QED
    BY <1>1, <1>2, <2>1 DEF Init, TypeOK
<1>4. Loads
  BY Sizes DEF Init, Loads, Tells
<1>. QED
  BY <1>3, <1>4 DEF IInv

(* A writer's change keeps the invariant, if an honest one is dated now    *)
(* and none that takes the place of the open file is made while it is read. *)
LEMMA ChangeKeeps ==
  ASSUME IInv, NEW file \in File, Change(file),
         file.there /\ file.honest => file.mtime = now
  PROVE  IInv'
<1>1. disk' = file /\ UNCHANGED <<at, http_server, cache, reading, clock>>
  BY DEF Change
<1>2. TypeOK'
  BY <1>1 DEF IInv, TypeOK, cache, reading, clock
<1>3. /\ stat \in Nat /\ looked \in Nat /\ now \in Nat
      /\ seen \in Nat /\ lasttime \in Nat
  BY Sizes DEF IInv, TypeOK, Times
<1>4. ASSUME NEW time \in Nat, NEW second \in Nat, second <= now,
             file.there, file.honest, second > time
      PROVE  file.mtime > time
  BY <1>3, <1>4
<1>5. stat <= now /\ looked <= now
  BY DEF IInv, Loads
<1>6. /\ UNCHANGED <<at, filedata, lasttime, looked, seen, size, data, stat, now>>
      /\ file.there /\ file.honest => /\ stat > seen => file.mtime > seen
                                      /\ looked > lasttime => file.mtime > lasttime
  BY <1>1, <1>3, <1>4, <1>5 DEF cache, reading, clock
<1>7. /\ Tells(seen, stat, size = disk.len /\ OneText)'
      /\ Tells(seen, stat, Served(disk))' /\ Tells(lasttime, looked, Served(disk))'
  BY <1>1, <1>6 DEF Tells
<1>8. Loads'
  BY <1>5, <1>6, <1>7 DEF IInv, Loads
<1>. QED
  BY <1>2, <1>8 DEF IInv

(* The clock and the writers.                                              *)
LEMMA WorldKeeps ==
  ASSUME IInv, Tick \/ Truncate \/ Write \/ (\E t \in Times : Replace(t)) \/ Remove
  PROVE  IInv'
<1>t. /\ now \in 1 .. MaxTime /\ now \in Times /\ disk \in File /\ disk.len \in 0 .. Whole
      /\ disk.version \in 1 .. MaxVersion /\ timer \in 0 .. RELOAD_TIMEOUT
  BY Sizes DEF IInv, TypeOK, Times, File
<1>1. CASE Tick
  <2>1. now' \in 1 .. MaxTime /\ now' >= now /\ timer' \in 0 .. RELOAD_TIMEOUT
    BY <1>1, <1>t, Sizes DEF Tick
  <2>2. UNCHANGED <<at, http_server, filedata, lasttime, looked, seen, size, data, stat, disk>>
    BY <1>1 DEF Tick, cache, reading
  <2>3. TypeOK'
    BY <2>1, <2>2 DEF IInv, TypeOK
  <2>4. stat \in Nat /\ looked \in Nat /\ now \in Nat /\ now' \in Nat
    BY <2>1, Sizes DEF IInv, TypeOK
  <2>5. Loads'
    BY <2>1, <2>2, <2>4 DEF IInv, Loads, Tells, Served, OneText
  <2>. QED
    BY <2>3, <2>5 DEF IInv
<1>2. CASE Truncate
  <2>. DEFINE file == [there |-> TRUE, version |-> disk.version + 1, len |-> 0,
                       mtime |-> now, honest |-> TRUE]
  <2>1. file \in File
    BY <1>2, <1>t, Sizes DEF Truncate, File
  <2>2. Change(file) /\ file.mtime = now
    BY <1>2 DEF Truncate
  <2>. QED
    BY <2>1, <2>2, ChangeKeeps
<1>3. CASE Write
  <2>. DEFINE file == [disk EXCEPT !.len = @ + 1, !.mtime = now, !.honest = TRUE]
  <2>1. disk.len + 1 \in 0 .. Whole
    BY <1>3, <1>t, Sizes DEF Write
  <2>2. file \in File
    BY <1>t, <2>1 DEF File
  <2>3. Change(file) /\ file.mtime = now
    BY <1>3, <1>t DEF Write, File
  <2>. QED
    BY <2>2, <2>3, ChangeKeeps
<1>4. ASSUME NEW t \in Times, Replace(t) PROVE IInv'
  <2>. DEFINE file == [there |-> TRUE, version |-> disk.version + 1, len |-> Whole,
                       mtime |-> t, honest |-> t = now]
  <2>1. file \in File
    BY <1>4, <1>t, Sizes DEF Replace, File
  <2>2. Change(file) /\ (file.honest => file.mtime = now)
    BY <1>4 DEF Replace
  <2>. QED
    BY <2>1, <2>2, ChangeKeeps
<1>5. CASE Remove
  <2>. DEFINE file == [disk EXCEPT !.there = FALSE]
  <2>1. file \in File /\ ~file.there
    BY <1>t DEF File
  <2>2. Change(file)
    BY <1>5 DEF Remove
  <2>. QED
    BY <2>1, <2>2, ChangeKeeps
<1>. QED
  BY <1>1, <1>2, <1>3, <1>4, <1>5

(* The end of a load adds the timer, and returns to whoever called it.     *)
LEMMA RearmTypes ==
  ASSUME TypeOK, Rearm
  PROVE  /\ at' \in {"start", "serve"} /\ http_server' \in BOOLEAN
         /\ http_server' = (at' = "serve")
         /\ timer' \in 0 .. RELOAD_TIMEOUT /\ now' = now /\ disk' = disk
BY Sizes DEF TypeOK, Rearm

(* A load that reads: fopen and ftell, fread, and the end.                 *)
LEMMA ReadingKeeps ==
  ASSUME IInv,
         Open \/ OpenFails \/ (\E n \in 1 .. Whole : ReadPart(n)) \/ Read \/ ReadCrashes \/ Close
  PROVE  IInv'
<1>t. /\ disk \in File /\ disk.len \in 0 .. Whole /\ disk.version \in 1 .. MaxVersion
      /\ size \in 0 .. Whole /\ data \in Data /\ data.len \in 0 .. Whole
      /\ data.version \in 0 .. MaxVersion /\ data.mixed \in BOOLEAN
  BY DEF IInv, TypeOK, File, Data
<1>1. CASE Open
  <2>1. /\ at' = "read" /\ size' = disk.len
        /\ UNCHANGED <<http_server, filedata, lasttime, looked, seen, data, stat, timer, now, disk>>
    BY <1>1 DEF Open, cache, clock
  <2>2. TypeOK'
    BY <1>t, <2>1 DEF IInv, TypeOK
  <2>3. data = NoData
    BY <1>1 DEF IInv, Loads, Open
  <2>4. data.len = 0 /\ data.mixed = FALSE /\ OneText /\ 0 <= disk.len
    BY <1>t, <2>3 DEF NoData, OneText
  <2>5. data'.len <= size' /\ Tells(seen, stat, size = disk.len /\ OneText)'
    <3>1. data'.len <= size'
      BY <2>1, <2>4
    <3>2. OneText'
      BY <2>1, <2>4 DEF OneText
    <3>. QED
      BY <2>1, <3>1, <3>2 DEF Tells
  <2>6. Tells(lasttime, looked, Served(disk))'
    BY <1>1, <2>1 DEF IInv, Loads, Tells, Served, Open
  <2>7. Loads'
    BY <2>1, <2>5, <2>6 DEF IInv, Loads
  <2>. QED
    BY <2>2, <2>7 DEF IInv
<1>2. CASE OpenFails \/ ReadCrashes
  <2>1. /\ at' = "exited" /\ at # "close"
        /\ UNCHANGED <<http_server, filedata, lasttime, looked, seen, size, data, stat, timer, now, disk>>
    BY <1>2 DEF OpenFails, ReadCrashes, cache, clock, reading
  <2>2. TypeOK'
    BY <2>1 DEF IInv, TypeOK
  <2>3. Loads'
    BY <2>1 DEF IInv, Loads, Tells, Served
  <2>. QED
    BY <2>2, <2>3 DEF IInv
<1>3. ASSUME NEW n \in 1 .. Whole, ReadPart(n) PROVE IInv'
  <2>1. /\ at = "read" /\ data.len + n <= Least(size, disk.len)
        /\ data' = [version |-> IF data.len = 0 THEN disk.version ELSE data.version,
                    len |-> data.len + n,
                    mixed |-> data.len > 0 /\ (data.mixed \/ data.version # disk.version)]
        /\ UNCHANGED <<at, http_server, filedata, lasttime, looked, seen, size, stat, timer, now, disk>>
    BY <1>3 DEF ReadPart, cache, clock
  <2>2. data.len + n \in 0 .. Whole /\ data.len + n <= size
    <3>1. /\ data.len \in Nat /\ n \in Nat /\ size \in Nat /\ disk.len \in Nat
          /\ Whole \in Nat /\ size <= Whole
      BY <1>t, Sizes
    <3>2. data.len + n <= Least(size, disk.len)
      BY <2>1
    <3>. QED
      BY <3>1, <3>2 DEF Least
  <2>3. data' \in Data
    <3>1. (IF data.len = 0 THEN disk.version ELSE data.version) \in 0 .. MaxVersion
      BY <1>t
    <3>. QED
      BY <2>1, <2>2, <3>1 DEF Data
  <2>4. TypeOK'
    BY <2>1, <2>3 DEF IInv, TypeOK
  <2>5. data'.len <= size' /\ (OneText => OneText')
    <3>1. /\ data'.len = data.len + n
          /\ data'.version = IF data.len = 0 THEN disk.version ELSE data.version
          /\ data'.mixed = (data.len > 0 /\ (data.mixed \/ data.version # disk.version))
      BY <2>1
    <3>2. ASSUME OneText PROVE OneText'
      <4>1. data'.mixed = FALSE
        BY <3>1, <3>2 DEF OneText
      <4>2. data'.version = disk.version
        BY <1>t, <3>1, <3>2 DEF OneText
      <4>. QED
        BY <2>1, <4>1, <4>2 DEF OneText
    <3>. QED
      BY <2>1, <2>2, <3>1, <3>2
  <2>6. Loads'
    <3>1. Tells(seen, stat, size = disk.len /\ OneText)'
      BY <2>1, <2>5 DEF IInv, Loads, Tells
    <3>2. Tells(lasttime, looked, Served(disk))'
      BY <2>1 DEF IInv, Loads, Tells, Served
    <3>. QED
      BY <2>1, <2>5, <3>1, <3>2 DEF IInv, Loads
  <2>. QED
    BY <2>4, <2>6 DEF IInv
<1>6. CASE Read
  <2>1. PICK tail \in BOOLEAN : filedata' = Ending(AllRead, tail)
    BY <1>6 DEF Read
  <2>2. /\ at = "read" /\ at' = "close" /\ data.len >= Least(size, disk.len) /\ data' = NoData
        /\ UNCHANGED <<http_server, lasttime, looked, seen, size, stat, timer, now, disk>>
    BY <1>6 DEF Read, WasRead, clock
  <2>3. /\ AllRead \in Data /\ AllRead.len = data.len /\ AllRead.mixed = data.mixed
        /\ AllRead.version = IF data.len = 0 THEN disk.version ELSE data.version
    <3>1. CASE data.len = 0
      <4>1. AllRead = [data EXCEPT !.version = disk.version] /\ disk.version \in 0 .. MaxVersion
        BY <1>t, <3>1 DEF AllRead
      <4>. QED
        BY <1>t, <3>1, <4>1 DEF Data
    <3>2. CASE data.len # 0
      BY <1>t, <3>2 DEF AllRead
    <3>. QED
      BY <3>1, <3>2
  <2>4. filedata' \in FileData /\ NoData \in Data
    BY <2>1, <2>3, Sizes DEF FileData, Data, Ending, NoData
  <2>5. TypeOK'
    BY <2>2, <2>4 DEF IInv, TypeOK
  <2>6. /\ filedata'.version = AllRead.version /\ filedata'.len = AllRead.len
        /\ filedata'.mixed = AllRead.mixed
    BY <2>1 DEF Ending
  <2>7. data.len <= size
    BY <2>2 DEF IInv, Loads
  <2>8. ASSUME size = disk.len, OneText PROVE Served(disk)'
    <3>1. data.len = disk.len
      BY <1>t, <2>2, <2>7, <2>8 DEF Least
    <3>2. AllRead.version = disk.version
      BY <1>t, <2>3, <2>8 DEF OneText
    <3>. QED
      BY <2>2, <2>3, <2>6, <2>8, <3>1, <3>2 DEF Served, OneText
  <2>9. Loads'
    BY <2>2, <2>8 DEF IInv, Loads, Tells
  <2>. QED
    BY <2>5, <2>9 DEF IInv
<1>4. CASE Close
  <2>1. /\ at = "close" /\ lasttime' = seen /\ looked' = stat
        /\ seen' = 0 /\ size' = 0 /\ stat' = 0 /\ UNCHANGED <<filedata, data>> /\ Rearm
    BY <1>4 DEF Close, Noted
  <2>2. /\ at' \in {"start", "serve"} /\ http_server' \in BOOLEAN
        /\ http_server' = (at' = "serve")
        /\ timer' \in 0 .. RELOAD_TIMEOUT /\ now' = now /\ disk' = disk
    BY <2>1, RearmTypes DEF IInv
  <2>3. TypeOK'
    BY <2>1, <2>2, Sizes DEF IInv, TypeOK, Times
  <2>4. now \in Nat
    BY Sizes DEF IInv, TypeOK
  <2>5. Loads'
    BY <2>1, <2>2, <2>4 DEF IInv, Loads, Tells, Served
  <2>. QED
    BY <2>3, <2>5 DEF IInv
<1>. QED
  BY <1>1, <1>2, <1>3, <1>4, <1>6

(* The steps that take nothing in: the timer, stat, and main's set-up.     *)
LEMMA LoopKeeps ==
  ASSUME IInv, load_file \/ (\E t \in Times : Stat(t)) \/ Start \/ StartFails
  PROVE  IInv'
<1>1. CASE load_file \/ Start \/ StartFails
  <2>1. /\ at \notin {"read", "close", "exited"} /\ at' \notin {"read", "close"}
        /\ UNCHANGED <<filedata, lasttime, looked, seen, size, data, stat, timer, now, disk>>
    BY <1>1 DEF load_file, Start, StartFails, cache, reading, clock
  <2>2. TypeOK'
    BY <1>1, <2>1 DEF IInv, TypeOK, load_file, Start, StartFails
  <2>3. Loads'
    BY <2>1 DEF IInv, Loads, Tells, Served
  <2>. QED
    BY <2>2, <2>3 DEF IInv
<1>2. ASSUME NEW t \in Times, Stat(t) PROVE IInv'
  <2>1. at = "stat" /\ UNCHANGED <<filedata, lasttime, looked>>
    BY <1>2 DEF Stat, cache
  <2>2. CASE t > lasttime
    <3>1. /\ seen' = t /\ stat' \in {0, now} /\ at' = "open"
          /\ UNCHANGED <<http_server, size, data, timer, now, disk>>
      BY <1>2, <2>2 DEF Stat, clock
    <3>2. TypeOK'
      BY <2>1, <3>1, Sizes DEF IInv, TypeOK
    <3>3. now \in Nat
      BY Sizes DEF IInv, TypeOK
    <3>4. Loads'
      BY <2>1, <3>1, <3>3 DEF IInv, Loads, Tells, Served
    <3>. QED
      BY <3>2, <3>4 DEF IInv
  <2>3. CASE ~(t > lasttime)
    <3>1. Rearm /\ UNCHANGED <<seen, size, data, stat>>
      BY <1>2, <2>3 DEF Stat, reading
    <3>2. /\ at' \in {"start", "serve"} /\ http_server' \in BOOLEAN
          /\ http_server' = (at' = "serve")
          /\ timer' \in 0 .. RELOAD_TIMEOUT /\ now' = now /\ disk' = disk
      BY <3>1, RearmTypes DEF IInv
    <3>3. TypeOK'
      BY <2>1, <3>1, <3>2 DEF IInv, TypeOK
    <3>4. Loads'
      BY <2>1, <3>1, <3>2 DEF IInv, Loads, Tells, Served
    <3>. QED
      BY <3>3, <3>4 DEF IInv
  <2>. QED
    BY <2>2, <2>3
<1>. QED
  BY <1>1, <1>2

(* The types and what the loads rely on hold in every reachable state.     *)
THEOREM Invariance == Spec => []IInv
<1>1. IInv /\ [Next]_vars => IInv'
  <2>. SUFFICES ASSUME IInv, [Next]_vars PROVE IInv'
    OBVIOUS
  <2>1. CASE UNCHANGED vars
    BY <2>1 DEF IInv, TypeOK, Loads, Tells, OneText, Served, vars
  <2>2. CASE Next
    BY <2>2, WorldKeeps, ReadingKeeps, LoopKeeps DEF Next, ServerStep
  <2>. QED
    BY <2>1, <2>2
<1>. QED
  BY InitInv, <1>1, PTL DEF Spec

(* Every variable keeps its type: no text longer than the file was read.   *)
THEOREM Typing == Spec => []TypeOK
<1>1. IInv => TypeOK
  BY DEF IInv
<1>. QED
  BY Invariance, <1>1, PTL

(* Whatever falls between stat, fopen, fread and the assignment of         *)
(* lasttime, a change is served or will be seen (ChangeSeen; lines 24-51). *)
THEOREM NoChangeMissed == Spec => []ChangeSeen
<1>1. IInv => ChangeSeen
  BY DEF IInv, Loads, Tells, ChangeSeen
<1>. QED
  BY Invariance, <1>1, PTL

-----------------------------------------------------------------------------
(* What is served is no newer than the file, and is no more of the same    *)
(* text than the file holds, or than ftell saw of it.  What fread has so   *)
(* far is no older than what is served, no newer than the file, and mixed  *)
(* only with a text that is newer.                                         *)
Behind ==
  /\ filedata.version <= disk.version
  /\ filedata.version = disk.version => filedata.len <= disk.len
  /\ at = "read" /\ filedata.version = disk.version => filedata.len <= size
  /\ at = "read" /\ data.len = 0 => ~data.mixed
  /\ at = "read" /\ data.len > 0 =>
       /\ filedata.version <= data.version /\ data.version <= disk.version
       /\ data.version = disk.version => ~data.mixed /\ data.len <= disk.len

(* What NeverBackwards asks of a step.                                     *)
Onward ==
  /\ filedata'.version >= filedata.version
  /\ filedata'.version = filedata.version /\ filedata'.len < filedata.len
       => disk.version > filedata'.version
  /\ filedata'.mixed => disk.version > filedata'.version

LEMMA Numbers ==
  ASSUME TypeOK
  PROVE  /\ filedata.version \in Nat /\ filedata.len \in Nat
         /\ data.version \in Nat /\ data.len \in Nat
         /\ disk.version \in Nat /\ disk.len \in Nat /\ size \in Nat
BY Sizes DEF TypeOK, FileData, Data, File

LEMMA InitBehind == Init => Behind
BY Sizes DEF Init, Behind, Ending, NoData

(* A new text has a later version, and the one there only grows.           *)
LEMMA WritersStayAhead ==
  ASSUME TypeOK, Behind, Truncate \/ Write \/ (\E t \in Times : Replace(t)) \/ Remove
  PROVE  Behind' /\ UNCHANGED filedata
<1>1. UNCHANGED <<at, filedata, size, data>>
  BY DEF Truncate, Write, Replace, Remove, Change, cache, reading
<1>2. /\ disk.version \in Nat /\ disk.len \in Nat /\ filedata.version \in Nat
      /\ filedata.len \in Nat /\ data.version \in Nat /\ data.len \in Nat
  BY Numbers
<1>3. \/ disk'.version = disk.version + 1
      \/ disk'.version = disk.version /\ disk'.len \in {disk.len, disk.len + 1}
  <2>1. CASE Truncate \/ \E t \in Times : Replace(t)
    BY <2>1 DEF Truncate, Replace, Change
  <2>2. CASE Write \/ Remove
    BY <2>2 DEF Write, Remove, Change, TypeOK, File
  <2>. QED
    BY <2>1, <2>2
<1>4. CASE disk'.version = disk.version + 1
  <2>1. \A v \in Nat : v <= disk.version => v <= disk'.version /\ v # disk'.version
    BY <1>2, <1>4
  <2>. QED
    BY <1>1, <1>2, <2>1 DEF Behind
<1>5. CASE disk'.version = disk.version /\ disk'.len \in {disk.len, disk.len + 1}
  <2>1. \A n \in Nat : n <= disk.len => n <= disk'.len
    BY <1>2, <1>5
  <2>. QED
    BY <1>1, <1>2, <1>5, <2>1 DEF Behind
<1>. QED
  BY <1>1, <1>3, <1>4, <1>5

(* A part is taken from the text on the disk, by now, and no more of it    *)
(* than there is.                                                          *)
LEMMA PartsStayAhead ==
  ASSUME TypeOK, Behind, NEW n \in 1 .. Whole, ReadPart(n)
  PROVE  Behind' /\ UNCHANGED filedata
<1>1. /\ at = "read" /\ data.len + n <= Least(size, disk.len)
      /\ data' = [version |-> IF data.len = 0 THEN disk.version ELSE data.version,
                  len |-> data.len + n,
                  mixed |-> data.len > 0 /\ (data.mixed \/ data.version # disk.version)]
      /\ UNCHANGED <<at, filedata, size, disk>>
  BY DEF ReadPart, cache
<1>2. /\ disk.version \in Nat /\ disk.len \in Nat /\ filedata.version \in Nat
      /\ size \in Nat /\ data.version \in Nat /\ data.len \in Nat /\ n \in Nat
  BY Numbers, Sizes
<1>3. /\ data'.len = data.len + n
      /\ data'.version = IF data.len = 0 THEN disk.version ELSE data.version
      /\ data'.mixed = (data.len > 0 /\ (data.mixed \/ data.version # disk.version))
  BY <1>1
<1>4. filedata.version <= data'.version /\ data'.version <= disk.version
  BY <1>1, <1>2, <1>3 DEF Behind
<1>5. data'.version = disk.version => ~data'.mixed
  <2>1. CASE data.len = 0
    <3>1. ~(data.len > 0)
      BY <2>1
    <3>. QED
      BY <1>3, <3>1, Zenon
  <2>2. CASE data.len > 0
    <3>1. data.version = disk.version => ~data.mixed
      BY <1>1, <2>2 DEF Behind
    <3>2. data'.version = data.version
      BY <1>2, <1>3, <2>2
    <3>. QED
      BY <1>3, <3>1, <3>2
  <2>. QED
    BY <1>2, <2>1, <2>2
<1>6. data'.len <= disk.len
  <2>1. data.len + n <= disk.len
    BY <1>1, <1>2 DEF Least
  <2>. QED
    BY <1>3, <2>1
<1>7. data'.len > 0
  BY <1>2, <1>3
<1>. QED
  BY <1>1, <1>4, <1>5, <1>6, <1>7 DEF Behind

(* fread takes what ftell saw, or all there is of a text that is newer.    *)
LEMMA ReadGoesOn ==
  ASSUME TypeOK, Behind, Read
  PROVE  Behind' /\ Onward
<1>1. PICK tail \in BOOLEAN : filedata' = Ending(AllRead, tail)
  BY DEF Read
<1>2. /\ at = "read" /\ at' = "close" /\ data.len >= Least(size, disk.len)
      /\ UNCHANGED <<disk, size>>
  BY DEF Read, WasRead
<1>3. /\ disk.version \in Nat /\ disk.len \in Nat /\ filedata.version \in Nat
      /\ filedata.len \in Nat /\ data.version \in Nat /\ data.len \in Nat /\ size \in Nat
  BY Numbers
<1>4. /\ filedata'.version = AllRead.version /\ filedata'.len = AllRead.len
      /\ filedata'.mixed = AllRead.mixed
  BY <1>1 DEF Ending
<1>5. CASE data.len = 0
  <2>1. filedata'.version = disk.version /\ filedata'.len = 0
    <3>1. AllRead = [data EXCEPT !.version = disk.version] /\ data \in Data
      BY <1>5 DEF AllRead, TypeOK
    <3>2. AllRead.version = disk.version /\ AllRead.len = data.len
      BY <3>1 DEF Data
    <3>. QED
      BY <1>4, <1>5, <3>2
  <2>2. filedata'.version = filedata.version => filedata'.len >= filedata.len
    BY <1>2, <1>3, <1>5, <2>1 DEF Behind, Least
  <2>3. ~filedata'.mixed
    <3>1. ~data.mixed
      BY <1>2, <1>5 DEF Behind
    <3>2. AllRead.mixed = data.mixed
      BY <1>5 DEF AllRead, TypeOK, Data
    <3>. QED
      BY <1>4, <3>1, <3>2
  <2>. QED
    BY <1>2, <1>3, <2>1, <2>2, <2>3 DEF Behind, Onward
<1>6. CASE data.len > 0
  <2>1. AllRead = data
    BY <1>3, <1>6 DEF AllRead
  <2>2. /\ filedata'.version = data.version /\ filedata'.len = data.len
        /\ filedata'.mixed = data.mixed
    BY <1>4, <2>1
  <2>3. /\ filedata.version <= data.version /\ data.version <= disk.version
        /\ data.version = disk.version => ~data.mixed /\ data.len <= disk.len
    BY <1>2, <1>6 DEF Behind
  <2>4. data.version = disk.version /\ filedata.version = disk.version
          => data.len >= filedata.len
    BY <1>2, <1>3 DEF Behind, Least
  <2>5. Behind'
    BY <1>2, <2>2, <2>3 DEF Behind
  <2>. QED
    BY <1>3, <2>2, <2>3, <2>4, <2>5 DEF Onward
<1>. QED
  BY <1>3, <1>5, <1>6

(* No other step changes the text or the file, or comes to the fread but   *)
(* fopen and ftell, which find nothing read.                               *)
LEMMA OthersStay ==
  ASSUME IInv, Behind,
         \/ load_file \/ (\E t \in Times : Stat(t)) \/ Open \/ OpenFails \/ Close \/ Start
         \/ ReadCrashes \/ StartFails \/ Tick
  PROVE  Behind' /\ UNCHANGED filedata
<1>1. UNCHANGED <<filedata, disk>>
  BY DEF load_file, Stat, Rearm, Open, OpenFails, Close, Noted, Start, ReadCrashes, StartFails,
         Tick, cache
<1>2. CASE Open
  <2>1. at = "open" /\ size' = disk.len /\ data' = data
    BY <1>2 DEF Open
  <2>2. ~(data.len > 0) /\ ~data.mixed
    BY <2>1 DEF IInv, Loads, NoData
  <2>. QED
    BY <1>1, <2>1, <2>2 DEF Behind
<1>3. CASE Tick
  BY <1>1, <1>3 DEF Behind, Tick, reading
<1>4. CASE ~Open /\ ~Tick
  <2>1. at' # "read"
    BY <1>4 DEF load_file, Stat, Rearm, OpenFails, Close, Noted, Start, ReadCrashes, StartFails
  <2>. QED
    BY <1>1, <2>1 DEF Behind
<1>. QED
  BY <1>1, <1>2, <1>3, <1>4

(* However the file is changed between stat, ftell and the reads of fread, *)
(* a reload serves no older text than before; less of the same one, or a   *)
(* mixed one, only when a newer is on the disk already (NeverBackwards;    *)
(* lines 33-46).                                                           *)
THEOREM Forward == Spec => NeverBackwards
<1>1. IInv /\ Behind /\ [Next]_vars => Behind' /\ (Onward \/ UNCHANGED filedata)
  <2>. SUFFICES ASSUME IInv, Behind, [Next]_vars PROVE Behind' /\ (Onward \/ UNCHANGED filedata)
    OBVIOUS
  <2>t. TypeOK
    BY DEF IInv
  <2>1. CASE UNCHANGED vars
    BY <2>1 DEF Behind, vars
  <2>2. CASE Read
    BY <2>t, <2>2, ReadGoesOn
  <2>3. CASE \E n \in 1 .. Whole : ReadPart(n)
    BY <2>t, <2>3, PartsStayAhead
  <2>4. CASE Next /\ ~Read /\ ~(\E n \in 1 .. Whole : ReadPart(n))
    BY <2>t, <2>4, WritersStayAhead, OthersStay DEF Next, ServerStep
  <2>. QED
    BY <2>1, <2>2, <2>3, <2>4
<1>2. Spec => []Behind
  BY InitBehind, Invariance, <1>1, PTL DEF Spec
<1>. QED
  BY Invariance, <1>1, <1>2, PTL DEF Spec, NeverBackwards, Onward
=============================================================================
