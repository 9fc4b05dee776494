------------------------ MODULE ObservationStore_proofs ------------------------
(***************************************************************************)
(* Proofs about ObservationStore, for any set of processes, any last id    *)
(* and any number of captures and faults.                                  *)
(*                                                                         *)
(* All results come from one inductive invariant.  The directory is made   *)
(* by one process only (OneWriter), which finds it as it left it           *)
(* (OwnEntry); captures have numbers of their own (OwnNumber), so an entry *)
(* that bears the number of one capture is not written by another.         *)
(***************************************************************************)
EXTENDS ObservationStore, TLAPS

\* Captures are numbered apart, and one that writes has a number.
OwnNumber ==
  /\ \A p \in Procs : num[p] <= caps
  /\ \A p, q \in Procs : num[p] = num[q] /\ num[p] # 0 => p = q
  /\ \A p \in Procs : pc[p] # "idle" \/ result[p] = "ok" => num[p] # 0

\* A directory has one writer.
OneWriter ==
  \A p, q \in Procs : Writing(p) /\ Writing(q) /\ id[p] = id[q] => p = q

\* The writer finds in it what it put there itself.
OwnEntry ==
  \A p \in Procs : LET e == entry[id[p]] IN
    /\ Writing(p) => e.dir /\ e.by = num[p]
    /\ pc[p] = "image" => e.image = "none" /\ e.record = "none"
    /\ pc[p] = "record" => e.image = "whole" /\ e.record = "none"
    /\ pc[p] = "text" => e.image = "whole" /\ e.record = "part"
    /\ pc[p] = "abort" => e.record # "whole"

StoreInv == /\ TypeOK /\ OwnNumber /\ OneWriter /\ OwnEntry
            /\ RecordHasImage /\ SuccessIsOwn /\ CleanWithoutFaults

-----------------------------------------------------------------------------
\* What capture() puts into the root is an entry, and a file lies in a directory.
LEMMA EntryType ==
  /\ Absent \in Entry
  /\ \A e \in Entry : e.dir \in BOOLEAN /\ e.by \in 0 .. MaxCaptures
  /\ \A e \in Entry, n \in 0 .. MaxCaptures : Made(e, n) \in Entry
  /\ \A e \in Entry, f \in File : /\ [e EXCEPT !.image = f] \in Entry
                                  /\ [e EXCEPT !.record = f] \in Entry
  BY StoreAssumption DEF Entry, Absent, File, Made

\* Putting an entry into the root keeps the root a root.
LEMMA PutType ==
  ASSUME TypeOK, NEW p \in Procs, NEW e \in Entry, e.dir \/ e = Absent, Put(p, e)
  PROVE  /\ entry' \in [Ids -> Entry]
         /\ \A i \in Ids : ~entry'[i].dir => entry'[i] = Absent
         /\ entry'[id[p]] = e
         /\ \A i \in Ids : i # id[p] => entry'[i] = entry[i]
<1>1. id[p] \in Ids /\ entry \in [Ids -> Entry]
  BY DEF TypeOK
<1>2. entry' = [entry EXCEPT ![id[p]] = e]
  BY DEF Put
<1>3. \A i \in Ids : ~entry[i].dir => entry[i] = Absent
  BY DEF TypeOK
<1> QED
  BY <1>1, <1>2, <1>3

\* A step keeps the types of everything but the root, whatever the root is.
LEMMA RestType ==
  ASSUME TypeOK, NEW p \in Procs, Step(p)
  PROVE  /\ pc' \in [Procs -> {"idle", "scan", "check", "frame", "mkdir",
                               "image", "record", "text", "abort"}]
         /\ id' \in [Procs -> Ids]
         /\ num' \in [Procs -> 0 .. MaxCaptures]
         /\ result' \in [Procs -> {"none", "ok", "failed"}]
         /\ caps' \in 0 .. MaxCaptures /\ faults' \in 0 .. MaxFaults
<1> USE StoreAssumption DEF TypeOK
<1>1. CASE Begin(p)
  <2>1. caps + 1 \in 0 .. MaxCaptures /\ 1 \in Ids
    BY <1>1 DEF Begin, Ids
  <2> QED
    BY <1>1, <2>1 DEF Begin, Goes
<1>2. CASE TryNextId(p)
  <2>1. id[p] <= MaxId => id[p] + 1 \in Ids
    BY DEF Ids
  <2>2. UNCHANGED id \/ (id' = [id EXCEPT ![p] = id[p] + 1] /\ id[p] <= MaxId)
    BY <1>2 DEF TryNextId, Listed
  <2>3. id' \in [Procs -> Ids]
    <3>1. id \in [Procs -> Ids]
      OBVIOUS
    <3> HIDE DEF TypeOK
    <3> QED
      BY <2>1, <2>2, <3>1
  <2> QED
    BY <1>2, <2>3 DEF TryNextId, Goes
<1>3. CASE CheckConfig(p)
  BY <1>3 DEF CheckConfig, Goes, Returns
<1>4. CASE AcquireFrame(p)
  BY <1>4 DEF AcquireFrame, Goes, Returns
<1>5. CASE MakeDirectory(p)
  BY <1>5 DEF MakeDirectory, Goes, Returns
<1>6. CASE WriteImage(p)
  BY <1>6 DEF WriteImage, AfterImage, CleansUp, Goes
<1>7. CASE OpenRecord(p)
  BY <1>7 DEF OpenRecord, CleansUp, Goes
<1>8. CASE WriteRecord(p)
  <2>1. faults' \in 0 .. MaxFaults /\ UNCHANGED <<id, num, caps>>
    BY <1>8 DEF WriteRecord, Fault
  <2>2. \/ pc' = [pc EXCEPT ![p] = "idle"] /\ result' = [result EXCEPT ![p] = "ok"]
        \/ pc' = [pc EXCEPT ![p] = "abort"] /\ UNCHANGED result
    BY <1>8 DEF WriteRecord, CleansUp, Goes, Returns
  <2> QED
    BY <2>1, <2>2
<1>9. CASE Abort(p)
  BY <1>9 DEF Abort, Returns, Fault
<1>10. CASE Killed(p)
  BY <1>10 DEF Killed, Fault
<1> QED
  BY <1>1, <1>2, <1>3, <1>4, <1>5, <1>6, <1>7, <1>8, <1>9, <1>10 DEF Step

\* A step changes at most its own process's entry: one whose directory is not
\* there, or one that the process is writing and that is not complete.
LEMMA EntryStep ==
  ASSUME TypeOK, OwnEntry, NEW p \in Procs, Step(p)
  PROVE  /\ entry' \in [Ids -> Entry]
         /\ \A i \in Ids : ~entry'[i].dir => entry'[i] = Absent
         /\ \A i \in Ids : entry'[i] # entry[i] =>
              /\ i = id[p]
              /\ (pc[p] = "mkdir" /\ ~entry[i].dir) \/ (Writing(p) /\ ~Complete(i))
<1> DEFINE Now == entry[id[p]]
<1>1. /\ Now \in Entry /\ id[p] \in Ids /\ num[p] \in 0 .. MaxCaptures
      /\ Now.image \in File /\ Now.record \in File
  BY DEF TypeOK, Entry
<1>2. Writing(p) => Now.dir
  BY DEF OwnEntry
<1>3. CASE UNCHANGED entry
  BY <1>3 DEF TypeOK
<1>4. CASE MakeDirectory(p) /\ entry' # entry
  <2>1. Put(p, Made(Now, num[p])) /\ ~Now.dir /\ pc[p] = "mkdir"
    BY <1>4 DEF MakeDirectory, Created
  <2>2. Made(Now, num[p]) \in Entry /\ Made(Now, num[p]).dir
    BY <1>1, EntryType DEF Made
  <2>3. /\ entry' \in [Ids -> Entry]
        /\ \A i \in Ids : ~entry'[i].dir => entry'[i] = Absent
        /\ \A i \in Ids : i # id[p] => entry'[i] = entry[i]
    <3> HIDE DEF Now
    <3> QED
      BY <2>1, <2>2, PutType
  <2> QED
    BY <2>1, <2>3
<1>5. ASSUME NEW f \in File, Writing(p), ~Complete(id[p]),
             Put(p, [Now EXCEPT !.image = f]) \/ Put(p, [Now EXCEPT !.record = f])
      PROVE  /\ entry' \in [Ids -> Entry]
             /\ \A i \in Ids : ~entry'[i].dir => entry'[i] = Absent
             /\ \A i \in Ids : entry'[i] # entry[i] => i = id[p] /\ Writing(p) /\ ~Complete(i)
  <2>1. /\ [Now EXCEPT !.image = f] \in Entry /\ [Now EXCEPT !.image = f].dir
        /\ [Now EXCEPT !.record = f] \in Entry /\ [Now EXCEPT !.record = f].dir
    BY <1>1, <1>2, <1>5, EntryType DEF Entry
  <2> QED
    BY <1>5, <2>1, PutType
<1>6. Writing(p) => ~Complete(id[p])
  BY DEF OwnEntry, Complete, Writing
<1>7. CASE WriteImage(p)
  <2>1. Writing(p) /\ \E f \in File : Put(p, [Now EXCEPT !.image = f])
    BY <1>7 DEF WriteImage, Writing, File
  <2> QED
    BY <1>5, <1>6, <2>1
<1>8. CASE OpenRecord(p) /\ entry' # entry
  <2>1. Writing(p) /\ \E f \in File : Put(p, [Now EXCEPT !.record = f])
    BY <1>8 DEF OpenRecord, Writing, File
  <2> QED
    BY <1>5, <1>6, <2>1
<1>9. CASE WriteRecord(p) /\ entry' # entry
  <2>1. Writing(p) /\ \E f \in File : Put(p, [Now EXCEPT !.record = f])
    BY <1>9 DEF WriteRecord, Writing, File
  <2> QED
    BY <1>5, <1>6, <2>1
<1>10. CASE Abort(p) /\ entry' # entry
  <2>1. Writing(p)
    BY <1>10 DEF Abort, Writing
  <2>2. \/ Put(p, Absent)
        \/ \E f \in File : Put(p, [Now EXCEPT !.image = f]) \/ Put(p, [Now EXCEPT !.record = f])
    BY <1>10 DEF Abort, Unlink, File
  <2>3. CASE Put(p, Absent)
    BY <1>6, <2>1, <2>3, EntryType, PutType
  <2>4. CASE \E f \in File : Put(p, [Now EXCEPT !.image = f]) \/ Put(p, [Now EXCEPT !.record = f])
    BY <1>5, <1>6, <2>1, <2>4
  <2> QED
    BY <2>2, <2>3, <2>4
<1>11. CASE Killed(p) /\ entry' # entry
  <2>1. Writing(p) /\ Put(p, [Now EXCEPT !.image = "part"]) /\ "part" \in File
    BY <1>11 DEF Killed, Writing, File
  <2> QED
    BY <1>5, <1>6, <2>1
<1> QED
  BY <1>3, <1>4, <1>7, <1>8, <1>9, <1>10, <1>11
     DEF Step, Begin, TryNextId, CheckConfig, AcquireFrame

\* A step of p leaves the other processes where they are.
LEMMA OthersStep ==
  ASSUME TypeOK, NEW p \in Procs, Step(p), NEW q \in Procs, q # p
  PROVE  pc'[q] = pc[q] /\ id'[q] = id[q] /\ num'[q] = num[q] /\ result'[q] = result[q]
<1> USE DEF TypeOK, Goes, Returns
<1>1. CASE Begin(p)
  BY <1>1 DEF Begin
<1>2. CASE TryNextId(p)
  BY <1>2 DEF TryNextId
<1>3. CASE CheckConfig(p) \/ AcquireFrame(p)
  BY <1>3 DEF CheckConfig, AcquireFrame
<1>4. CASE MakeDirectory(p)
  BY <1>4 DEF MakeDirectory
<1>5. CASE WriteImage(p)
  BY <1>5 DEF WriteImage, AfterImage, CleansUp
<1>6. CASE OpenRecord(p) \/ WriteRecord(p)
  BY <1>6 DEF OpenRecord, WriteRecord, CleansUp
<1>7. CASE Abort(p)
  BY <1>7 DEF Abort
<1>8. CASE Killed(p)
  BY <1>8 DEF Killed
<1> QED
  BY <1>1, <1>2, <1>3, <1>4, <1>5, <1>6, <1>7, <1>8 DEF Step

\* A process that is writing after its step made the directory in that step, or
\* was writing there before it.
LEMMA WriterStep ==
  ASSUME TypeOK, OwnEntry, NEW p \in Procs, Step(p), Writing(p)'
  PROVE  /\ id'[p] = id[p] /\ num'[p] = num[p]
         /\ (pc[p] = "mkdir" /\ ~entry[id[p]].dir) \/ Writing(p)
         /\ LET e == entry'[id[p]] IN
              /\ e.dir /\ e.by = num[p]
              /\ pc'[p] = "image" => e.image = "none" /\ e.record = "none"
              /\ pc'[p] = "record" => e.image = "whole" /\ e.record = "none"
              /\ pc'[p] = "text" => e.image = "whole" /\ e.record = "part"
              /\ pc'[p] = "abort" => e.record # "whole"
<1>1. /\ id[p] \in Ids /\ entry[id[p]] \in Entry /\ num[p] \in 0 .. MaxCaptures
      /\ pc \in [Procs -> {"idle", "scan", "check", "frame", "mkdir",
                            "image", "record", "text", "abort"}]
      /\ entry \in [Ids -> Entry]
      /\ ~entry[id[p]].dir => entry[id[p]] = Absent
  BY DEF TypeOK
<1>2. pc'[p] \in {"image", "record", "text", "abort"}
  BY DEF Writing
<1>3. CASE Begin(p) \/ TryNextId(p) \/ CheckConfig(p) \/ AcquireFrame(p)
  BY <1>1, <1>2, <1>3 DEF Begin, TryNextId, CheckConfig, AcquireFrame, Goes, Returns
<1>4. CASE MakeDirectory(p)
  <2>1. /\ pc'[p] = "image" /\ ~entry[id[p]].dir /\ pc[p] = "mkdir"
        /\ Put(p, Made(entry[id[p]], num[p]))
        /\ UNCHANGED <<id, num>>
    BY <1>1, <1>2, <1>4 DEF MakeDirectory, Created, Goes, Returns
  <2>2. entry'[id[p]] = Made(Absent, num[p])
    BY <1>1, <2>1 DEF Put
  <2> QED
    BY <2>1, <2>2 DEF Made, Absent
<1>5. CASE WriteImage(p)
  <2>1. /\ pc[p] = "image" /\ UNCHANGED <<id, num>>
        /\ entry[id[p]].dir /\ entry[id[p]].by = num[p] /\ entry[id[p]].record = "none"
    BY <1>5 DEF WriteImage, OwnEntry, Writing
  <2>2. CASE Put(p, [entry[id[p]] EXCEPT !.image = "whole"]) /\ Goes(p, "record")
    BY <1>1, <2>1, <2>2 DEF Put, Goes, Entry, Writing
  <2>3. CASE \E f \in {"none", "part"} : /\ Put(p, [entry[id[p]] EXCEPT !.image = f])
                                         /\ Goes(p, "abort")
    BY <1>1, <2>1, <2>3 DEF Put, Goes, Entry, Writing
  <2> QED
    BY <1>5, <2>2, <2>3 DEF WriteImage, AfterImage, CleansUp
<1>6. CASE OpenRecord(p)
  <2>1. /\ pc[p] = "record" /\ UNCHANGED <<id, num>> /\ entry[id[p]].image = "whole"
        /\ entry[id[p]].dir /\ entry[id[p]].by = num[p] /\ entry[id[p]].record = "none"
    BY <1>6 DEF OpenRecord, OwnEntry, Writing
  <2>2. CASE Put(p, [entry[id[p]] EXCEPT !.record = "part"]) /\ Goes(p, "text")
    BY <1>1, <2>1, <2>2 DEF Put, Goes, Entry, Writing
  <2>3. CASE Goes(p, "abort") /\ UNCHANGED entry
    BY <1>1, <2>1, <2>3 DEF Goes, Writing
  <2> QED
    BY <1>6, <2>2, <2>3 DEF OpenRecord, CleansUp
<1>7. CASE WriteRecord(p)
  <2>1. /\ pc[p] = "text" /\ UNCHANGED <<id, num>>
        /\ entry[id[p]].dir /\ entry[id[p]].by = num[p] /\ entry[id[p]].record = "part"
    BY <1>7 DEF WriteRecord, OwnEntry, Writing
  <2>2. Goes(p, "abort") /\ UNCHANGED entry
    BY <1>1, <1>2, <1>7 DEF WriteRecord, CleansUp, Returns
  <2> QED
    BY <1>1, <2>1, <2>2 DEF Goes, Writing
<1>8. CASE Abort(p)
  <2>1. /\ pc[p] = "abort" /\ UNCHANGED <<id, num, pc>>
        /\ \E e \in Unlink(entry[id[p]]) : Put(p, e)
    BY <1>1, <1>2, <1>8 DEF Abort, Returns
  <2>2. /\ entry[id[p]].dir /\ entry[id[p]].by = num[p] /\ entry[id[p]].record # "whole"
    BY <2>1 DEF OwnEntry, Writing
  <2>3. \/ entry'[id[p]] = [entry[id[p]] EXCEPT !.image = "none"]
        \/ entry'[id[p]] = [entry[id[p]] EXCEPT !.record = "none"]
    BY <1>1, <2>1 DEF Put, Unlink
  <2> QED
    BY <1>1, <2>1, <2>2, <2>3 DEF Entry, Writing
<1>9. CASE Killed(p)
  BY <1>1, <1>2, <1>9 DEF Killed
<1> QED
  BY <1>3, <1>4, <1>5, <1>6, <1>7, <1>8, <1>9 DEF Step

\* A step that ends a capture with success wrote its record, into the capture's
\* own directory and beside its whole image.
LEMMA SuccessStep ==
  ASSUME TypeOK, OwnEntry, NEW p \in Procs, Step(p), pc'[p] = "idle", result'[p] = "ok"
  PROVE  /\ pc[p] = "text" /\ id'[p] = id[p] /\ num'[p] = num[p]
         /\ entry'[id[p]].by = num[p] /\ entry'[id[p]].image = "whole"
<1>1. /\ id[p] \in Ids /\ entry[id[p]] \in Entry /\ entry \in [Ids -> Entry]
      /\ pc \in [Procs -> {"idle", "scan", "check", "frame", "mkdir",
                            "image", "record", "text", "abort"}]
      /\ result \in [Procs -> {"none", "ok", "failed"}]
  BY DEF TypeOK
<1>2. CASE Begin(p) \/ TryNextId(p) \/ CheckConfig(p) \/ AcquireFrame(p)
  BY <1>1, <1>2 DEF Begin, TryNextId, CheckConfig, AcquireFrame, Goes, Returns
<1>3. CASE MakeDirectory(p) \/ WriteImage(p) \/ OpenRecord(p) \/ Abort(p) \/ Killed(p)
  BY <1>1, <1>3 DEF MakeDirectory, WriteImage, AfterImage, CleansUp, OpenRecord, Abort, Killed,
                    Goes, Returns
<1>4. CASE WriteRecord(p)
  <2>1. /\ pc[p] = "text" /\ UNCHANGED <<id, num>>
        /\ entry[id[p]].by = num[p] /\ entry[id[p]].image = "whole"
    BY <1>4 DEF WriteRecord, OwnEntry, Writing
  <2>2. UNCHANGED entry \/ Put(p, [entry[id[p]] EXCEPT !.record = "whole"])
    BY <1>4 DEF WriteRecord
  <2> QED
    BY <1>1, <2>1, <2>2 DEF Put, Entry
<1> QED
  BY <1>2, <1>3, <1>4 DEF Step

\* Nobody changes what another process is writing.
LEMMA OthersEntry ==
  ASSUME TypeOK, OneWriter, OwnEntry, NEW p \in Procs, Step(p),
         NEW q \in Procs, q # p, Writing(q)
  PROVE  entry'[id[q]] = entry[id[q]] /\ (id'[p] = id[q] => ~Writing(p)')
<1>1. entry[id[q]].dir /\ id[q] \in Ids
  BY DEF OwnEntry, TypeOK
<1>2. ~(Writing(p) /\ id[p] = id[q])
  BY DEF OneWriter
<1>3. entry'[id[q]] = entry[id[q]]
  BY <1>1, <1>2, EntryStep
<1>4. Writing(p)' => id'[p] # id[q]
  BY <1>1, <1>2, WriterStep
<1> QED
  BY <1>3, <1>4

-----------------------------------------------------------------------------
(* The parts of the invariant                                              *)

\* Every step keeps the number of a capture its own.
LEMMA NumberStep ==
  ASSUME TypeOK, OwnNumber, OwnEntry, NEW p \in Procs, Step(p)
  PROVE  OwnNumber'
<1>1. /\ caps \in Nat /\ \A q \in Procs : num[q] \in Nat
      /\ num \in [Procs -> 0 .. MaxCaptures]
      /\ pc \in [Procs -> {"idle", "scan", "check", "frame", "mkdir",
                            "image", "record", "text", "abort"}]
  BY StoreAssumption DEF TypeOK
<1>2. CASE Begin(p)
  <2>1. caps' = caps + 1 /\ num' = [num EXCEPT ![p] = caps + 1]
    BY <1>2 DEF Begin
  <2>2. \A q \in Procs : num'[q] <= caps'
    BY <1>1, <2>1 DEF OwnNumber
  <2>3. \A q, r \in Procs : num'[q] = num'[r] /\ num'[q] # 0 => q = r
    BY <1>1, <2>1 DEF OwnNumber
  <2>4. \A q \in Procs : pc'[q] # "idle" \/ result'[q] = "ok" => num'[q] # 0
    BY <1>1, <2>1, OthersStep DEF OwnNumber
  <2> QED
    BY <2>2, <2>3, <2>4 DEF OwnNumber
<1>3. CASE ~Begin(p)
  <2>1. UNCHANGED <<num, caps>> /\ pc[p] # "idle"
    BY <1>3 DEF Step, TryNextId, CheckConfig, AcquireFrame, MakeDirectory, WriteImage,
                OpenRecord, WriteRecord, Abort, Killed
  <2>2. \A q \in Procs : pc'[q] # "idle" \/ result'[q] = "ok" => num[q] # 0
    BY <2>1, OthersStep DEF OwnNumber
  <2> QED
    BY <2>1, <2>2 DEF OwnNumber
<1> QED
  BY <1>2, <1>3

\* create_directories() lets one process write into a directory at a time.
LEMMA OneWriterStep ==
  ASSUME TypeOK, OneWriter, OwnEntry, NEW p \in Procs, Step(p)
  PROVE  OneWriter'
<1> SUFFICES ASSUME NEW q \in Procs, NEW r \in Procs,
                    Writing(q)', Writing(r)', id'[q] = id'[r], q # r
             PROVE  FALSE
  BY DEF OneWriter
<1>1. \A o \in Procs : o # p => (Writing(o)' <=> Writing(o)) /\ id'[o] = id[o]
  BY OthersStep DEF Writing
<1>2. CASE q # p /\ r # p
  BY <1>1, <1>2 DEF OneWriter
<1>3. CASE q = p
  BY <1>1, <1>3, OthersEntry
<1>4. CASE r = p
  BY <1>1, <1>4, OthersEntry
<1> QED
  BY <1>2, <1>3, <1>4

\* A writer's directory stays its own until it stops writing.
LEMMA OwnEntryStep ==
  ASSUME TypeOK, OneWriter, OwnEntry, NEW p \in Procs, Step(p)
  PROVE  OwnEntry'
<1>1. ASSUME NEW q \in Procs, Writing(q)'
      PROVE  LET e == entry'[id'[q]] IN
               /\ e.dir /\ e.by = num'[q]
               /\ pc'[q] = "image" => e.image = "none" /\ e.record = "none"
               /\ pc'[q] = "record" => e.image = "whole" /\ e.record = "none"
               /\ pc'[q] = "text" => e.image = "whole" /\ e.record = "part"
               /\ pc'[q] = "abort" => e.record # "whole"
  <2>1. CASE q = p
    BY <1>1, <2>1, WriterStep
  <2>2. CASE q # p
    <3>1. /\ pc'[q] = pc[q] /\ id'[q] = id[q] /\ num'[q] = num[q] /\ Writing(q)
      BY <1>1, <2>2, OthersStep DEF Writing
    <3>2. entry'[id[q]] = entry[id[q]]
      BY <2>2, <3>1, OthersEntry
    <3> QED
      BY <3>1, <3>2 DEF OwnEntry
  <2> QED
    BY <2>1, <2>2
<1> QED
  BY <1>1 DEF OwnEntry, Writing

\* A capture that ended with success keeps its directory: nobody changes what is
\* complete, and a new capture of the process takes a new number.
LEMMA SuccessIsOwnStep ==
  ASSUME TypeOK, OwnNumber, OneWriter, OwnEntry, SuccessIsOwn, NEW p \in Procs, Step(p)
  PROVE  SuccessIsOwn'
<1> SUFFICES ASSUME NEW q \in Procs, pc'[q] = "idle", result'[q] = "ok"
             PROVE  entry'[id'[q]].by = num'[q] /\ entry'[id'[q]].image = "whole"
  BY DEF SuccessIsOwn
<1>1. CASE q = p
  BY <1>1, SuccessStep
<1>2. CASE q # p
  <2>1. /\ pc[q] = "idle" /\ result[q] = "ok" /\ id'[q] = id[q] /\ num'[q] = num[q]
    BY <1>2, OthersStep
  <2>2. entry[id[q]].by = num[q] /\ entry[id[q]].image = "whole" /\ num[q] # 0
    BY <2>1 DEF SuccessIsOwn, OwnNumber
  <2>3. id[q] \in Ids /\ entry[id[q]].dir
    BY <2>2 DEF TypeOK, Absent
  <2>4. ~(Writing(p) /\ id[p] = id[q])
    BY <1>2, <2>2 DEF OwnEntry, OwnNumber
  <2>5. entry'[id[q]] = entry[id[q]]
    BY <2>3, <2>4, EntryStep
  <2> QED
    BY <2>1, <2>2, <2>5
<1> QED
  BY <1>1, <1>2
\* What a step leaves in the entry it changes.
LEMMA ChangedEntry ==
  ASSUME TypeOK, OneWriter, OwnEntry, RecordHasImage, NEW p \in Procs, Step(p),
         entry'[id[p]] # entry[id[p]]
  PROVE  LET e == entry'[id[p]] IN
           /\ e.record = "whole" => e.image = "whole"
           /\ \/ faults' # 0
              \/ e.dir => \/ e.image = "whole" /\ e.record = "whole"
                          \/ Writing(p)' /\ id'[p] = id[p]
<1> DEFINE Now == entry[id[p]]
<1>1. /\ id[p] \in Ids /\ Now \in Entry /\ entry \in [Ids -> Entry] /\ faults \in Nat
      /\ pc \in [Procs -> {"idle", "scan", "check", "frame", "mkdir",
                            "image", "record", "text", "abort"}]
      /\ ~Now.dir => Now = Absent
      /\ Now.record = "whole" => Now.image = "whole"
  BY StoreAssumption DEF TypeOK, RecordHasImage
<1>2. CASE MakeDirectory(p)
  <2>1. Put(p, Made(Absent, num[p])) /\ Goes(p, "image") /\ UNCHANGED id
    BY <1>1, <1>2 DEF MakeDirectory, Created
  <2> QED
    BY <1>1, <2>1 DEF Put, Made, Absent, Goes, Writing
<1>3. CASE WriteImage(p)
  <2>1. Now.record = "none" /\ UNCHANGED id
    BY <1>3 DEF WriteImage, OwnEntry
  <2>2. /\ \E f \in File : Put(p, [Now EXCEPT !.image = f])
        /\ Goes(p, "record") \/ Goes(p, "abort")
    BY <1>3 DEF WriteImage, AfterImage, CleansUp, File
  <2> QED
    BY <1>1, <2>1, <2>2 DEF Put, Entry, Goes, Writing
<1>4. CASE OpenRecord(p)
  <2>1. Put(p, [Now EXCEPT !.record = "part"]) /\ Goes(p, "text") /\ UNCHANGED id
    BY <1>4 DEF OpenRecord
  <2> QED
    BY <1>1, <2>1 DEF Put, Entry, Goes, Writing
<1>5. CASE WriteRecord(p)
  <2>1. Now.image = "whole" /\ Put(p, [Now EXCEPT !.record = "whole"])
    BY <1>5 DEF WriteRecord, OwnEntry
  <2> QED
    BY <1>1, <2>1 DEF Put, Entry
<1>6. CASE Abort(p)
  <2>1. CASE Put(p, Absent)
    BY <1>1, <2>1 DEF Put, Absent
  <2>2. CASE (\E e \in Unlink(Now) : Put(p, e)) /\ UNCHANGED pc
    <3>1. pc[p] = "abort" /\ Now.record # "whole" /\ UNCHANGED id
      BY <1>6 DEF Abort, OwnEntry
    <3>2. \/ entry'[id[p]] = [Now EXCEPT !.image = "none"]
          \/ entry'[id[p]] = [Now EXCEPT !.record = "none"]
      BY <1>1, <2>2 DEF Put, Unlink
    <3> QED
      BY <1>1, <2>2, <3>1, <3>2 DEF Entry, Writing
  <2> QED
    BY <1>6, <2>1, <2>2 DEF Abort
<1>7. CASE Killed(p)
  <2>1. faults' # 0
    BY <1>1, <1>7 DEF Killed, Fault
  <2>2. pc[p] = "image" /\ Put(p, [Now EXCEPT !.image = "part"])
    BY <1>7 DEF Killed
  <2> QED
    BY <1>1, <2>1, <2>2 DEF Put, Entry, OwnEntry
<1> QED
  BY <1>2, <1>3, <1>4, <1>5, <1>6, <1>7
     DEF Step, Begin, TryNextId, CheckConfig, AcquireFrame

\* Every step keeps a record beside its whole image.
LEMMA RecordHasImageStep ==
  ASSUME TypeOK, OneWriter, OwnEntry, RecordHasImage, NEW p \in Procs, Step(p)
  PROVE  RecordHasImage'
BY EntryStep, ChangedEntry DEF RecordHasImage

\* A writer that stops writing without a fault leaves its entry complete or
\* removed; if the entry did not change, the writer is still there.
LEMMA StillWriting ==
  ASSUME TypeOK, OwnEntry, NEW p \in Procs, Step(p), Writing(p), faults' = 0,
         entry'[id[p]] = entry[id[p]]
  PROVE  Writing(p)' /\ id'[p] = id[p]
<1>1. /\ id[p] \in Ids /\ entry[id[p]] \in Entry /\ entry \in [Ids -> Entry] /\ faults \in Nat
      /\ pc \in [Procs -> {"idle", "scan", "check", "frame", "mkdir",
                            "image", "record", "text", "abort"}]
  BY StoreAssumption DEF TypeOK
<1>2. CASE WriteImage(p)
  BY <1>1, <1>2 DEF WriteImage, AfterImage, CleansUp, Goes, Writing
<1>3. CASE OpenRecord(p)
  BY <1>1, <1>3 DEF OpenRecord, CleansUp, Goes, Writing
<1>4. CASE WriteRecord(p)
  <2>1. entry[id[p]].record = "part" /\ UNCHANGED id
    BY <1>4 DEF WriteRecord, OwnEntry
  <2>2. CASE Put(p, [entry[id[p]] EXCEPT !.record = "whole"])
    BY <1>1, <2>1, <2>2 DEF Put, Entry
  <2>3. CASE Goes(p, "abort")
    BY <1>1, <2>1, <2>3 DEF Goes, Writing
  <2> QED
    BY <1>1, <1>4, <2>2, <2>3 DEF WriteRecord, CleansUp, Fault
<1>5. CASE Abort(p)
  <2>1. CASE UNCHANGED pc
    BY <1>5, <2>1 DEF Abort, Writing
  <2>2. CASE Put(p, Absent)
    <3>1. entry[id[p]].dir
      BY DEF OwnEntry
    <3> QED
      BY <1>1, <2>2, <3>1 DEF Put, Absent
  <2> QED
    BY <1>1, <1>5, <2>1, <2>2 DEF Abort, Fault
<1> QED
  BY <1>1, <1>2, <1>3, <1>4, <1>5
     DEF Step, Writing, Begin, TryNextId, CheckConfig, AcquireFrame, MakeDirectory, Killed, Fault

\* A step without a fault leaves nothing half recorded that nobody is writing.
LEMMA CleanStep ==
  ASSUME TypeOK, OneWriter, OwnEntry, RecordHasImage, CleanWithoutFaults,
         NEW p \in Procs, Step(p)
  PROVE  CleanWithoutFaults'
<1> SUFFICES ASSUME faults' = 0, NEW i \in Ids, entry'[i].dir
             PROVE  Complete(i)' \/ \E q \in Procs : Writing(q)' /\ id'[q] = i
  BY DEF CleanWithoutFaults
<1>1. faults = 0
  <2>1. faults \in Nat /\ (faults' = faults \/ faults' = faults + 1)
    <3>1. UNCHANGED faults \/ Fault
      BY DEF Step, Begin, TryNextId, CheckConfig, AcquireFrame, MakeDirectory, WriteImage,
             OpenRecord, WriteRecord, Abort, Killed
    <3> QED
      BY <3>1, StoreAssumption DEF TypeOK, Fault
  <2> QED
    BY <2>1
<1>2. CASE entry'[i] # entry[i]
  <2>1. i = id[p]
    BY <1>2, EntryStep
  <2>2. \/ entry'[i].image = "whole" /\ entry'[i].record = "whole"
        \/ Writing(p)' /\ id'[p] = i
    BY <1>2, <2>1, ChangedEntry
  <2> QED
    BY <2>2 DEF Complete
<1>3. CASE entry'[i] = entry[i] /\ Complete(i)
  BY <1>3 DEF Complete
<1>4. CASE entry'[i] = entry[i] /\ ~Complete(i)
  <2>1. PICK q \in Procs : Writing(q) /\ id[q] = i
    BY <1>1, <1>4 DEF CleanWithoutFaults
  <2>2. CASE q = p
    BY <1>4, <2>1, <2>2, StillWriting
  <2>3. CASE q # p
    BY <2>1, <2>3, OthersStep DEF Writing
  <2> QED
    BY <2>2, <2>3
<1> QED
  BY <1>2, <1>3, <1>4

-----------------------------------------------------------------------------
(* The invariant and the theorems                                          *)

\* The invariant holds of an empty root.
LEMMA StoreInit == Init => StoreInv
<1> SUFFICES ASSUME Init PROVE StoreInv
  OBVIOUS
<1>1. TypeOK
  BY StoreAssumption DEF Init, TypeOK, Ids, Entry, File, Absent
<1>2. OwnNumber /\ OneWriter /\ OwnEntry
  BY DEF Init, OwnNumber, OneWriter, OwnEntry, Writing
<1>3. RecordHasImage /\ SuccessIsOwn /\ CleanWithoutFaults
  BY DEF Init, RecordHasImage, SuccessIsOwn, CleanWithoutFaults, Absent
<1> QED
  BY <1>1, <1>2, <1>3 DEF StoreInv

\* Every step keeps the invariant.
LEMMA StoreStep == StoreInv /\ [Next]_vars => StoreInv'
<1> SUFFICES ASSUME StoreInv, [Next]_vars PROVE StoreInv'
  OBVIOUS
<1> USE DEF StoreInv
<1>1. CASE UNCHANGED vars
  BY <1>1 DEF vars, TypeOK, OwnNumber, OneWriter, OwnEntry, RecordHasImage, SuccessIsOwn,
              CleanWithoutFaults, Writing, Complete
<1>2. ASSUME NEW p \in Procs, Step(p) PROVE StoreInv'
  <2>1. TypeOK'
    BY <1>2, RestType, EntryStep DEF TypeOK
  <2> QED
    BY <1>2, <2>1, NumberStep, OneWriterStep, OwnEntryStep, RecordHasImageStep,
       SuccessIsOwnStep, CleanStep
<1> QED
  BY <1>1, <1>2 DEF Next

\* Every step of the store preserves what the theorems below need.
THEOREM StoreInvariant == Spec => []StoreInv
<1> QED
  BY StoreInit, StoreStep, PTL DEF Spec

\* The ids, entries and counters keep their types: the scan of
\* nextObservationId() never leaves its range, however many ids are taken.
THEOREM TypeCorrect == Spec => []TypeOK
<1>1. StoreInv => TypeOK
  BY DEF StoreInv
<1> QED
  BY <1>1, StoreInvariant, PTL

\* A complete record lies beside its whole image, whatever is killed or fails, between
\* the files of a clean-up too, and however many processes share the root.
THEOREM RecordsHaveImages == Spec => []RecordHasImage
<1>1. StoreInv => RecordHasImage
  BY DEF StoreInv
<1> QED
  BY <1>1, StoreInvariant, PTL

\* A capture that returned success left its own directory.
THEOREM SuccessLeavesOwn == Spec => []SuccessIsOwn
<1>1. StoreInv => SuccessIsOwn
  BY DEF StoreInv
<1> QED
  BY <1>1, StoreInvariant, PTL

\* Without faults there is no half-recorded evidence but what is being written.
THEOREM NothingHalfRecorded == Spec => []CleanWithoutFaults
<1>1. StoreInv => CleanWithoutFaults
  BY DEF StoreInv
<1> QED
  BY <1>1, StoreInvariant, PTL

\* Complete evidence is never overwritten, by any process in any order.
THEOREM EvidenceIsKept == Spec => NeverOverwritten
<1>1. StoreInv /\ [Next]_vars => [\A i \in Ids : Complete(i) => entry'[i] = entry[i]]_vars
  <2> SUFFICES ASSUME StoreInv, [Next]_vars, NEW i \in Ids, Complete(i)
               PROVE  entry'[i] = entry[i]
    OBVIOUS
  <2>1. CASE UNCHANGED vars
    BY <2>1 DEF vars
  <2>2. ASSUME NEW p \in Procs, Step(p) PROVE entry'[i] = entry[i]
    <3>1. Complete(i) => entry[i].dir
      BY DEF StoreInv, TypeOK, Complete, Absent
    <3> QED
      BY <2>2, <3>1, EntryStep DEF StoreInv
  <2> QED
    BY <2>1, <2>2 DEF Next
<1> QED
  BY <1>1, StoreInvariant, PTL DEF Spec, NeverOverwritten
=============================================================================
