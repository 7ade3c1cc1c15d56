-------------------------- MODULE VolumeServerProofs --------------------------
(***************************************************************************)
(* Proofs about VolumeServer, for any sets of names, sizes, files and      *)
(* requests, with or without racing calls, I/O errors and crashes.         *)
(***************************************************************************)
EXTENDS VolumeServerHistory, TLAPS

-----------------------------------------------------------------------------
(* What the prover needs of the constants.                                 *)
LEMMA InodeFacts ==
  /\ \A r \in Req : r \in Inode /\ r \notin Vol
  /\ \A v \in Vol : v \in Inode
  /\ None \notin Vol /\ None \notin Req /\ None \notin Size /\ None \notin Inode
  BY VolumeServerAssumption DEF Inode

(* Starting a call, whatever it is: fitting arguments, at a first label.   *)
StartsAt(r, a, label) ==
  /\ Begin(r, a, label)
  /\ a \in Args
  /\ label \in {"mkdir", "load", "scan", "readdir"}
  /\ label # "readdir" => a.vol \in Vol
  /\ label = "mkdir" => a.op = "create" /\ a.size \in Size
  /\ label = "load" => \/ a.op = "expand" /\ a.size \in Size
                       \/ a.op \in Copies /\ a.src \in Vol
  /\ label = "scan" => a.op = "remove"
  /\ label = "readdir" => a.op = "list"
  /\ a.op = "list" => a.vol = None

LEMMA StartFacts ==
  ASSUME NEW r \in Req, Start(r)
  PROVE  \E a, label : StartsAt(r, a, label)
<1>1. CASE \E v \in Vol, z \in Size : StartCreate(r, v, z)
  <2>1. PICK v \in Vol, z \in Size :
          Begin(r, [op |-> "create", vol |-> v, src |-> None, size |-> z], "mkdir")
    BY <1>1 DEF StartCreate
  <2> QED BY <2>1 DEF StartsAt, Args, Ops, Copies
<1>2. CASE \E v \in Vol, z \in Size : StartExpand(r, v, z)
  <2>1. PICK v \in Vol, z \in Size :
          Begin(r, [op |-> "expand", vol |-> v, src |-> None, size |-> z], "load")
    BY <1>2 DEF StartExpand
  <2> QED BY <2>1 DEF StartsAt, Args, Ops, Copies
<1>3. CASE \E o \in Copies, s \in Vol, v \in Vol : StartCopy(r, o, s, v)
  <2>1. PICK o \in Copies, s \in Vol, v \in Vol :
          Begin(r, [op |-> o, vol |-> v, src |-> s, size |-> None], "load")
    BY <1>3 DEF StartCopy
  <2> QED BY <2>1 DEF StartsAt, Args, Ops, Copies
<1>4. CASE \E v \in Vol : StartRemove(r, v)
  <2>1. PICK v \in Vol :
          Begin(r, [op |-> "remove", vol |-> v, src |-> None, size |-> None], "scan")
    BY <1>4 DEF StartRemove
  <2> QED BY <2>1 DEF StartsAt, Args, Ops, Copies
<1>5. CASE StartList(r)
  BY <1>5 DEF StartList, StartsAt, Args, Ops, Copies
<1> QED BY <1>1, <1>2, <1>3, <1>4, <1>5 DEF Start

LEMMA TypeStep ==
  ASSUME TypeOK, ArgsOK, OneHome, [Next]_vars
  PROVE  TypeOK'
<1> USE VolumeServerAssumption DEF TypeOK, ArgsOK
<1>1. ASSUME NEW r \in Req, Start(r)
      PROVE  TypeOK'
  <2>1. PICK a, label : StartsAt(r, a, label)
    BY <1>1, StartFacts
  <2> QED BY <2>1 DEF StartsAt, Begin, fs, local, Running
<1>2. ASSUME NEW r \in Req, LoadMeta(r)
      PROVE  TypeOK'
  <2> DEFINE from == IF arg[r].op = "expand" THEN arg[r].vol ELSE arg[r].src
  <2>1. from \in Vol /\ pc[r] = "load"
    BY <1>2 DEF LoadMeta, Changes, Running
  <2>2. CASE Parsable(from)
    <3>1. text[meta[from]].obj.size \in Size
      BY <2>1, <2>2 DEF Parsable, Text, Obj
    <3> QED BY <1>2, <2>2, <3>1 DEF LoadMeta, Goto, fs, Running
  <2>3. CASE ~Parsable(from)
    BY <1>2, <2>3 DEF LoadMeta, Goto, fs, Ended
  <2> QED BY <2>2, <2>3
<1>3. ASSUME NEW r \in Req, MakeVolDir(r)
      PROVE  TypeOK'
  BY <1>3 DEF MakeVolDir, Goto, fs, local, Changes, Running, Ended
<1>4. ASSUME NEW r \in Req, MakeMountpoint(r)
      PROVE  TypeOK'
  BY <1>4 DEF MakeMountpoint, Goto, fs, local, Changes, Running, Ended
<1>5. ASSUME NEW r \in Req, ReadSourceNames(r)
      PROVE  TypeOK'
  BY <1>5 DEF ReadSourceNames, Goto, fs, local, Changes, Running, Ended
<1>6. ASSUME NEW r \in Req, CopyDone(r)
      PROVE  TypeOK'
  BY <1>6 DEF CopyDone, Goto, fs, local, Changes, Running, Ended
<1>7. ASSUME NEW r \in Req, UnlinkMeta(r)
      PROVE  TypeOK'
  BY <1>7 DEF UnlinkMeta, Goto, fs, local, Changes, Running, Ended
<1>8. ASSUME NEW r \in Req, OpenMeta(r)
      PROVE  TypeOK'
  <2>1. arg[r].vol \in Vol
    BY <1>8 DEF OpenMeta, Changes, Running
  <2>2. CASE arg[r].vol \in dir
    <3>1. fd' \in [Req -> Inode \cup {None}] /\ meta' \in [Vol -> Inode \cup {None}]
      BY <1>8, <2>1, <2>2 DEF OpenMeta, Inode
    <3> QED BY <1>8, <2>2, <3>1 DEF OpenMeta, Goto, Running
  <2>3. CASE arg[r].vol \notin dir
    BY <1>8, <2>3 DEF OpenMeta, Goto, Ended
  <2> QED BY <2>2, <2>3
<1>9. ASSUME NEW r \in Req, WriteMeta(r)
      PROVE  TypeOK'
  BY <1>9 DEF WriteMeta, Goto, fs, local, Changes, Running, Ended, TextOf, Overwrite, NewMeta, Text, Obj
<1>10. ASSUME NEW r \in Req, ScanVolDir(r)
      PROVE  TypeOK'
  BY <1>10 DEF ScanVolDir, Goto, fs, local, Changes, Running, Ended
<1>11. ASSUME NEW r \in Req, RemoveMeta(r)
      PROVE  TypeOK'
  BY <1>11 DEF RemoveMeta, Goto, fs, local, Changes, Running, Ended
<1>12. ASSUME NEW r \in Req, RemoveFiles(r)
      PROVE  TypeOK'
  BY <1>12 DEF RemoveFiles, Goto, fs, local, Changes, Running, Ended
<1>13. ASSUME NEW r \in Req, RemoveMountpoint(r)
      PROVE  TypeOK'
  BY <1>13 DEF RemoveMountpoint, Goto, fs, local, Changes, Running, Ended
<1>14. ASSUME NEW r \in Req, RemoveVolDir(r)
      PROVE  TypeOK'
  BY <1>14 DEF RemoveVolDir, Goto, fs, local, Changes, Running, Ended
<1>15. ASSUME NEW r \in Req, ReadVolGroup(r)
      PROVE  TypeOK'
  BY <1>15 DEF ReadVolGroup, Goto, fs, local, Changes, Running, Ended
<1>16. ASSUME NEW r \in Req, ListDone(r)
      PROVE  TypeOK'
  BY <1>16 DEF ListDone, Goto, fs, local, Changes, Running, Ended
<1>17. ASSUME NEW r \in Req, NEW f \in File, CopyFile(r, f)
      PROVE  TypeOK'
  BY <1>17 DEF CopyFile, Goto, fs, local, Changes, Running, Ended, Parsable, OneHome, Text, Obj
<1>18. ASSUME NEW r \in Req, NEW f \in File, SourceFileVanished(r, f)
      PROVE  TypeOK'
  BY <1>18 DEF SourceFileVanished, Goto, fs, local, Changes, Running, Ended, Parsable, OneHome, Text, Obj
<1>19. ASSUME NEW r \in Req, NEW v \in Vol, GetVolMeta(r, v)
      PROVE  TypeOK'
  <2>1. CASE Parsable(v)
    <3>1. text[meta[v]].obj.vol \in Vol
      BY <2>1 DEF Parsable, Text, Obj
    <3>2. found' \in [Req -> SUBSET Vol] /\ todo' \in [Req -> SUBSET (Vol \cup File \cup {"meta", "mountpoint"})]
      BY <1>19, <2>1, <3>1 DEF GetVolMeta
    <3> QED BY <1>19, <2>1, <3>2 DEF GetVolMeta, Goto, fs, Running
  <2>2. CASE ~Parsable(v)
    BY <1>19, <2>2 DEF GetVolMeta, Goto, fs, Ended
  <2> QED BY <2>1, <2>2
<1>20. ASSUME NEW r \in Req, IOErrorReported(r)
      PROVE  TypeOK'
  BY <1>20 DEF IOErrorReported, FaultAllowed, fs, local, Running, Ended
<1>21. ASSUME NEW r \in Req, VolGroupUnreadable(r)
      PROVE  TypeOK'
  BY <1>21 DEF VolGroupUnreadable, FaultAllowed, fs, local, Running, Ended
<1>22. ASSUME NEW r \in Req, IOErrorDropped(r)
      PROVE  TypeOK'
  BY <1>22 DEF IOErrorDropped, FaultAllowed, fs, local, Running, Ended
<1>23. CASE Crash
  BY <1>23 DEF Crash, FaultAllowed, fs, local, Ended
<1>24. ASSUME NEW v \in Vol, NEW f \in File, PodWrite(v, f)
      PROVE  TypeOK'
  BY <1>24 DEF PodWrite, local
<1>25. ASSUME NEW v \in Vol, NEW f \in File, PodDelete(v, f)
      PROVE  TypeOK'
  BY <1>25 DEF PodDelete, local
<1>26. CASE UNCHANGED vars
  BY <1>26 DEF vars
<1> QED
  BY <1>1, <1>2, <1>3, <1>4, <1>5, <1>6, <1>7, <1>8, <1>9, <1>10, <1>11, <1>12, <1>13,
     <1>14, <1>15, <1>16, <1>17, <1>18, <1>19, <1>20, <1>21, <1>22, <1>23, <1>24, <1>25,
     <1>26 DEF Next, Step, IOError

LEMMA ArgsStep ==
  ASSUME TypeOK, TypeOK', ArgsOK, [Next]_vars
  PROVE  ArgsOK'
<1> USE VolumeServerAssumption DEF ArgsOK
<1>1. ASSUME NEW r \in Req, Start(r)
      PROVE  ArgsOK'
  <2>1. PICK a, label : StartsAt(r, a, label)
    BY <1>1, StartFacts
  <2> QED BY <2>1 DEF StartsAt, Begin, fs, local, TypeOK, Args, Changes, Running, Ended, Copies, Ops
<1>2. ASSUME NEW r \in Req, LoadMeta(r)
      PROVE  ArgsOK'
  BY <1>2 DEF LoadMeta, Goto, fs, local, TypeOK, Args, Changes, Running, Ended, Copies, Ops, Parsable, Text, Obj
<1>3. ASSUME NEW r \in Req, MakeVolDir(r)
      PROVE  ArgsOK'
  BY <1>3 DEF MakeVolDir, Goto, fs, local, TypeOK, Args, Changes, Running, Ended, Copies, Ops
<1>4. ASSUME NEW r \in Req, MakeMountpoint(r)
      PROVE  ArgsOK'
  BY <1>4 DEF MakeMountpoint, Goto, fs, local, TypeOK, Args, Changes, Running, Ended, Copies, Ops
<1>5. ASSUME NEW r \in Req, ReadSourceNames(r)
      PROVE  ArgsOK'
  BY <1>5 DEF ReadSourceNames, Goto, fs, local, TypeOK, Args, Changes, Running, Ended, Copies, Ops
<1>6. ASSUME NEW r \in Req, CopyDone(r)
      PROVE  ArgsOK'
  BY <1>6 DEF CopyDone, Goto, fs, local, TypeOK, Args, Changes, Running, Ended, Copies, Ops
<1>7. ASSUME NEW r \in Req, UnlinkMeta(r)
      PROVE  ArgsOK'
  BY <1>7 DEF UnlinkMeta, Goto, fs, local, TypeOK, Args, Changes, Running, Ended, Copies, Ops
<1>8. ASSUME NEW r \in Req, OpenMeta(r)
      PROVE  ArgsOK'
  <2> DEFINE v == arg[r].vol
  <2>1. pc[r] = "open" /\ v \in Vol
    BY <1>8 DEF OpenMeta, Changes, Running
  <2>2. CASE v \in dir
    <3>1. fd' = [fd EXCEPT ![r] = IF meta[v] = None THEN r ELSE meta[v]]
      BY <1>8, <2>2 DEF OpenMeta
    <3>2. fd'[r] # None
      BY <2>1, <3>1, InodeFacts DEF TypeOK
    <3> QED BY <1>8, <2>1, <2>2, <3>1, <3>2
            DEF OpenMeta, Goto, TypeOK, Changes, Running, Ended, Copies
  <2>3. CASE v \notin dir
    BY <1>8, <2>1, <2>3 DEF OpenMeta, Goto, TypeOK, Changes, Running, Ended, Copies
  <2> QED BY <2>2, <2>3
<1>9. ASSUME NEW r \in Req, WriteMeta(r)
      PROVE  ArgsOK'
  BY <1>9 DEF WriteMeta, Goto, fs, local, TypeOK, Args, Changes, Running, Ended, Copies, Ops
<1>10. ASSUME NEW r \in Req, ScanVolDir(r)
      PROVE  ArgsOK'
  BY <1>10 DEF ScanVolDir, Goto, fs, local, TypeOK, Args, Changes, Running, Ended, Copies, Ops
<1>11. ASSUME NEW r \in Req, RemoveMeta(r)
      PROVE  ArgsOK'
  BY <1>11 DEF RemoveMeta, Goto, fs, local, TypeOK, Args, Changes, Running, Ended, Copies, Ops
<1>12. ASSUME NEW r \in Req, RemoveFiles(r)
      PROVE  ArgsOK'
  BY <1>12 DEF RemoveFiles, Goto, fs, local, TypeOK, Args, Changes, Running, Ended, Copies, Ops
<1>13. ASSUME NEW r \in Req, RemoveMountpoint(r)
      PROVE  ArgsOK'
  BY <1>13 DEF RemoveMountpoint, Goto, fs, local, TypeOK, Args, Changes, Running, Ended, Copies, Ops
<1>14. ASSUME NEW r \in Req, RemoveVolDir(r)
      PROVE  ArgsOK'
  BY <1>14 DEF RemoveVolDir, Goto, fs, local, TypeOK, Args, Changes, Running, Ended, Copies, Ops
<1>15. ASSUME NEW r \in Req, ReadVolGroup(r)
      PROVE  ArgsOK'
  BY <1>15 DEF ReadVolGroup, Goto, fs, local, TypeOK, Args, Changes, Running, Ended, Copies, Ops
<1>16. ASSUME NEW r \in Req, ListDone(r)
      PROVE  ArgsOK'
  BY <1>16 DEF ListDone, Goto, fs, local, TypeOK, Args, Changes, Running, Ended, Copies, Ops
<1>17. ASSUME NEW r \in Req, NEW f \in File, CopyFile(r, f)
      PROVE  ArgsOK'
  BY <1>17 DEF CopyFile, Goto, fs, local, TypeOK, Args, Changes, Running, Ended, Copies, Ops
<1>18. ASSUME NEW r \in Req, NEW f \in File, SourceFileVanished(r, f)
      PROVE  ArgsOK'
  BY <1>18 DEF SourceFileVanished, Goto, fs, local, TypeOK, Args, Changes, Running, Ended, Copies, Ops
<1>19. ASSUME NEW r \in Req, NEW v \in Vol, GetVolMeta(r, v)
      PROVE  ArgsOK'
  BY <1>19 DEF GetVolMeta, Goto, fs, local, TypeOK, Args, Changes, Running, Ended, Copies, Ops
<1>20. ASSUME NEW r \in Req, IOErrorReported(r)
      PROVE  ArgsOK'
  BY <1>20 DEF IOErrorReported, fs, local, FaultAllowed, TypeOK, Args, Changes, Running, Ended, Copies, Ops
<1>21. ASSUME NEW r \in Req, VolGroupUnreadable(r)
      PROVE  ArgsOK'
  BY <1>21 DEF VolGroupUnreadable, fs, local, FaultAllowed, TypeOK, Args, Changes, Running, Ended, Copies, Ops
<1>22. ASSUME NEW r \in Req, IOErrorDropped(r)
      PROVE  ArgsOK'
  BY <1>22 DEF IOErrorDropped, fs, local, FaultAllowed, TypeOK, Args, Changes, Running, Ended, Copies, Ops
<1>23. CASE Crash
  BY <1>23 DEF Crash, fs, local, FaultAllowed, TypeOK, Args, Changes, Running, Ended, Copies, Ops
<1>24. ASSUME NEW v \in Vol, NEW f \in File, PodWrite(v, f)
      PROVE  ArgsOK'
  BY <1>24 DEF PodWrite, fs, local, TypeOK, Args, Changes, Running, Ended, Copies, Ops
<1>25. ASSUME NEW v \in Vol, NEW f \in File, PodDelete(v, f)
      PROVE  ArgsOK'
  BY <1>25 DEF PodDelete, fs, local, TypeOK, Args, Changes, Running, Ended, Copies, Ops
<1>26. CASE UNCHANGED vars
  BY <1>26 DEF vars, TypeOK, Args, Changes, Running, Ended, Copies, Ops
<1> QED
  BY <1>1, <1>2, <1>3, <1>4, <1>5, <1>6, <1>7, <1>8, <1>9, <1>10, <1>11, <1>12, <1>13,
     <1>14, <1>15, <1>16, <1>17, <1>18, <1>19, <1>20, <1>21, <1>22, <1>23, <1>24, <1>25,
     <1>26 DEF Next, Step, IOError

LEMMA HomeStep ==
  ASSUME TypeOK, TypeOK', ArgsOK, OneHome, [Next]_vars
  PROVE  OneHome'
<1> USE VolumeServerAssumption, InodeFacts DEF OneHome, Home
<1>1. ASSUME NEW r \in Req, Start(r)
      PROVE  OneHome'
  <2>1. PICK a, label : StartsAt(r, a, label)
    BY <1>1, StartFacts
  <2>2. arg[r] = NoArg /\ arg' = [arg EXCEPT ![r] = a] /\ UNCHANGED <<meta, fd, text>>
    BY <2>1 DEF StartsAt, Begin, ArgsOK, fs, local
  <2>3. arg[r].vol \notin Vol /\ Home(r) \notin Vol
    BY <2>2 DEF NoArg
  <2>4. \A i \in Inode \ {r} : Home(i)' = Home(i)
    BY <2>2 DEF Inode, TypeOK
  <2>5. \A v \in Vol : meta[v] # None => (Home(meta[v]) = v)'
    BY <2>2, <2>3, <2>4 DEF TypeOK
  <2>6. \A q \in Req : fd[q] # None => fd[q] # r /\ q # r
    BY <2>3
  <2>7. \A q \in Req : (fd[q] # None => arg[q].vol \in Vol /\ Home(fd[q]) = arg[q].vol)'
    BY <2>2, <2>4, <2>6 DEF TypeOK
  <2>8. text[r].obj = None
    BY <2>3 DEF TypeOK, Text, Obj
  <2>9. \A i \in Inode : (text[i].obj # None => text[i].obj.vol = Home(i))'
    BY <2>2, <2>4, <2>8
  <2> QED BY <2>2, <2>5, <2>7, <2>9 DEF TypeOK
<1>2. ASSUME NEW r \in Req, LoadMeta(r)
      PROVE  OneHome'
  BY <1>2 DEF LoadMeta, Goto, fs, local, TypeOK, ArgsOK, Changes, Running, Args, NoArg
<1>3. ASSUME NEW r \in Req, MakeVolDir(r)
      PROVE  OneHome'
  BY <1>3 DEF MakeVolDir, Goto, fs, local, TypeOK, ArgsOK, Changes, Running, Args, NoArg
<1>4. ASSUME NEW r \in Req, MakeMountpoint(r)
      PROVE  OneHome'
  BY <1>4 DEF MakeMountpoint, Goto, fs, local, TypeOK, ArgsOK, Changes, Running, Args, NoArg
<1>5. ASSUME NEW r \in Req, ReadSourceNames(r)
      PROVE  OneHome'
  BY <1>5 DEF ReadSourceNames, Goto, fs, local, TypeOK, ArgsOK, Changes, Running, Args, NoArg
<1>6. ASSUME NEW r \in Req, CopyDone(r)
      PROVE  OneHome'
  BY <1>6 DEF CopyDone, Goto, fs, local, TypeOK, ArgsOK, Changes, Running, Args, NoArg
<1>7. ASSUME NEW r \in Req, UnlinkMeta(r)
      PROVE  OneHome'
  BY <1>7 DEF UnlinkMeta, Goto, fs, local, TypeOK, ArgsOK, Changes, Running, Args, NoArg
<1>8. ASSUME NEW r \in Req, OpenMeta(r)
      PROVE  OneHome'
  <2> DEFINE v == arg[r].vol
             i == IF meta[v] = None THEN r ELSE meta[v]
  <2>1. pc[r] = "open" /\ v \in Vol /\ text' = text /\ arg' = arg
    BY <1>8 DEF OpenMeta, Goto, ArgsOK, Changes, Running
  <2>2. CASE v \in dir
    <3>1. fd' = [fd EXCEPT ![r] = i]
      BY <1>8, <2>2 DEF OpenMeta
    <3>2. meta' = [meta EXCEPT ![v] = i]
      BY <1>8, <2>2, <3>1 DEF OpenMeta, TypeOK
    <3>3. Home(i) = v
      BY <2>1
    <3>4. \A w \in Vol : (meta[w] # None => Home(meta[w]) = w)'
      BY <2>1, <3>2, <3>3 DEF TypeOK
    <3>5. \A q \in Req : (fd[q] # None => arg[q].vol \in Vol /\ Home(fd[q]) = arg[q].vol)'
      BY <2>1, <3>1, <3>3 DEF TypeOK
    <3> QED BY <2>1, <3>4, <3>5
  <2>3. CASE v \notin dir
    BY <1>8, <2>1, <2>3 DEF OpenMeta
  <2> QED BY <2>2, <2>3
<1>9. ASSUME NEW r \in Req, WriteMeta(r)
      PROVE  OneHome'
  BY <1>9 DEF WriteMeta, Goto, fs, local, TypeOK, ArgsOK, Changes, Running, Args, NoArg, TextOf, Overwrite, NewMeta, Text, Obj
<1>10. ASSUME NEW r \in Req, ScanVolDir(r)
      PROVE  OneHome'
  BY <1>10 DEF ScanVolDir, Goto, fs, local, TypeOK, ArgsOK, Changes, Running, Args, NoArg
<1>11. ASSUME NEW r \in Req, RemoveMeta(r)
      PROVE  OneHome'
  BY <1>11 DEF RemoveMeta, Goto, fs, local, TypeOK, ArgsOK, Changes, Running, Args, NoArg
<1>12. ASSUME NEW r \in Req, RemoveFiles(r)
      PROVE  OneHome'
  BY <1>12 DEF RemoveFiles, Goto, fs, local, TypeOK, ArgsOK, Changes, Running, Args, NoArg
<1>13. ASSUME NEW r \in Req, RemoveMountpoint(r)
      PROVE  OneHome'
  BY <1>13 DEF RemoveMountpoint, Goto, fs, local, TypeOK, ArgsOK, Changes, Running, Args, NoArg
<1>14. ASSUME NEW r \in Req, RemoveVolDir(r)
      PROVE  OneHome'
  BY <1>14 DEF RemoveVolDir, Goto, fs, local, TypeOK, ArgsOK, Changes, Running, Args, NoArg
<1>15. ASSUME NEW r \in Req, ReadVolGroup(r)
      PROVE  OneHome'
  BY <1>15 DEF ReadVolGroup, Goto, fs, local, TypeOK, ArgsOK, Changes, Running, Args, NoArg
<1>16. ASSUME NEW r \in Req, ListDone(r)
      PROVE  OneHome'
  BY <1>16 DEF ListDone, Goto, fs, local, TypeOK, ArgsOK, Changes, Running, Args, NoArg
<1>17. ASSUME NEW r \in Req, NEW f \in File, CopyFile(r, f)
      PROVE  OneHome'
  BY <1>17 DEF CopyFile, Goto, fs, local, TypeOK, ArgsOK, Changes, Running, Args, NoArg
<1>18. ASSUME NEW r \in Req, NEW f \in File, SourceFileVanished(r, f)
      PROVE  OneHome'
  BY <1>18 DEF SourceFileVanished, Goto, fs, local, TypeOK, ArgsOK, Changes, Running, Args, NoArg
<1>19. ASSUME NEW r \in Req, NEW v \in Vol, GetVolMeta(r, v)
      PROVE  OneHome'
  BY <1>19 DEF GetVolMeta, Goto, fs, local, TypeOK, ArgsOK, Changes, Running, Args, NoArg
<1>20. ASSUME NEW r \in Req, IOErrorReported(r)
      PROVE  OneHome'
  BY <1>20 DEF IOErrorReported, fs, local, FaultAllowed, TypeOK, ArgsOK, Changes, Running, Args, NoArg
<1>21. ASSUME NEW r \in Req, VolGroupUnreadable(r)
      PROVE  OneHome'
  BY <1>21 DEF VolGroupUnreadable, fs, local, FaultAllowed, TypeOK, ArgsOK, Changes, Running, Args, NoArg
<1>22. ASSUME NEW r \in Req, IOErrorDropped(r)
      PROVE  OneHome'
  BY <1>22 DEF IOErrorDropped, fs, local, FaultAllowed, TypeOK, ArgsOK, Changes, Running, Args, NoArg
<1>23. CASE Crash
  BY <1>23 DEF Crash, fs, local, FaultAllowed, TypeOK, ArgsOK, Changes, Running, Args, NoArg
<1>24. ASSUME NEW v \in Vol, NEW f \in File, PodWrite(v, f)
      PROVE  OneHome'
  BY <1>24 DEF PodWrite, fs, local, TypeOK, ArgsOK, Changes, Running, Args, NoArg
<1>25. ASSUME NEW v \in Vol, NEW f \in File, PodDelete(v, f)
      PROVE  OneHome'
  BY <1>25 DEF PodDelete, fs, local, TypeOK, ArgsOK, Changes, Running, Args, NoArg
<1>26. CASE UNCHANGED vars
  BY <1>26 DEF vars, TypeOK, ArgsOK, Changes, Running, Args, NoArg
<1> QED
  BY <1>1, <1>2, <1>3, <1>4, <1>5, <1>6, <1>7, <1>8, <1>9, <1>10, <1>11, <1>12, <1>13,
     <1>14, <1>15, <1>16, <1>17, <1>18, <1>19, <1>20, <1>21, <1>22, <1>23, <1>24, <1>25,
     <1>26 DEF Next, Step, IOError

-----------------------------------------------------------------------------
(* What MountpointFirst and MetaCommitsMountpoint ask of a name.           *)
Safe(v) == v \in mp \/ RemoveBegun(v)

(* A mountpoint is taken by the removal of its name, and a removal that    *)
(* was begun stays so: a request is made once.                             *)
LEMMA RemoveBegunStays ==
  ASSUME TypeOK, ArgsOK, NEW r \in Req, NEW a, NEW label, StartsAt(r, a, label),
         NEW v \in Vol, RemoveBegun(v)
  PROVE  RemoveBegun(v)'
<1>1. PICK q \in Req : arg[q].op = "remove" /\ arg[q].vol = v
  BY DEF RemoveBegun
<1>2. q # r
  BY <1>1, InodeFacts DEF StartsAt, Begin, ArgsOK, NoArg
<1>3. arg'[q] = arg[q]
  BY <1>2 DEF StartsAt, Begin, TypeOK
<1> QED BY <1>1, <1>3 DEF RemoveBegun

LEMMA SafeStays ==
  ASSUME TypeOK, ArgsOK, [Next]_vars, NEW v \in Vol, Safe(v)
  PROVE  Safe(v)'
<1> USE DEF Safe
<1>1. ASSUME NEW r \in Req, Start(r)
      PROVE  Safe(v)'
  <2>1. PICK a, label : StartsAt(r, a, label)
    BY <1>1, StartFacts
  <2> QED BY <2>1, RemoveBegunStays DEF StartsAt, Begin, fs
<1>2. ASSUME NEW r \in Req, LoadMeta(r)
      PROVE  Safe(v)'
  BY <1>2 DEF LoadMeta, Goto, fs, local, RemoveBegun
<1>3. ASSUME NEW r \in Req, MakeVolDir(r)
      PROVE  Safe(v)'
  BY <1>3 DEF MakeVolDir, Goto, fs, local, RemoveBegun
<1>4. ASSUME NEW r \in Req, MakeMountpoint(r)
      PROVE  Safe(v)'
  BY <1>4 DEF MakeMountpoint, Goto, fs, local, RemoveBegun
<1>5. ASSUME NEW r \in Req, ReadSourceNames(r)
      PROVE  Safe(v)'
  BY <1>5 DEF ReadSourceNames, Goto, fs, local, RemoveBegun
<1>6. ASSUME NEW r \in Req, CopyDone(r)
      PROVE  Safe(v)'
  BY <1>6 DEF CopyDone, Goto, fs, local, RemoveBegun
<1>7. ASSUME NEW r \in Req, UnlinkMeta(r)
      PROVE  Safe(v)'
  BY <1>7 DEF UnlinkMeta, Goto, fs, local, RemoveBegun
<1>8. ASSUME NEW r \in Req, OpenMeta(r)
      PROVE  Safe(v)'
  BY <1>8 DEF OpenMeta, Goto, fs, local, RemoveBegun
<1>9. ASSUME NEW r \in Req, WriteMeta(r)
      PROVE  Safe(v)'
  BY <1>9 DEF WriteMeta, Goto, fs, local, RemoveBegun
<1>10. ASSUME NEW r \in Req, ScanVolDir(r)
      PROVE  Safe(v)'
  BY <1>10 DEF ScanVolDir, Goto, fs, local, RemoveBegun
<1>11. ASSUME NEW r \in Req, RemoveMeta(r)
      PROVE  Safe(v)'
  BY <1>11 DEF RemoveMeta, Goto, fs, local, RemoveBegun
<1>12. ASSUME NEW r \in Req, RemoveFiles(r)
      PROVE  Safe(v)'
  BY <1>12 DEF RemoveFiles, Goto, fs, local, RemoveBegun
<1>13. ASSUME NEW r \in Req, RemoveMountpoint(r)
      PROVE  Safe(v)'
  BY <1>13 DEF RemoveMountpoint, Goto, fs, local, RemoveBegun, ArgsOK
<1>14. ASSUME NEW r \in Req, RemoveVolDir(r)
      PROVE  Safe(v)'
  BY <1>14 DEF RemoveVolDir, Goto, fs, local, RemoveBegun
<1>15. ASSUME NEW r \in Req, ReadVolGroup(r)
      PROVE  Safe(v)'
  BY <1>15 DEF ReadVolGroup, Goto, fs, local, RemoveBegun
<1>16. ASSUME NEW r \in Req, ListDone(r)
      PROVE  Safe(v)'
  BY <1>16 DEF ListDone, Goto, fs, local, RemoveBegun
<1>17. ASSUME NEW r \in Req, NEW f \in File, CopyFile(r, f)
      PROVE  Safe(v)'
  BY <1>17 DEF CopyFile, Goto, fs, local, RemoveBegun
<1>18. ASSUME NEW r \in Req, NEW f \in File, SourceFileVanished(r, f)
      PROVE  Safe(v)'
  BY <1>18 DEF SourceFileVanished, Goto, fs, local, RemoveBegun
<1>19. ASSUME NEW r \in Req, NEW w \in Vol, GetVolMeta(r, w)
      PROVE  Safe(v)'
  BY <1>19 DEF GetVolMeta, Goto, fs, local, RemoveBegun
<1>20. ASSUME NEW r \in Req, IOErrorReported(r)
      PROVE  Safe(v)'
  BY <1>20 DEF IOErrorReported, fs, local, RemoveBegun
<1>21. ASSUME NEW r \in Req, VolGroupUnreadable(r)
      PROVE  Safe(v)'
  BY <1>21 DEF VolGroupUnreadable, fs, local, RemoveBegun
<1>22. ASSUME NEW r \in Req, IOErrorDropped(r)
      PROVE  Safe(v)'
  BY <1>22 DEF IOErrorDropped, fs, local, RemoveBegun
<1>23. CASE Crash
  BY <1>23 DEF Crash, fs, local, RemoveBegun
<1>24. ASSUME NEW w \in Vol, NEW f \in File, PodWrite(w, f)
      PROVE  Safe(v)'
  BY <1>24 DEF PodWrite, fs, local, RemoveBegun
<1>25. ASSUME NEW w \in Vol, NEW f \in File, PodDelete(w, f)
      PROVE  Safe(v)'
  BY <1>25 DEF PodDelete, fs, local, RemoveBegun
<1>26. CASE UNCHANGED vars
  BY <1>26 DEF vars, RemoveBegun
<1> QED
  BY <1>1, <1>2, <1>3, <1>4, <1>5, <1>6, <1>7, <1>8, <1>9, <1>10, <1>11, <1>12, <1>13,
     <1>14, <1>15, <1>16, <1>17, <1>18, <1>19, <1>20, <1>21, <1>22, <1>23, <1>24, <1>25,
     <1>26 DEF Next, Step, IOError

LEMMA MountStep ==
  ASSUME TypeOK, TypeOK', ArgsOK, ArgsOK', OneHome, [Next]_vars,
         \A v \in Vol : Safe(v) => Safe(v)',
         MountpointFirst, \A v \in Vol : Parsable(v) => Safe(v)
  PROVE  MountpointFirst' /\ (\A v \in Vol : Parsable(v) => Safe(v))'
<1> DEFINE Kept == MountpointFirst /\ (\A w \in Vol : Parsable(w) => Safe(w))
<1> SUFFICES Kept'
  OBVIOUS
<1>1. ASSUME NEW r \in Req, Start(r)
      PROVE  Kept'
  <2>1. PICK a, label : StartsAt(r, a, label)
    BY <1>1, StartFacts
  <2> QED BY <2>1 DEF StartsAt, Begin, fs, local, TypeOK, ArgsOK, MountpointFirst, Safe, Parsable, Changes, Running
<1>2. ASSUME NEW r \in Req, LoadMeta(r)
      PROVE  Kept'
  BY <1>2 DEF LoadMeta, Goto, fs, local, TypeOK, ArgsOK, MountpointFirst, Safe, Parsable, Changes, Running
<1>3. ASSUME NEW r \in Req, MakeVolDir(r)
      PROVE  Kept'
  BY <1>3 DEF MakeVolDir, Goto, fs, local, TypeOK, ArgsOK, MountpointFirst, Safe, Parsable, Changes, Running
<1>4. ASSUME NEW r \in Req, MakeMountpoint(r)
      PROVE  Kept'
  BY <1>4 DEF MakeMountpoint, Goto, fs, local, TypeOK, ArgsOK, MountpointFirst, Safe, Parsable, Changes, Running
<1>5. ASSUME NEW r \in Req, ReadSourceNames(r)
      PROVE  Kept'
  BY <1>5 DEF ReadSourceNames, Goto, fs, local, TypeOK, ArgsOK, MountpointFirst, Safe, Parsable, Changes, Running
<1>6. ASSUME NEW r \in Req, CopyDone(r)
      PROVE  Kept'
  BY <1>6 DEF CopyDone, Goto, fs, local, TypeOK, ArgsOK, MountpointFirst, Safe, Parsable, Changes, Running
<1>7. ASSUME NEW r \in Req, UnlinkMeta(r)
      PROVE  Kept'
  BY <1>7 DEF UnlinkMeta, Goto, fs, local, TypeOK, ArgsOK, MountpointFirst, Safe, Parsable, Changes, Running
<1>8. ASSUME NEW r \in Req, OpenMeta(r)
      PROVE  Kept'
  BY <1>8, SMTT(30) DEF OpenMeta, Goto, fs, local, TypeOK, ArgsOK, MountpointFirst, Safe, Parsable, Changes, Running
<1>9. ASSUME NEW r \in Req, WriteMeta(r)
      PROVE  Kept'
  <2>1. /\ pc[r] = "write" /\ fd[r] # None /\ arg[r].vol \in Vol
        /\ UNCHANGED <<mp, meta, arg, fd>>
        /\ \A i \in Inode \ {fd[r]} : text'[i] = text[i]
        /\ pc' = [pc EXCEPT ![r] = "ok"]
    BY <1>9 DEF WriteMeta, Goto, local, TypeOK, ArgsOK, Changes, Running
  <2>2. Safe(arg[r].vol)
    BY <2>1 DEF MountpointFirst, Safe
  <2>3. ASSUME NEW v \in Vol, Parsable(v)'
        PROVE  Safe(v)'
    <3>1. CASE meta[v] = fd[r]
      <4>1. v = arg[r].vol
        BY <2>1, <2>3, <3>1 DEF OneHome, Parsable
      <4> QED BY <2>2, <4>1
    <3>2. CASE meta[v] # fd[r]
      BY <2>1, <2>3, <3>2 DEF Parsable, TypeOK
    <3> QED BY <3>1, <3>2
  <2>4. MountpointFirst'
    BY <2>1 DEF MountpointFirst, RemoveBegun, TypeOK
  <2> QED BY <2>3, <2>4
<1>10. ASSUME NEW r \in Req, ScanVolDir(r)
      PROVE  Kept'
  BY <1>10 DEF ScanVolDir, Goto, fs, local, TypeOK, ArgsOK, MountpointFirst, Safe, Parsable, Changes, Running
<1>11. ASSUME NEW r \in Req, RemoveMeta(r)
      PROVE  Kept'
  BY <1>11 DEF RemoveMeta, Goto, fs, local, TypeOK, ArgsOK, MountpointFirst, Safe, Parsable, Changes, Running
<1>12. ASSUME NEW r \in Req, RemoveFiles(r)
      PROVE  Kept'
  BY <1>12 DEF RemoveFiles, Goto, fs, local, TypeOK, ArgsOK, MountpointFirst, Safe, Parsable, Changes, Running
<1>13. ASSUME NEW r \in Req, RemoveMountpoint(r)
      PROVE  Kept'
  BY <1>13 DEF RemoveMountpoint, Goto, fs, local, TypeOK, ArgsOK, MountpointFirst, Safe, Parsable, Changes, Running
<1>14. ASSUME NEW r \in Req, RemoveVolDir(r)
      PROVE  Kept'
  BY <1>14 DEF RemoveVolDir, Goto, fs, local, TypeOK, ArgsOK, MountpointFirst, Safe, Parsable, Changes, Running
<1>15. ASSUME NEW r \in Req, ReadVolGroup(r)
      PROVE  Kept'
  BY <1>15 DEF ReadVolGroup, Goto, fs, local, TypeOK, ArgsOK, MountpointFirst, Safe, Parsable, Changes, Running
<1>16. ASSUME NEW r \in Req, ListDone(r)
      PROVE  Kept'
  BY <1>16 DEF ListDone, Goto, fs, local, TypeOK, ArgsOK, MountpointFirst, Safe, Parsable, Changes, Running
<1>17. ASSUME NEW r \in Req, NEW f \in File, CopyFile(r, f)
      PROVE  Kept'
  BY <1>17 DEF CopyFile, Goto, fs, local, TypeOK, ArgsOK, MountpointFirst, Safe, Parsable, Changes, Running
<1>18. ASSUME NEW r \in Req, NEW f \in File, SourceFileVanished(r, f)
      PROVE  Kept'
  BY <1>18 DEF SourceFileVanished, Goto, fs, local, TypeOK, ArgsOK, MountpointFirst, Safe, Parsable, Changes, Running
<1>19. ASSUME NEW r \in Req, NEW v \in Vol, GetVolMeta(r, v)
      PROVE  Kept'
  BY <1>19 DEF GetVolMeta, Goto, fs, local, TypeOK, ArgsOK, MountpointFirst, Safe, Parsable, Changes, Running
<1>20. ASSUME NEW r \in Req, IOErrorReported(r)
      PROVE  Kept'
  BY <1>20 DEF IOErrorReported, fs, local, TypeOK, ArgsOK, MountpointFirst, Safe, Parsable, Changes, Running
<1>21. ASSUME NEW r \in Req, VolGroupUnreadable(r)
      PROVE  Kept'
  BY <1>21 DEF VolGroupUnreadable, fs, local, TypeOK, ArgsOK, MountpointFirst, Safe, Parsable, Changes, Running
<1>22. ASSUME NEW r \in Req, IOErrorDropped(r)
      PROVE  Kept'
  BY <1>22 DEF IOErrorDropped, fs, local, TypeOK, ArgsOK, MountpointFirst, Safe, Parsable, Changes, Running
<1>23. CASE Crash
  BY <1>23 DEF Crash, fs, local, TypeOK, ArgsOK, MountpointFirst, Safe, Parsable, Changes, Running
<1>24. ASSUME NEW v \in Vol, NEW f \in File, PodWrite(v, f)
      PROVE  Kept'
  BY <1>24 DEF PodWrite, fs, local, TypeOK, ArgsOK, MountpointFirst, Safe, Parsable, Changes, Running
<1>25. ASSUME NEW v \in Vol, NEW f \in File, PodDelete(v, f)
      PROVE  Kept'
  BY <1>25 DEF PodDelete, fs, local, TypeOK, ArgsOK, MountpointFirst, Safe, Parsable, Changes, Running
<1>26. CASE UNCHANGED vars
  BY <1>26 DEF vars, TypeOK, ArgsOK, MountpointFirst, Safe, Parsable, Changes, Running
<1> QED
  BY <1>1, <1>2, <1>3, <1>4, <1>5, <1>6, <1>7, <1>8, <1>9, <1>10, <1>11, <1>12, <1>13,
     <1>14, <1>15, <1>16, <1>17, <1>18, <1>19, <1>20, <1>21, <1>22, <1>23, <1>24, <1>25,
     <1>26 DEF Next, Step, IOError

-----------------------------------------------------------------------------
LEMMA InitIInv == Init => IInv
<1> SUFFICES ASSUME Init PROVE IInv
  OBVIOUS
<1>1. text \in [Inode -> Text]
  <2>1. PICK size \in [Vol -> Size] :
          text = [i \in Inode |->
                    IF i \in dir THEN TextOf([vol |-> i, size |-> size[i]]) ELSE Blank]
    BY DEF Init
  <2>2. \A i \in dir : TextOf([vol |-> i, size |-> size[i]]) \in Text
    BY VolumeServerAssumption DEF Init, TextOf, Text, Obj
  <2> QED BY <2>1, <2>2 DEF Blank, Text
<1>2. TypeOK
  BY <1>1, VolumeServerAssumption DEF Init, TypeOK, Ended, Args, NoArg, Inode
<1>3. ArgsOK
  BY <1>2, VolumeServerAssumption DEF Init, ArgsOK, NoArg, Changes, Running, Ops, Copies
<1>4. \A i \in Inode : text[i].obj # None => i \in Vol /\ text[i].obj.vol = i
  BY DEF Init, TextOf, Blank
<1>5. OneHome
  BY <1>4, InodeFacts DEF Init, OneHome, Home
<1>6. MountpointFirst /\ MetaCommitsMountpoint
  BY DEF Init, MountpointFirst, MetaCommitsMountpoint, Parsable
<1> QED BY <1>2, <1>3, <1>5, <1>6 DEF IInv

LEMMA StepIInv == IInv /\ [Next]_vars => IInv'
<1> SUFFICES ASSUME IInv, [Next]_vars PROVE IInv'
  OBVIOUS
<1>1. TypeOK /\ ArgsOK /\ OneHome /\ MountpointFirst /\ MetaCommitsMountpoint
  BY DEF IInv
<1>2. TypeOK'
  BY <1>1, TypeStep
<1>3. ArgsOK'
  BY <1>1, <1>2, ArgsStep
<1>4. OneHome'
  BY <1>1, <1>2, HomeStep
<1>5. \A v \in Vol : Safe(v) => Safe(v)'
  BY <1>1, SafeStays
<1>6. \A v \in Vol : Parsable(v) => Safe(v)
  BY <1>1 DEF MetaCommitsMountpoint, Safe
<1>7. MountpointFirst' /\ (\A v \in Vol : Parsable(v) => Safe(v))'
  BY <1>1, <1>2, <1>3, <1>5, <1>6, MountStep
<1>8. MetaCommitsMountpoint'
  BY <1>7 DEF MetaCommitsMountpoint, Safe
<1> QED BY <1>2, <1>3, <1>4, <1>7, <1>8 DEF IInv

(* The inductive invariant holds throughout.                               *)
THEOREM Invariance == Spec => []IInv
<1> QED BY InitIInv, StepIInv, PTL DEF Spec

(* Every variable keeps its type in every execution of the volume server.  *)
THEOREM TypeCorrect == Spec => []TypeOK
<1>1. IInv => TypeOK
  BY DEF IInv
<1> QED BY <1>1, Invariance, PTL

(* meta.json names the directory it is in, whichever handlers of           *)
(* hostpath_commands.go interleave, fail or die: an inode is linked, and   *)
(* written to, under one name only.                                        *)
THEOREM NamesAlwaysMatch == Spec => []NamesMatch
<1>1. IInv => NamesMatch
  BY InodeFacts DEF IInv, TypeOK, OneHome, NamesMatch, Parsable
<1> QED BY <1>1, Invariance, PTL

(* A volume whose metadata can be read has its mountpoint unless a removal *)
(* of it was begun, whichever handlers interleave, fail or die.            *)
THEOREM MountpointBeforeMeta == Spec => []MetaCommitsMountpoint
<1>1. IInv => MetaCommitsMountpoint
  BY DEF IInv
<1> QED BY <1>1, Invariance, PTL

-----------------------------------------------------------------------------
(* Who writes to what.  The argument is about inodes, linked or not: one   *)
(* is torn only by a handler that did not make it, for its maker finds it  *)
(* empty unless somebody else has opened it meanwhile.                     *)

(* A handler opens meta.json last and once.                                *)
OpensLast == \A r \in Req : fd[r] # None => pc[r] \in Over \cup {"write"}

(* What a handler's own inode holds before it has written, others wrote.   *)
FirstToWrite ==
  \A r \in Req : text[r].len > 0 /\ pc[r] \notin Over =>
    \E q \in Req : q # r /\ fd[q] = r

TornInode ==
  \A i \in Inode : text[i].len > 0 /\ text[i].obj = None =>
    \E q \in Req : fd[q] = i /\ q # i

Writers == OpensLast /\ FirstToWrite /\ TornInode

LEMMA WritersStep ==
  ASSUME TypeOK, TypeOK', ArgsOK, Writers, [Next]_vars
  PROVE  Writers'
<1> USE InodeFacts DEF Writers, OpensLast, FirstToWrite, TornInode, Over
<1>1. ASSUME NEW r \in Req, Start(r)
      PROVE  Writers'
  <2>1. PICK a, label : StartsAt(r, a, label)
    BY <1>1, StartFacts
  <2> QED BY <2>1 DEF StartsAt, Begin, fs, local, TypeOK
<1>2. ASSUME NEW r \in Req, LoadMeta(r)
      PROVE  Writers'
  BY <1>2 DEF LoadMeta, Goto, fs, local, TypeOK
<1>3. ASSUME NEW r \in Req, MakeVolDir(r)
      PROVE  Writers'
  BY <1>3 DEF MakeVolDir, Goto, fs, local, TypeOK
<1>4. ASSUME NEW r \in Req, MakeMountpoint(r)
      PROVE  Writers'
  BY <1>4 DEF MakeMountpoint, Goto, fs, local, TypeOK
<1>5. ASSUME NEW r \in Req, ReadSourceNames(r)
      PROVE  Writers'
  BY <1>5 DEF ReadSourceNames, Goto, fs, local, TypeOK
<1>6. ASSUME NEW r \in Req, CopyDone(r)
      PROVE  Writers'
  BY <1>6 DEF CopyDone, Goto, fs, local, TypeOK
<1>7. ASSUME NEW r \in Req, UnlinkMeta(r)
      PROVE  Writers'
  BY <1>7 DEF UnlinkMeta, Goto, fs, local, TypeOK
<1>8. ASSUME NEW r \in Req, OpenMeta(r)
      PROVE  Writers'
  <2>1. /\ pc[r] = "open" /\ fd[r] = None /\ text' = text
        /\ \A q \in Req \ {r} : fd'[q] = fd[q] /\ pc'[q] = pc[q]
    BY <1>8 DEF OpenMeta, Goto, TypeOK
  <2>2. \A i \in Inode, q \in Req : fd[q] = i => fd'[q] = i
    BY <2>1
  <2>3. pc'[r] = "write" \/ (pc'[r] = "err" /\ fd' = fd)
    BY <1>8 DEF OpenMeta, Goto, TypeOK
  <2> QED BY <2>1, <2>2, <2>3 DEF Inode
<1>9. ASSUME NEW r \in Req, WriteMeta(r)
      PROVE  Writers'
  <2> DEFINE i == fd[r]
  <2>1. /\ pc[r] = "write" /\ i \in Inode /\ fd' = fd
        /\ pc' = [pc EXCEPT ![r] = "ok"]
        /\ text' = [text EXCEPT ![i] = Overwrite(text[i], NewMeta(r))]
    BY <1>9 DEF WriteMeta, Goto, local, TypeOK, ArgsOK
  <2>2. OpensLast'
    BY <2>1 DEF TypeOK
  <2>3. ASSUME NEW q \in Req, (text[q].len > 0 /\ pc[q] \notin Over)'
        PROVE  (\E p \in Req : p # q /\ fd[p] = q)'
    <3>1. q # r /\ pc[q] \notin Over
      BY <2>1, <2>3 DEF TypeOK
    <3> QED BY <2>1, <2>3, <3>1 DEF TypeOK
  <2>4. ASSUME NEW j \in Inode, (text[j].len > 0 /\ text[j].obj = None)'
        PROVE  (\E q \in Req : fd[q] = j /\ q # j)'
    <3>1. CASE j # i
      BY <2>1, <2>4, <3>1 DEF TypeOK
    <3>2. CASE j = i /\ i # r
      BY <2>1, <3>2
    <3>3. CASE j = i /\ i = r
      <4>1. NewMeta(r) \in Obj
        BY <2>1 DEF ArgsOK, TypeOK, NewMeta, Obj, Changes, Running
      <4>2. NewMeta(r).size \in Size /\ NewMeta(r) # None
        BY <4>1, VolumeServerAssumption DEF Obj
      <4>3. TextLen[NewMeta(r).size] \in Nat /\ text[i].len \in Nat
        BY <2>1, <4>2, VolumeServerAssumption DEF TypeOK, Text
      <4>4. text[i].len > 0
        <5>1. text'[i] = Overwrite(text[i], NewMeta(r))
          BY <2>1 DEF TypeOK
        <5>2. Overwrite(text[i], NewMeta(r)).obj = None
          BY <2>4, <3>3, <5>1
        <5> QED BY <4>2, <4>3, <5>2 DEF Overwrite, TextOf
      <4> QED BY <2>1, <3>3, <4>4
    <3> QED BY <3>1, <3>2, <3>3
  <2> QED BY <2>2, <2>3, <2>4
<1>10. ASSUME NEW r \in Req, ScanVolDir(r)
      PROVE  Writers'
  BY <1>10 DEF ScanVolDir, Goto, fs, local, TypeOK
<1>11. ASSUME NEW r \in Req, RemoveMeta(r)
      PROVE  Writers'
  BY <1>11 DEF RemoveMeta, Goto, fs, local, TypeOK
<1>12. ASSUME NEW r \in Req, RemoveFiles(r)
      PROVE  Writers'
  BY <1>12 DEF RemoveFiles, Goto, fs, local, TypeOK
<1>13. ASSUME NEW r \in Req, RemoveMountpoint(r)
      PROVE  Writers'
  BY <1>13 DEF RemoveMountpoint, Goto, fs, local, TypeOK
<1>14. ASSUME NEW r \in Req, RemoveVolDir(r)
      PROVE  Writers'
  BY <1>14 DEF RemoveVolDir, Goto, fs, local, TypeOK
<1>15. ASSUME NEW r \in Req, ReadVolGroup(r)
      PROVE  Writers'
  BY <1>15 DEF ReadVolGroup, Goto, fs, local, TypeOK
<1>16. ASSUME NEW r \in Req, ListDone(r)
      PROVE  Writers'
  BY <1>16 DEF ListDone, Goto, fs, local, TypeOK
<1>17. ASSUME NEW r \in Req, NEW f \in File, CopyFile(r, f)
      PROVE  Writers'
  BY <1>17 DEF CopyFile, Goto, fs, local, TypeOK
<1>18. ASSUME NEW r \in Req, NEW f \in File, SourceFileVanished(r, f)
      PROVE  Writers'
  BY <1>18 DEF SourceFileVanished, Goto, fs, local, TypeOK
<1>19. ASSUME NEW r \in Req, NEW v \in Vol, GetVolMeta(r, v)
      PROVE  Writers'
  BY <1>19 DEF GetVolMeta, Goto, fs, TypeOK
<1>20. ASSUME NEW r \in Req, IOErrorReported(r)
      PROVE  Writers'
  BY <1>20 DEF IOErrorReported, fs, local, TypeOK
<1>21. ASSUME NEW r \in Req, VolGroupUnreadable(r)
      PROVE  Writers'
  BY <1>21 DEF VolGroupUnreadable, fs, local, TypeOK
<1>22. ASSUME NEW r \in Req, IOErrorDropped(r)
      PROVE  Writers'
  BY <1>22 DEF IOErrorDropped, fs, local, TypeOK
<1>23. CASE Crash
  BY <1>23 DEF Crash, Active, Ended, fs, local, TypeOK
<1>24. ASSUME NEW v \in Vol, NEW f \in File, PodWrite(v, f)
      PROVE  Writers'
  BY <1>24 DEF PodWrite, local
<1>25. ASSUME NEW v \in Vol, NEW f \in File, PodDelete(v, f)
      PROVE  Writers'
  BY <1>25 DEF PodDelete, local
<1>26. CASE UNCHANGED vars
  BY <1>26 DEF vars
<1> QED
  BY <1>1, <1>2, <1>3, <1>4, <1>5, <1>6, <1>7, <1>8, <1>9, <1>10, <1>11, <1>12, <1>13,
     <1>14, <1>15, <1>16, <1>17, <1>18, <1>19, <1>20, <1>21, <1>22, <1>23, <1>24, <1>25,
     <1>26 DEF Next, Step, IOError

LEMMA InitWriters == Init => Writers
<1> SUFFICES ASSUME Init PROVE Writers
  OBVIOUS
<1>1. \A i \in Inode : i \in dir \/ text[i] = Blank
  BY DEF Init
<1>2. \A r \in Req : text[r].len = 0
  BY <1>1, InodeFacts DEF Init, Blank
<1>3. \A i \in Inode : text[i].obj = None => text[i].len = 0
  <2>1. PICK size \in [Vol -> Size] :
          text = [i \in Inode |->
                    IF i \in dir THEN TextOf([vol |-> i, size |-> size[i]]) ELSE Blank]
    BY DEF Init
  <2>2. \A i \in dir : [vol |-> i, size |-> size[i]] # None
    BY VolumeServerAssumption DEF Init, Obj
  <2> QED BY <2>1, <2>2 DEF TextOf, Blank
<1>4. \A r \in Req : fd[r] = None
  BY DEF Init
<1> QED BY <1>2, <1>3, <1>4 DEF Writers, OpensLast, FirstToWrite, TornInode

(* A meta.json whose text is spoilt was written by a handler that had      *)
(* opened a file made by another: createVolMeta alone, which opens without *)
(* O_TRUNC, never spoils a file it has made itself.                        *)
THEOREM TornOnlyByAnother == Spec => []TornByAnother
<1>1. Init => IInv /\ Writers
  BY InitIInv, InitWriters
<1>2. IInv /\ Writers /\ [Next]_vars => (IInv /\ Writers)'
  BY StepIInv, WritersStep DEF IInv
<1>3. IInv /\ Writers => TornByAnother
  BY DEF IInv, TypeOK, Writers, TornInode, TornByAnother, Parsable
<1> QED BY <1>1, <1>2, <1>3, PTL DEF Spec

-----------------------------------------------------------------------------
LEMMA InitSerial == Init => Serial
<1> SUFFICES ASSUME Init PROVE Serial
  OBVIOUS
<1> USE InodeFacts
<1>1. PICK size \in [Vol -> Size] :
        text = [i \in Inode |->
                  IF i \in dir THEN TextOf([vol |-> i, size |-> size[i]]) ELSE Blank]
  BY DEF Init
<1>2. \A i \in dir :
        /\ [vol |-> i, size |-> size[i]] # None
        /\ TextLen[size[i]] # 0
  BY VolumeServerAssumption DEF Init, Obj
<1>3. Whole
  BY <1>1, <1>2 DEF Whole, TextOf, Blank
<1>4. \A v \in dir : Parsable(v)
  BY <1>1, <1>2 DEF Init, Parsable, TextOf
<1>5. \A r \in Req : Placed(r)
  BY <1>1 DEF Init, Placed, Fresh, Making, Expanding, Removing, Over, Blank, NoArg, Ops, Copies
<1>6. OnePerName /\ Tidy
  BY DEF Init, OnePerName, Tidy, Active, Ended
<1> QED BY <1>3, <1>4, <1>5, <1>6 DEF Serial, Blamed

-----------------------------------------------------------------------------
(* A handler's step concerns its own variables, its name and its inode.    *)
Mine(r) ==
  LET v == arg[r].vol IN
  /\ Active(r)
  /\ arg' = arg
  /\ \A q \in Req \ {r} : pc'[q] = pc[q]
  /\ \A q \in Req \ {r} :
       got'[q] = got[q] /\ fd'[q] = fd[q] /\ todo'[q] = todo[q] /\ found'[q] = found[q]
  /\ \A w \in Vol \ {v} : (w \in dir' <=> w \in dir) /\ (w \in mp' <=> w \in mp)
  /\ \A w \in Vol \ {v} : meta'[w] = meta[w] /\ data'[w] = data[w]
  /\ text' = text \/ (pc[r] = "write" /\ \A i \in Inode \ {fd[r]} : text'[i] = text[i])

LEMMA StepIsMine ==
  ASSUME TypeOK, ArgsOK, NEW r \in Req, Step(r)
  PROVE  Mine(r)
<1> USE DEF Mine, TypeOK, Active, Ended, Goto, fs, local
<1>1. CASE LoadMeta(r)
  BY <1>1 DEF LoadMeta
<1>2. CASE MakeVolDir(r)
  BY <1>2 DEF MakeVolDir
<1>3. CASE MakeMountpoint(r)
  BY <1>3 DEF MakeMountpoint
<1>4. CASE ReadSourceNames(r)
  BY <1>4 DEF ReadSourceNames
<1>5. ASSUME NEW f \in File, CopyFile(r, f)
      PROVE  Mine(r)
  BY <1>5 DEF CopyFile
<1>6. ASSUME NEW f \in File, SourceFileVanished(r, f)
      PROVE  Mine(r)
  BY <1>6 DEF SourceFileVanished
<1>7. CASE CopyDone(r)
  BY <1>7 DEF CopyDone
<1>8. CASE UnlinkMeta(r)
  BY <1>8 DEF UnlinkMeta
<1>9. CASE OpenMeta(r)
  BY <1>9 DEF OpenMeta
<1>10. CASE WriteMeta(r)
  BY <1>10 DEF WriteMeta
<1>11. CASE ScanVolDir(r)
  BY <1>11 DEF ScanVolDir
<1>12. CASE RemoveMeta(r)
  BY <1>12 DEF RemoveMeta
<1>13. CASE RemoveFiles(r)
  BY <1>13 DEF RemoveFiles
<1>14. CASE RemoveMountpoint(r)
  BY <1>14 DEF RemoveMountpoint
<1>15. CASE RemoveVolDir(r)
  BY <1>15 DEF RemoveVolDir
<1>16. CASE ReadVolGroup(r)
  BY <1>16 DEF ReadVolGroup
<1>17. ASSUME NEW v \in Vol, GetVolMeta(r, v)
       PROVE  Mine(r)
  BY <1>17 DEF GetVolMeta
<1>18. CASE ListDone(r)
  BY <1>18 DEF ListDone
<1> QED
  BY <1>1, <1>2, <1>3, <1>4, <1>5, <1>6, <1>7, <1>8, <1>9, <1>10, <1>11, <1>12, <1>13,
     <1>14, <1>15, <1>16, <1>17, <1>18 DEF Step

(* The other handlers stay where they are, for none is at work on r's name. *)
LEMMA OthersPlaced ==
  ASSUME IInv, Serial, NEW r \in Req, Mine(r), NEW q \in Req \ {r}
  PROVE  Placed(q)'
<1> PICK v : v = arg[q].vol
  OBVIOUS
<1>1. /\ pc'[q] = pc[q] /\ arg'[q] = arg[q] /\ arg[q]' = arg[q] /\ fd'[q] = fd[q]
      /\ got'[q] = got[q] /\ todo'[q] = todo[q]
  BY DEF Mine
<1>2. Placed(q) /\ Placed(r)
  BY DEF Serial
<1>3. Fresh(q)'
  BY <1>1, <1>2, InodeFacts DEF Mine, Placed, Fresh, Over, Active, Ended
<1>4. CASE pc[q] \notin Changes
  BY <1>1, <1>3, <1>4 DEF Placed, Making, Expanding, Removing, Changes, Running
<1>5. CASE pc[q] \in Changes
  <2>1. v \in Vol /\ v # None /\ Active(q)
    BY <1>5, InodeFacts DEF IInv, ArgsOK, Active, Changes, Running, Ended
  <2>2. arg[r].vol # v
    BY <2>1 DEF Mine, Serial, OnePerName
  <2>3. /\ v \in dir' <=> v \in dir
        /\ v \in mp' <=> v \in mp
        /\ meta'[v] = meta[v] /\ data'[v] = data[v]
    BY <2>1, <2>2 DEF Mine
  <2>4. meta[v] # None => meta[v] \in Inode /\ meta[v] # fd[r]
    BY <2>1, <2>2, InodeFacts DEF IInv, TypeOK, OneHome
  <2>5. meta[v] # None => text'[meta[v]] = text[meta[v]]
    BY <2>4 DEF Mine
  <2>6. Parsable(v)' <=> Parsable(v)
    BY <2>3, <2>5, Zenon DEF Parsable
  <2> QED BY <1>1, <1>2, <1>3, <2>3, <2>5, <2>6
          DEF Placed, Making, Expanding, Removing, Parsable
<1> QED BY <1>4, <1>5

(* The handler itself comes to its next place with what belongs there.     *)
LEMMA OwnPlaced ==
  ASSUME IInv, IInv', Serial, NEW r \in Req, Step(r)
  PROVE  Placed(r)'
<1>1. TypeOK /\ ArgsOK /\ TypeOK' /\ ArgsOK' /\ Placed(r) /\ Whole /\ Tidy
  BY DEF IInv, Serial
<1> USE <1>1, InodeFacts DEF TypeOK, ArgsOK, Placed, Fresh, Making, Expanding, Removing,
                            Over, Changes, Running, Goto, fs, local, Copies
<1>2. CASE LoadMeta(r)
  <2> PICK v : v = arg[r].vol
    OBVIOUS
  <2>1. /\ pc[r] = "load" /\ arg[r]' = arg[r] /\ UNCHANGED <<dir, mp, meta, text, fd>>
        /\ v \in Vol
    BY <1>2 DEF LoadMeta
  <2>2. CASE pc'[r] = "err"
    BY <2>1, <2>2
  <2>3. CASE pc'[r] # "err" /\ arg[r].op = "expand"
    <3>1. pc'[r] = "unlink" /\ Parsable(v) /\ got'[r] = text[meta[v]].obj.size
      BY <1>2, <2>1, <2>3 DEF LoadMeta
    <3>2. got'[r] \in Size
      BY <2>1, <3>1 DEF Parsable, Text, Obj
    <3>3. v \in dir
      BY <2>1, <3>1 DEF Parsable, Tidy
    <3>4. Parsable(v)'
      BY <2>1, <3>1 DEF Parsable
    <3> QED BY <2>1, <2>3, <3>1, <3>2, <3>3, <3>4
  <2>4. CASE pc'[r] # "err" /\ arg[r].op # "expand"
    <3>1. pc'[r] = "mkdir"
      BY <1>2, <2>4 DEF LoadMeta
    <3> QED BY <2>1, <2>4, <3>1
  <2> QED BY <2>2, <2>3, <2>4
<1>3. CASE MakeVolDir(r)
  BY <1>3 DEF MakeVolDir, Tidy
<1>4. CASE MakeMountpoint(r)
  BY <1>4 DEF MakeMountpoint
<1>5. CASE ReadSourceNames(r)
  BY <1>5 DEF ReadSourceNames
<1>6. ASSUME NEW f \in File, CopyFile(r, f)
      PROVE  Placed(r)'
  BY <1>6 DEF CopyFile
<1>7. ASSUME NEW f \in File, SourceFileVanished(r, f)
      PROVE  Placed(r)'
  BY <1>7 DEF SourceFileVanished
<1>8. CASE CopyDone(r)
  BY <1>8 DEF CopyDone
<1>9. CASE UnlinkMeta(r)
  BY <1>9 DEF UnlinkMeta
<1>10. CASE OpenMeta(r)
  BY <1>10 DEF OpenMeta
<1>11. CASE WriteMeta(r)
  BY <1>11 DEF WriteMeta
<1>12. CASE ScanVolDir(r)
  BY <1>12 DEF ScanVolDir
<1>13. CASE RemoveMeta(r)
  BY <1>13 DEF RemoveMeta
<1>14. CASE RemoveFiles(r)
  BY <1>14 DEF RemoveFiles
<1>15. CASE RemoveMountpoint(r)
  BY <1>15 DEF RemoveMountpoint
<1>16. CASE RemoveVolDir(r)
  BY <1>16 DEF RemoveVolDir
<1>17. CASE ReadVolGroup(r)
  BY <1>17 DEF ReadVolGroup
<1>18. ASSUME NEW v \in Vol, GetVolMeta(r, v)
       PROVE  Placed(r)'
  BY <1>18 DEF GetVolMeta
<1>19. CASE ListDone(r)
  BY <1>19 DEF ListDone
<1> QED
  BY <1>2, <1>3, <1>4, <1>5, <1>6, <1>7, <1>8, <1>9, <1>10, <1>11, <1>12, <1>13,
     <1>14, <1>15, <1>16, <1>17, <1>18, <1>19 DEF Step

(* What holds of each name and text survives a handler's step.             *)
LEMMA NamesKept ==
  ASSUME IInv, IInv', Serial, NEW r \in Req, Step(r)
  PROVE  OnePerName' /\ Whole' /\ Tidy'
<1>1. TypeOK /\ ArgsOK /\ Placed(r) /\ OnePerName /\ Whole /\ Tidy
  BY DEF IInv, Serial
<1>2. Mine(r)
  BY <1>1, StepIsMine
<1>3. OnePerName'
  BY <1>1, <1>2 DEF Mine, OnePerName, Active
<1>4. CASE WriteMeta(r)
  <2>1. /\ fd[r] = r /\ UNCHANGED <<dir, mp, data, meta>>
        /\ text' = [text EXCEPT ![r] = Overwrite(text[r], NewMeta(r))]
        /\ text[r].len = 0
    BY <1>1, <1>4 DEF WriteMeta, Goto, Placed, Fresh, Making, Expanding, ArgsOK, Over
  <2>2. NewMeta(r) \in Obj
    BY <1>1, <1>4 DEF WriteMeta, ArgsOK, TypeOK, NewMeta, Obj, Changes, Running
  <2>3. NewMeta(r) # None /\ TextLen[NewMeta(r).size] \in Nat \ {0}
    BY <2>2, VolumeServerAssumption DEF Obj
  <2>4. Overwrite(text[r], NewMeta(r)) = TextOf(NewMeta(r))
    BY <2>1, <2>3 DEF Overwrite
  <2>5. text'[r].len # 0 /\ text'[r].obj # None
    BY <1>1, <2>1, <2>3, <2>4, InodeFacts DEF TypeOK, TextOf
  <2> QED BY <1>1, <1>3, <2>1, <2>5 DEF Whole, Tidy, TypeOK
<1>5. CASE ~WriteMeta(r)
  <2>1. text' = text
    BY <1>5 DEF Step, LoadMeta, MakeVolDir, MakeMountpoint, ReadSourceNames, CopyFile,
       SourceFileVanished, CopyDone, UnlinkMeta, OpenMeta, ScanVolDir, RemoveMeta, RemoveFiles,
       RemoveMountpoint, RemoveVolDir, ReadVolGroup, GetVolMeta, ListDone, fs
  <2>2. Whole'
    BY <1>1, <2>1 DEF Whole
  <2> PICK v : v = arg[r].vol
    OBVIOUS
  <2>3. \A w \in Vol \ {v} :
          /\ w \notin dir' => meta'[w] = None /\ w \notin mp'
          /\ w \notin mp' => data'[w] = {}
    BY <1>1, <1>2 DEF Mine, Tidy
  <2>4. ASSUME v \in Vol
        PROVE  /\ v \notin dir' => meta'[v] = None /\ v \notin mp'
               /\ v \notin mp' => data'[v] = {}
    <3> USE <1>1, <2>4 DEF Tidy, TypeOK, ArgsOK, Goto, fs, local, Changes, Running
    <3>1. CASE LoadMeta(r) \/ MakeVolDir(r) \/ MakeMountpoint(r) \/ ReadSourceNames(r)
      BY <3>1 DEF LoadMeta, MakeVolDir, MakeMountpoint, ReadSourceNames
    <3>2. CASE CopyDone(r) \/ \E f \in File : CopyFile(r, f) \/ SourceFileVanished(r, f)
      BY <3>2 DEF CopyDone, CopyFile, SourceFileVanished
    <3>3. CASE UnlinkMeta(r) \/ OpenMeta(r)
      BY <3>3 DEF UnlinkMeta, OpenMeta
    <3>4. CASE ScanVolDir(r) \/ RemoveMeta(r) \/ RemoveFiles(r) \/ RemoveVolDir(r)
      BY <3>4 DEF ScanVolDir, RemoveMeta, RemoveFiles, RemoveVolDir
    <3>5. CASE RemoveMountpoint(r)
      BY <3>5 DEF RemoveMountpoint, Placed, Removing
    <3>6. CASE ReadVolGroup(r) \/ ListDone(r) \/ \E w \in Vol : GetVolMeta(r, w)
      BY <3>6 DEF ReadVolGroup, ListDone, GetVolMeta
    <3> QED BY <1>5, <3>1, <3>2, <3>3, <3>4, <3>5, <3>6 DEF Step
  <2>5. Tidy'
    BY <2>3, <2>4 DEF Tidy
  <2> QED BY <1>3, <2>2, <2>5
<1> QED BY <1>4, <1>5

(* A name whose metadata cannot be read still has its culprit: r leaves    *)
(* its own name readable, or gone, when it ends.                           *)
LEMMA BlameKept ==
  ASSUME IInv, IInv', Serial, Whole', NEW r \in Req, Step(r)
  PROVE  Blamed'
<1>1. TypeOK /\ ArgsOK /\ Placed(r) /\ Whole /\ Tidy /\ Blamed /\ TypeOK'
  BY DEF IInv, Serial
<1>2. Mine(r)
  BY <1>1, StepIsMine
<1> SUFFICES ASSUME NEW v \in Vol, v \in dir', ~Parsable(v)'
             PROVE  \E q \in Req : Culprit(q, v)'
  BY <1>1 DEF Blamed, TypeOK
<1>3. ASSUME NEW q \in Req \ {r}, Culprit(q, v)
      PROVE  Culprit(q, v)'
  BY <1>2, <1>3 DEF Culprit, Mine, Active
<1>4. CASE arg[r].vol # v
  <2>1. v \in dir /\ meta'[v] = meta[v]
    BY <1>2, <1>4 DEF Mine
  <2>2. meta[v] # None => meta[v] \in Inode \ {fd[r]}
    BY <1>4, InodeFacts DEF IInv, TypeOK, OneHome
  <2>3. meta[v] # None => text'[meta[v]] = text[meta[v]]
    BY <1>2, <2>2 DEF Mine
  <2>4. ~Parsable(v)
    BY <2>1, <2>3, Zenon DEF Parsable
  <2>5. PICK q \in Req : Culprit(q, v)
    BY <1>1, <2>1, <2>4 DEF Blamed
  <2> QED BY <1>3, <1>4, <2>5 DEF Culprit
<1>5. CASE arg[r].vol = v /\ Active(r)' /\ pc'[r] # "load"
  BY <1>2, <1>5 DEF Mine, Culprit
<1>6. CASE arg[r].vol = v /\ ~(Active(r)' /\ pc'[r] # "load")
  <2> USE <1>1, <1>6, InodeFacts
      DEF TypeOK, ArgsOK, Goto, fs, local, Changes, Running, Active, Ended
  <2>1. CASE LoadMeta(r)
    <3>1. UNCHANGED <<dir, meta, text>> /\ pc[r] = "load" /\ pc'[r] = "err"
      BY <2>1 DEF LoadMeta
    <3>2. ~Parsable(v) /\ v \in dir
      BY <3>1, Zenon DEF Parsable
    <3>3. PICK q \in Req : Culprit(q, v)
      BY <3>2 DEF Blamed
    <3> QED BY <1>3, <3>1, <3>3 DEF Culprit
  <2>2. CASE OpenMeta(r)
    BY <2>2 DEF OpenMeta, Placed, Making, Expanding
  <2>3. CASE WriteMeta(r)
    <3>1. /\ pc[r] = "write" /\ meta' = meta
          /\ text' = [text EXCEPT ![fd[r]] = Overwrite(text[fd[r]], NewMeta(r))]
      BY <2>3 DEF WriteMeta
    <3>2. meta[v] = r /\ fd[r] = r
      BY <3>1 DEF Placed, Making, Expanding, Copies
    <3>3. NewMeta(r) # None
      BY <3>1, VolumeServerAssumption DEF NewMeta, Obj, Copies
    <3>4. text[r].len = 0
      BY <3>1 DEF Placed, Fresh, Over
    <3>5. TextLen[NewMeta(r).size] >= 0
      BY <3>1, VolumeServerAssumption DEF NewMeta, Copies
    <3>6. text'[r].obj = NewMeta(r)
      BY <3>1, <3>2, <3>4, <3>5 DEF Overwrite, TextOf
    <3> QED BY <3>1, <3>2, <3>3, <3>6 DEF Parsable
  <2>4. CASE RemoveVolDir(r)
    BY <2>4 DEF RemoveVolDir, Placed, Removing
  <2>5. CASE ListDone(r) \/ ReadVolGroup(r) \/ \E w \in Vol : GetVolMeta(r, w)
    BY <2>5 DEF ListDone, ReadVolGroup, GetVolMeta
  <2>6. CASE MakeVolDir(r) \/ MakeMountpoint(r) \/ ReadSourceNames(r) \/ CopyDone(r)
    BY <2>6 DEF MakeVolDir, MakeMountpoint, ReadSourceNames, CopyDone
  <2>7. CASE \E f \in File : CopyFile(r, f) \/ SourceFileVanished(r, f)
    BY <2>7 DEF CopyFile, SourceFileVanished
  <2>8. CASE UnlinkMeta(r) \/ ScanVolDir(r) \/ RemoveMeta(r) \/ RemoveFiles(r)
    BY <2>8 DEF UnlinkMeta, ScanVolDir, RemoveMeta, RemoveFiles
  <2>9. CASE RemoveMountpoint(r)
    BY <2>9 DEF RemoveMountpoint
  <2> QED BY <2>1, <2>2, <2>3, <2>4, <2>5, <2>6, <2>7, <2>8, <2>9 DEF Step
<1> QED BY <1>4, <1>5, <1>6

-----------------------------------------------------------------------------
(* A call that takes its turn finds its name idle, and untaken if it is to *)
(* make it.                                                                *)
TakesTurn(r, a) ==
  /\ a.vol # None => Idle(a.vol)
  /\ a.op \in Copies \cup {"create"} => a.vol \notin dir

LEMMA StartInTurn ==
  ASSUME TypeOK, Orderly, NEW r \in Req, Start(r)
  PROVE  \E a, label : StartsAt(r, a, label) /\ TakesTurn(r, a)
<1>1. PICK a, label : StartsAt(r, a, label)
  BY StartFacts
<1>2. a = arg'[r]
  BY <1>1 DEF StartsAt, Begin, TypeOK
<1>3. TakesTurn(r, arg'[r])
  <2> USE DEF TypeOK, Begin, Orderly, TakesTurn, Copies, NewName
  <2>1. CASE \E v \in Vol, z \in Size : StartCreate(r, v, z) \/ StartExpand(r, v, z)
    BY <2>1 DEF StartCreate, StartExpand
  <2>2. CASE \E o \in Copies, s \in Vol, v \in Vol : StartCopy(r, o, s, v)
    BY <2>2 DEF StartCopy
  <2>3. CASE \E v \in Vol : StartRemove(r, v)
    BY <2>3 DEF StartRemove
  <2>4. CASE StartList(r)
    BY <2>4 DEF StartList
  <2> QED BY <2>1, <2>2, <2>3, <2>4 DEF Start
<1> QED BY <1>1, <1>2, <1>3

LEMMA SerialStart ==
  ASSUME IInv, Serial, Orderly, NEW r \in Req, Start(r)
  PROVE  Serial'
<1>1. PICK a, label : StartsAt(r, a, label) /\ TakesTurn(r, a)
  BY StartInTurn DEF IInv
<1>2. /\ pc[r] = "idle" /\ arg[r] = NoArg
      /\ pc' = [pc EXCEPT ![r] = label] /\ arg' = [arg EXCEPT ![r] = a]
      /\ label \in {"mkdir", "load", "scan", "readdir"}
      /\ UNCHANGED <<dir, mp, data, meta, text, got, fd, todo, found>>
  BY <1>1 DEF StartsAt, Begin, IInv, ArgsOK, fs, local
<1>3. TypeOK /\ OnePerName /\ Whole /\ Tidy /\ Blamed /\ \A q \in Req : Placed(q)
  BY DEF IInv, Serial
<1>4. OnePerName'
  BY <1>1, <1>2, <1>3 DEF OnePerName, TakesTurn, Idle, Active, Ended, TypeOK
<1>5. Whole' /\ Tidy'
  BY <1>2, <1>3 DEF Whole, Tidy
<1>6. Blamed'
  <2>1. \A v \in Vol, q \in Req : Culprit(q, v) => Culprit(q, v)'
    BY <1>2, <1>3 DEF Culprit, Active, Ended, TypeOK
  <2>2. \A v \in Vol : Parsable(v)' <=> Parsable(v)
    BY <1>2 DEF Parsable
  <2> QED BY <1>2, <1>3, <2>1, <2>2 DEF Blamed, TypeOK
<1>7. ASSUME NEW q \in Req
      PROVE  Placed(q)'
  <2>1. CASE q # r
    <3>1. Placed(q) /\ pc'[q] = pc[q] /\ arg'[q] = arg[q]
      BY <1>2, <1>3, <2>1 DEF TypeOK
    <3> QED BY <1>2, <3>1 DEF Placed, Fresh, Making, Expanding, Removing, Parsable
  <2>2. CASE q = r
    <3>1. Placed(r) /\ pc'[r] = label /\ arg'[r] = a
      BY <1>2, <1>3 DEF TypeOK
    <3> QED BY <1>1, <1>2, <2>2, <3>1
            DEF Placed, Fresh, Making, Expanding, Removing, TakesTurn, StartsAt, Over
  <2> QED BY <2>1, <2>2
<1> QED BY <1>4, <1>5, <1>6, <1>7 DEF Serial

LEMMA SerialCrash ==
  ASSUME IInv, Serial, Crash
  PROVE  Serial'
<1>1. /\ UNCHANGED <<dir, mp, data, meta, text, got, fd, todo, found, arg>>
      /\ pc' = [r \in Req |-> IF Active(r) THEN "dead" ELSE pc[r]]
  BY DEF Crash, fs, local
<1>2. TypeOK /\ OnePerName /\ Whole /\ Tidy /\ Blamed /\ \A q \in Req : Placed(q)
  BY DEF IInv, Serial
<1>3. OnePerName' /\ Whole' /\ Tidy'
  BY <1>1, <1>2 DEF OnePerName, Whole, Tidy, Active, Ended
<1>4. Blamed'
  <2>1. \A v \in Vol, q \in Req : Culprit(q, v) => Culprit(q, v)'
    BY <1>1 DEF Culprit, Active, Ended
  <2>2. \A v \in Vol : Parsable(v)' <=> Parsable(v)
    BY <1>1 DEF Parsable
  <2> QED BY <1>1, <1>2, <2>1, <2>2 DEF Blamed, TypeOK
<1>5. ASSUME NEW q \in Req
      PROVE  Placed(q)'
  <2>1. CASE Active(q)
    BY <1>1, <1>2, <2>1 DEF Placed, Fresh, Making, Expanding, Removing, Over
  <2>2. CASE ~Active(q)
    BY <1>1, <1>2, <2>2 DEF Placed, Fresh, Making, Expanding, Removing, Over, Active, Ended
  <2> QED BY <2>1, <2>2
<1> QED BY <1>3, <1>4, <1>5 DEF Serial

LEMMA SerialPod ==
  ASSUME IInv, Serial, Orderly, NEW v \in Vol, NEW f \in File,
         PodWrite(v, f) \/ PodDelete(v, f)
  PROVE  Serial'
<1>1. /\ UNCHANGED <<dir, mp, meta, text, pc, arg, got, fd, todo, found>>
      /\ \A w \in Vol \ {v} : data'[w] = data[w]
      /\ Settled(v) /\ v \in mp
  BY DEF PodWrite, PodDelete, local, Orderly, IInv, TypeOK
<1>2. TypeOK /\ ArgsOK /\ OnePerName /\ Whole /\ Tidy /\ Blamed /\ \A q \in Req : Placed(q)
  BY DEF IInv, Serial
<1>3. OnePerName' /\ Whole' /\ Tidy'
  BY <1>1, <1>2 DEF OnePerName, Whole, Tidy, Active, Ended
<1>4. Blamed'
  BY <1>1, <1>2 DEF Blamed, Culprit, Parsable, Active
<1>5. ASSUME NEW q \in Req
      PROVE  Placed(q)'
  <2>1. pc[q] = "rmmp" => arg[q].vol \in Vol \ {v}
    BY <1>1, <1>2 DEF Settled, ArgsOK, Active, Changes, Running, Ended
  <2>2. pc[q] = "rmmp" => data'[arg[q].vol] = data[arg[q].vol]
    BY <1>1, <2>1
  <2> QED BY <1>1, <1>2, <2>2 DEF Placed, Fresh, Making, Expanding, Removing, Parsable
<1> QED BY <1>3, <1>4, <1>5 DEF Serial

LEMMA SerialStep == Orderly /\ IInv /\ Serial /\ [Next]_vars => Serial'
<1> SUFFICES ASSUME Orderly, IInv, Serial, [Next]_vars PROVE Serial'
  OBVIOUS
<1>1. IInv'
  BY StepIInv
<1>2. ASSUME NEW r \in Req, Start(r)
      PROVE  Serial'
  BY <1>2, SerialStart
<1>3. ASSUME NEW r \in Req, Step(r)
      PROVE  Serial'
  <2>1. Mine(r)
    BY <1>3, StepIsMine DEF IInv
  <2>2. \A q \in Req : Placed(q)'
    BY <1>1, <1>3, <2>1, OthersPlaced, OwnPlaced
  <2>3. OnePerName' /\ Whole' /\ Tidy'
    BY <1>1, <1>3, NamesKept
  <2>4. Blamed'
    BY <1>1, <1>3, <2>3, BlameKept
  <2> QED BY <2>2, <2>3, <2>4 DEF Serial
<1>4. ~ \E r \in Req : IOError(r)
  BY DEF Orderly, IOError, IOErrorReported, VolGroupUnreadable, IOErrorDropped, FaultAllowed
<1>5. CASE Crash
  BY <1>5, SerialCrash
<1>6. ASSUME NEW v \in Vol, NEW f \in File, PodWrite(v, f) \/ PodDelete(v, f)
      PROVE  Serial'
  BY <1>6, SerialPod
<1>7. CASE UNCHANGED vars
  BY <1>7 DEF vars, Serial, OnePerName, Whole, Tidy, Blamed, Culprit, Parsable, Placed,
              Fresh, Making, Expanding, Removing, Active
<1> QED BY <1>2, <1>3, <1>4, <1>5, <1>6, <1>7 DEF Next

(* The discipline of the calls is kept: one handler to a name, each where  *)
(* it should be.                                                           *)
THEOREM SerialInvariance ==
  ASSUME Orderly
  PROVE  Spec => [](IInv /\ Serial)
<1>1. Init => IInv /\ Serial
  BY InitIInv, InitSerial
<1>2. IInv /\ Serial /\ [Next]_vars => (IInv /\ Serial)'
  BY Orderly, StepIInv, SerialStep
<1> QED BY <1>1, <1>2, PTL DEF Spec

(* A directory whose metadata cannot be read, which fails every ListVol of *)
(* the group, is one that a handler of that name is at work on, or left    *)
(* when the agent died; and its meta.json is missing or empty.             *)
THEOREM DebrisHasCulprit ==
  ASSUME Orderly
  PROVE  Spec => []DebrisIsBlamed
<1>1. IInv /\ Serial => DebrisIsBlamed
  <2> SUFFICES ASSUME IInv, Serial, NEW v \in dir, ~Parsable(v)
               PROVE  /\ meta[v] = None \/ text[meta[v]].len = 0
                      /\ \E r \in Req : arg[r].vol = v /\ (Active(r) \/ pc[r] = "dead")
    BY DEF DebrisIsBlamed
  <2>1. v \in Vol
    BY DEF IInv, TypeOK
  <2>2. meta[v] = None \/ text[meta[v]].len = 0
    BY <2>1 DEF IInv, TypeOK, Serial, Whole, Parsable
  <2> QED BY <2>1, <2>2 DEF Serial, Blamed, Culprit
<1>2. Spec => [](IInv /\ Serial)
  BY SerialInvariance
<1> QED BY <1>1, <1>2, PTL

-----------------------------------------------------------------------------
(* What an observer remembers.                                             *)

(* A volume's size is the one its expansion has read, or its metadata's.   *)
SizeIs(v) ==
  /\ \A r \in Req : MidExpand(r, v) => RegSize(v) = got[r] /\ got[r] \in Size
  /\ (\A r \in Req : ~MidExpand(r, v))
       => RegSize(v) = IF Parsable(v) THEN text[meta[v]].obj.size ELSE None
  /\ Parsable(v) => RegSize(v) = text[meta[v]].obj.size
  /\ RegSize(v) \in Size \cup {None}
  /\ RegSize(v) # None => v \in dir

LEMMA RegSizeIs == IInv /\ Serial => \A v \in Vol : SizeIs(v)
<1> SUFFICES ASSUME IInv, Serial, NEW v \in Vol PROVE SizeIs(v)
  OBVIOUS
<1>1. TypeOK /\ OnePerName /\ Whole /\ Tidy /\ \A r \in Req : Placed(r)
  BY DEF IInv, Serial
<1>2. CASE \A r \in Req : ~MidExpand(r, v)
  <2>1. RegSize(v) = IF Parsable(v) THEN text[meta[v]].obj.size ELSE None
    BY <1>2 DEF RegSize
  <2>2. Parsable(v) => text[meta[v]].obj.size \in Size /\ v \in dir
    BY <1>1 DEF Parsable, TypeOK, Text, Obj, Tidy
  <2> QED BY <1>2, <2>1, <2>2 DEF SizeIs
<1>3. ASSUME NEW r \in Req, MidExpand(r, v)
      PROVE  SizeIs(v)
  <2>1. \A q \in Req : MidExpand(q, v) => q = r
    BY <1>1, <1>3, InodeFacts DEF MidExpand, OnePerName, Active, Ended
  <2>2. (CHOOSE q \in Req : MidExpand(q, v)) = r
    BY <1>3, <2>1
  <2>3. RegSize(v) = got[r]
    BY <1>3, <2>2 DEF RegSize
  <2>4. got[r] \in Size /\ v \in dir
    BY <1>1, <1>3 DEF Placed, Expanding, MidExpand
  <2>5. meta[v] = None \/ (meta[v] = r /\ text[r].len = 0)
    BY <1>1, <1>3 DEF Placed, Expanding, Fresh, MidExpand, Over
  <2>6. ~Parsable(v)
    BY <1>1, <2>5 DEF Parsable, Whole, Inode
  <2> QED BY <1>3, <2>1, <2>3, <2>4, <2>6 DEF SizeIs
<1> QED BY <1>2, <1>3

(* Once a call is made, what it is remembered by only shrinks, to what it  *)
(* could see.                                                              *)
LEMMA KeptShrinks ==
  ASSUME Observe, NEW r \in Req, pc[r] # "idle"
  PROVE  /\ kept'[r] \subseteq kept[r]
         /\ Active(r) => kept'[r] \subseteq Seen(r)'
         /\ WalkStops(r) => kept'[r] = {}
<1>1. kept'[r] = IF WalkStops(r) THEN {}
                 ELSE IF Active(r) THEN kept[r] \cap Seen(r)' ELSE kept[r]
  BY DEF Observe
<1> QED BY <1>1, Zenon

LEMMA OthersRemembered ==
  ASSUME IInv, Serial, Remembered, Observe,
         NEW r \in Req, Mine(r), NEW q \in Req \ {r}
  PROVE  (ListKeeps(q) /\ CopyKeeps(q))'
<1>1. /\ pc'[q] = pc[q] /\ arg'[q] = arg[q] /\ arg[q]' = arg[q]
      /\ todo'[q] = todo[q] /\ found'[q] = found[q]
  BY DEF Mine
<1>2. ListKeeps(q) /\ CopyKeeps(q)
  BY DEF Remembered
<1>3. CASE pc[q] = "idle"
  BY <1>1, <1>3 DEF ListKeeps, CopyKeeps
<1>4. CASE pc[q] # "idle"
  <2>1. kept'[q] \subseteq kept[q]
    BY <1>4, KeptShrinks
  <2>2. ListKeeps(q)'
    BY <1>1, <1>2, <2>1 DEF ListKeeps
  <2>3. CASE pc[q] \in {"copy", "open", "write"}
    <3>1. arg[q].vol \in Vol \ {arg[r].vol}
      BY <2>3, InodeFacts DEF IInv, ArgsOK, Serial, OnePerName, Mine, Active, Changes, Running, Ended
    <3>2. data'[arg[q].vol] = data[arg[q].vol]
      BY <3>1 DEF Mine
    <3> QED BY <1>1, <1>2, <2>1, <2>2, <3>2 DEF CopyKeeps
  <2>4. CASE pc[q] \notin {"copy", "open", "write"}
    BY <1>1, <2>2, <2>4 DEF CopyKeeps
  <2> QED BY <2>3, <2>4
<1> QED BY <1>3, <1>4

LEMMA OwnRemembered ==
  ASSUME IInv, IInv', Serial, Serial', Remembered, Observe, NEW r \in Req, Step(r)
  PROVE  (ListKeeps(r) /\ CopyKeeps(r))'
<1>1. TypeOK /\ ArgsOK /\ Placed(r) /\ Tidy /\ ListKeeps(r) /\ CopyKeeps(r)
  BY DEF IInv, Serial, Remembered
<1>2. Active(r) /\ arg'[r] = arg[r] /\ arg[r]' = arg[r]
  BY <1>1, StepIsMine DEF Mine
<1>3. /\ kept'[r] \subseteq kept[r] /\ kept'[r] \subseteq Seen(r)'
      /\ WalkStops(r) => kept'[r] = {}
  BY <1>2, KeptShrinks DEF Active, Ended
<1> USE <1>1, <1>2 DEF TypeOK, ArgsOK, Goto, fs, local, Changes, Running
<1>4. CASE arg[r].op = "list"
  <2> USE <1>3, <1>4 DEF ListKeeps, CopyKeeps, Copies
  <2>1. pc[r] \in {"readdir", "getmeta"}
    BY DEF Active, Ended, Copies
  <2>2. CASE ReadVolGroup(r)
    <3>1. \A v \in Vol : RegSize(v)' # None => v \in dir'
      <4>1. IInv' /\ Serial' => (\A v \in Vol : SizeIs(v))'
        BY RegSizeIs, PTL
      <4> QED BY <4>1 DEF SizeIs
    <3>2. Seen(r)' = {v \in Vol : RegSize(v)' # None}
      BY DEF Seen
    <3> QED BY <2>2, <3>1, <3>2 DEF ReadVolGroup
  <2>3. ASSUME NEW v \in Vol, GetVolMeta(r, v)
        PROVE  (ListKeeps(r) /\ CopyKeeps(r))'
    <3>1. CASE Parsable(v)
      <4>1. text[meta[v]].obj.vol = v
        BY <3>1, InodeFacts DEF IInv, OneHome, Parsable
      <4> QED BY <2>3, <3>1, <4>1 DEF GetVolMeta
    <3>2. CASE ~Parsable(v)
      BY <2>3, <3>2 DEF GetVolMeta
    <3> QED BY <3>1, <3>2
  <2>4. CASE ListDone(r)
    BY <2>4 DEF ListDone
  <2> QED BY <2>1, <2>2, <2>3, <2>4 DEF Step, LoadMeta, MakeVolDir, MakeMountpoint,
          ReadSourceNames, CopyFile, SourceFileVanished, CopyDone, UnlinkMeta, OpenMeta,
          WriteMeta, ScanVolDir, RemoveMeta, RemoveFiles, RemoveMountpoint, RemoveVolDir
<1>5. CASE arg[r].op \in Copies
  <2> USE <1>5 DEF ListKeeps, CopyKeeps
  <2>1. kept'[r] \subseteq data'[arg[r].src] /\ arg[r].src \in Vol /\ arg[r].op # "list"
    BY <1>3 DEF Seen, Copies
  <2>2. CASE ReadSourceNames(r)
    BY <2>1, <2>2 DEF ReadSourceNames, Tidy
  <2>3. ASSUME NEW f \in File, CopyFile(r, f)
        PROVE  (ListKeeps(r) /\ CopyKeeps(r))'
    <3>1. arg[r].vol \in mp
      BY <2>3 DEF CopyFile, Placed, Making
    <3> QED BY <1>3, <2>1, <2>3, <3>1 DEF CopyFile
  <2>4. ASSUME NEW f \in File, SourceFileVanished(r, f)
        PROVE  (ListKeeps(r) /\ CopyKeeps(r))'
    <3>1. f \notin kept'[r] /\ data' = data /\ pc'[r] = "copy" /\ pc[r] = "copy"
      BY <2>1, <2>4 DEF SourceFileVanished
    <3>2. CASE todo'[r] = todo[r] \ {f}
      BY <1>3, <2>1, <3>1, <3>2
    <3>3. CASE todo'[r] = {} /\ todo[r] # {f}
      <4>1. WalkStops(r)
        BY <2>4, <3>1, <3>3 DEF SourceFileVanished, WalkStops
      <4> QED BY <1>3, <2>1, <3>1, <4>1
    <3>4. todo'[r] = todo[r] \ {f} \/ todo'[r] = {}
      BY <2>4 DEF SourceFileVanished
    <3> QED BY <3>2, <3>3, <3>4
  <2>5. CASE CopyDone(r)
    BY <1>3, <2>1, <2>5 DEF CopyDone
  <2>6. CASE OpenMeta(r)
    BY <1>3, <2>1, <2>6 DEF OpenMeta
  <2>7. CASE LoadMeta(r) \/ MakeVolDir(r) \/ MakeMountpoint(r) \/ WriteMeta(r)
    <3>1. pc'[r] \in {"mkdir", "mkmp", "walk", "ok", "err"}
      <4>1. CASE LoadMeta(r)
        BY <4>1 DEF LoadMeta, Copies
      <4>2. CASE MakeVolDir(r)
        BY <4>2 DEF MakeVolDir
      <4>3. CASE MakeMountpoint(r)
        BY <4>3 DEF MakeMountpoint, Copies
      <4>4. CASE WriteMeta(r)
        BY <4>4 DEF WriteMeta
      <4> QED BY <2>7, <4>1, <4>2, <4>3, <4>4
    <3> QED BY <2>1, <3>1
  <2> QED BY <2>1, <2>2, <2>3, <2>4, <2>5, <2>6, <2>7 DEF Step, UnlinkMeta, ScanVolDir,
          RemoveMeta, RemoveFiles, RemoveMountpoint, RemoveVolDir, ReadVolGroup, GetVolMeta,
          ListDone, Copies
<1>6. CASE arg[r].op \notin Copies \cup {"list"}
  BY <1>6 DEF ListKeeps, CopyKeeps
<1> QED BY <1>4, <1>5, <1>6

LEMMA RememberedStep ==
  ASSUME Orderly, IInv, IInv', Serial, Serial', Remembered, Next, Observe
  PROVE  Remembered'
<1> SUFFICES ASSUME NEW q \in Req PROVE (ListKeeps(q) /\ CopyKeeps(q))'
  BY DEF Remembered
<1>1. TypeOK /\ ArgsOK /\ ListKeeps(q) /\ CopyKeeps(q)
  BY DEF IInv, Remembered
<1>2. pc[q] # "idle" => kept'[q] \subseteq kept[q]
  BY KeptShrinks
<1>3. ASSUME NEW r \in Req, Start(r)
      PROVE  (ListKeeps(q) /\ CopyKeeps(q))'
  <2>1. PICK a, label : StartsAt(r, a, label)
    BY <1>3, StartFacts
  <2>2. /\ pc[r] = "idle" /\ arg' = [arg EXCEPT ![r] = a]
        /\ pc' = [pc EXCEPT ![r] = label]
        /\ label \in {"mkdir", "load", "scan", "readdir"}
        /\ UNCHANGED <<todo, found, data>>
    BY <2>1 DEF StartsAt, Begin, fs, local
  <2>3. CASE q = r
    BY <1>1, <2>2, <2>3 DEF TypeOK, ListKeeps, CopyKeeps
  <2>4. CASE q # r
    BY <1>1, <1>2, <2>2, <2>4 DEF TypeOK, ListKeeps, CopyKeeps
  <2> QED BY <2>3, <2>4
<1>4. ASSUME NEW r \in Req, Step(r)
      PROVE  (ListKeeps(q) /\ CopyKeeps(q))'
  <2>1. Mine(r)
    BY <1>1, <1>4, StepIsMine
  <2> QED BY <1>4, <2>1, OthersRemembered, OwnRemembered
<1>5. ~ \E r \in Req : IOError(r)
  BY DEF Orderly, IOError, IOErrorReported, VolGroupUnreadable, IOErrorDropped, FaultAllowed
<1>6. CASE Crash
  <2>1. /\ UNCHANGED <<arg, todo, found, data>>
        /\ pc'[q] = IF Active(q) THEN "dead" ELSE pc[q]
    BY <1>6 DEF Crash, fs, local
  <2> QED BY <1>1, <1>2, <2>1 DEF ListKeeps, CopyKeeps, Active, Ended
<1>7. ASSUME NEW v \in Vol, NEW f \in File, PodWrite(v, f) \/ PodDelete(v, f)
      PROVE  (ListKeeps(q) /\ CopyKeeps(q))'
  <2>1. UNCHANGED <<pc, arg, todo, found>>
    BY <1>7 DEF PodWrite, PodDelete, local
  <2>2. pc[q] \in {"copy", "open", "write"} /\ arg[q].op \in Copies
          => arg[q].vol \in Vol /\ data[arg[q].vol] \subseteq data'[arg[q].vol]
    <3>1. CASE PodWrite(v, f)
      BY <1>1, <3>1 DEF PodWrite, TypeOK, ArgsOK, Changes, Running
    <3>2. CASE PodDelete(v, f)
      BY <1>1, <3>2 DEF PodDelete, TypeOK, ArgsOK, Changes, Running, Settled, Orderly,
                        Active, Ended, Copies
    <3> QED BY <1>7, <3>1, <3>2
  <2> QED BY <1>1, <1>2, <2>1, <2>2 DEF ListKeeps, CopyKeeps
<1> QED BY <1>3, <1>4, <1>5, <1>6, <1>7 DEF Next

LEMMA HInvStep == Orderly /\ HInv /\ [HNext]_hvars => HInv'
<1> SUFFICES ASSUME Orderly, HInv, [HNext]_hvars PROVE HInv'
  OBVIOUS
<1>1. [Next]_vars
  BY DEF HNext, hvars, vars
<1>2. IInv' /\ Serial'
  BY <1>1, StepIInv, SerialStep DEF HInv
<1>3. CASE HNext
  BY <1>2, <1>3, RememberedStep DEF HInv, HNext
<1>4. CASE UNCHANGED hvars
  BY <1>2, <1>4 DEF HInv, hvars, Remembered, ListKeeps, CopyKeeps
<1> QED BY <1>3, <1>4

LEMMA HInvInit == HInit => HInv
<1> SUFFICES ASSUME HInit PROVE HInv
  OBVIOUS
<1>1. IInv /\ Serial
  BY InitIInv, InitSerial DEF HInit
<1>2. Remembered
  BY DEF HInit, Init, Remembered, ListKeeps, CopyKeeps
<1> QED BY <1>1, <1>2 DEF HInv

(* What an observer has seen of a call fits what the call is holding.      *)
THEOREM HistoryInvariance ==
  ASSUME Orderly
  PROVE  HSpec => []HInv
<1>1. HInv /\ [HNext]_hvars => HInv'
  BY Orderly, HInvStep
<1> QED BY <1>1, HInvInit, PTL DEF HSpec

(* ListVol that succeeds shows every volume that existed, or was being     *)
(* expanded, from the call to its answer, however it overlaps other calls. *)
THEOREM ListingsAreWhole ==
  ASSUME Orderly
  PROVE  HSpec => []ListNeverOmits
<1>1. HInv => ListNeverOmits
  BY DEF HInv, Remembered, ListKeeps, ListNeverOmits
<1>2. HSpec => []HInv
  BY HistoryInvariance
<1> QED BY <1>1, <1>2, PTL

(* CloneVol or CreateSnapshot that succeeds has copied every file that was *)
(* in the source all along, unless its walk met one that was gone.         *)
THEOREM CopiesAreWhole ==
  ASSUME Orderly
  PROVE  HSpec => CopyIsComplete
<1>1. HInv /\ [HNext]_hvars =>
        [\A r \in Req : arg[r].op \in Copies /\ pc[r] = "write" /\ pc'[r] = "ok"
                          => kept[r] \subseteq data'[arg[r].vol]]_hvars
  <2> SUFFICES ASSUME HInv, Next, NEW q \in Req,
                      arg[q].op \in Copies, pc[q] = "write", pc'[q] = "ok"
               PROVE  kept[q] \subseteq data'[arg[q].vol]
    BY DEF HNext
  <2>1. TypeOK /\ ArgsOK /\ kept[q] \subseteq data[arg[q].vol]
    BY DEF HInv, IInv, Remembered, CopyKeeps
  <2>2. ASSUME NEW r \in Req, Start(r)
        PROVE  FALSE
    <3>1. PICK a, label : StartsAt(r, a, label)
      BY <2>2, StartFacts
    <3> QED BY <2>1, <3>1 DEF StartsAt, Begin, TypeOK
  <2>3. ASSUME NEW r \in Req, Step(r)
        PROVE  kept[q] \subseteq data'[arg[q].vol]
    <3>1. q = r
      BY <2>1, <2>3, StepIsMine DEF Mine
    <3>2. WriteMeta(r)
      BY <2>3, <3>1 DEF Step, LoadMeta, MakeVolDir, MakeMountpoint, ReadSourceNames, CopyFile,
         SourceFileVanished, CopyDone, UnlinkMeta, OpenMeta, ScanVolDir, RemoveMeta,
         RemoveFiles, RemoveMountpoint, RemoveVolDir, ReadVolGroup, GetVolMeta, ListDone
    <3> QED BY <2>1, <3>1, <3>2 DEF WriteMeta
  <2>4. ~ \E r \in Req : IOError(r)
    BY Orderly
       DEF Orderly, IOError, IOErrorReported, VolGroupUnreadable, IOErrorDropped, FaultAllowed
  <2>5. ~Crash
    BY DEF Crash, Active, Ended
  <2>6. ASSUME NEW v \in Vol, NEW f \in File, PodWrite(v, f) \/ PodDelete(v, f)
        PROVE  FALSE
    BY <2>6 DEF PodWrite, PodDelete
  <2> QED BY <2>2, <2>3, <2>4, <2>5, <2>6 DEF Next
<1>2. HSpec => []HInv
  BY HistoryInvariance
<1> QED BY <1>1, <1>2, PTL DEF HSpec, CopyIsComplete

-----------------------------------------------------------------------------
(* The register of volumes that the steps of the handlers amount to.       *)

(* A handler's step does not touch the size of another name.               *)
LEMMA OthersSized ==
  ASSUME IInv, Serial, \A v \in Vol : SizeIs(v), (\A v \in Vol : SizeIs(v))',
         NEW r \in Req, Mine(r), NEW v \in Vol, arg[r].vol # v
  PROVE  RegSize(v)' = RegSize(v)
<1>1. \A q \in Req : MidExpand(q, v)' <=> MidExpand(q, v)
  BY DEF Mine, MidExpand
<1>2. \A q \in Req : MidExpand(q, v) => got'[q] = got[q]
  BY DEF Mine, MidExpand
<1>3. meta'[v] = meta[v] /\ (meta[v] # None => text'[meta[v]] = text[meta[v]])
  <2>1. meta[v] # None => meta[v] \in Inode \ {fd[r]}
    BY InodeFacts DEF IInv, TypeOK, OneHome
  <2> QED BY <2>1 DEF Mine
<1>4. Parsable(v)' <=> Parsable(v)
  BY <1>3, Zenon DEF Parsable
<1>5. SizeIs(v) /\ SizeIs(v)'
  OBVIOUS
<1>6. CASE \E q \in Req : MidExpand(q, v)
  BY <1>1, <1>2, <1>5, <1>6 DEF SizeIs
<1>7. CASE \A q \in Req : ~MidExpand(q, v)
  BY <1>1, <1>3, <1>4, <1>5, <1>7 DEF SizeIs, Parsable
<1> QED BY <1>6, <1>7

(* Nobody else is expanding the name that a handler is at work on.         *)
LEMMA NoOtherExpands ==
  ASSUME IInv, Serial, NEW r \in Req, Active(r), arg[r].vol \in Vol,
         NEW q \in Req, MidExpand(q, arg[r].vol)
  PROVE  q = r
  BY InodeFacts DEF MidExpand, Serial, OnePerName, Active, Ended

(* What the handler's own step makes of the size of its name.              *)
SameSizes == \A v \in Vol : RegSize(v)' = RegSize(v)
SizeSet(w, z) ==
  /\ w \in Vol /\ RegSize(w)' = z
  /\ \A v \in Vol \ {w} : RegSize(v)' = RegSize(v)

LEMMA OwnSized ==
  ASSUME IInv, IInv', Serial, Serial',
         \A v \in Vol : SizeIs(v), (\A v \in Vol : SizeIs(v))',
         NEW r \in Req, Step(r)
  PROVE  IF WriteMeta(r)
         THEN /\ SizeSet(arg[r].vol, NewMeta(r).size)
              /\ RegSize(arg[r].vol) = None <=> arg[r].op # "expand"
         ELSE IF RemoveMeta(r) THEN SizeSet(arg[r].vol, None)
         ELSE /\ SameSizes
              /\ RemoveVolDir(r) => RegSize(arg[r].vol) = None
<1>1. TypeOK /\ ArgsOK /\ Placed(r) /\ Whole /\ TypeOK'
  BY DEF IInv, Serial
<1>2. Mine(r)
  BY <1>1, StepIsMine
<1>3. \A v \in Vol : arg[r].vol # v => RegSize(v)' = RegSize(v)
  BY <1>2, OthersSized
<1> PICK w : w = arg[r].vol
  OBVIOUS
<1>4. /\ Active(r) /\ arg' = arg
      /\ \A q \in Req : MidExpand(q, w) /\ w \in Vol => q = r
      /\ \A q \in Req : MidExpand(q, w)' /\ w \in Vol => q = r
  <2>1. \A q \in Req : MidExpand(q, w) /\ w \in Vol => q = r
    BY <1>2, NoOtherExpands DEF Mine
  <2>2. \A q \in Req : MidExpand(q, w)' /\ w \in Vol => q = r
    BY <1>2, <2>1 DEF MidExpand, Mine
  <2> QED BY <1>2, <2>1, <2>2 DEF Mine
<1>5. w \in Vol => SizeIs(w) /\ SizeIs(w)'
  OBVIOUS
<1> USE <1>1, <1>4 DEF TypeOK, ArgsOK, Goto, fs, local, Changes, Running
<1>6. ASSUME w \in Vol, ~MidExpand(r, w), ~MidExpand(r, w)', meta'[w] = meta[w], text' = text
      PROVE  RegSize(w)' = RegSize(w)
  <2>1. \A q \in Req : ~MidExpand(q, w) /\ ~MidExpand(q, w)'
    BY <1>6
  <2>2. Parsable(w)' <=> Parsable(w)
    BY <1>6 DEF Parsable
  <2> QED BY <1>5, <1>6, <2>1, <2>2 DEF SizeIs
<1>7. CASE WriteMeta(r)
  <2>1. /\ pc[r] = "write" /\ pc'[r] = "ok" /\ w \in Vol /\ meta' = meta
        /\ meta[w] = r /\ fd[r] = r /\ text[r].len = 0 /\ text[r].obj = None
    BY <1>7 DEF WriteMeta, Placed, Fresh, Making, Expanding, Copies, Over, Whole, Inode
  <2>2. NewMeta(r) # None /\ TextLen[NewMeta(r).size] >= 0
    BY <2>1, VolumeServerAssumption DEF NewMeta, Obj, Copies
  <2>3. text'[r].obj = NewMeta(r)
    BY <1>7, <2>1, <2>2, InodeFacts DEF WriteMeta, Overwrite, TextOf
  <2>4. Parsable(w)' /\ RegSize(w)' = NewMeta(r).size
    <3>1. meta'[w] = r /\ r # None
      BY <2>1, InodeFacts
    <3>2. Parsable(w)'
      BY <2>2, <2>3, <3>1 DEF Parsable
    <3> QED BY <1>5, <2>1, <2>3, <3>1, <3>2 DEF SizeIs
  <2>5. RegSize(w) = None <=> arg[r].op # "expand"
    <3>1. CASE arg[r].op = "expand"
      BY <1>5, <2>1, <3>1, InodeFacts DEF SizeIs, MidExpand
    <3>2. CASE arg[r].op # "expand"
      <4>1. \A q \in Req : ~MidExpand(q, w)
        BY <2>1, <3>2 DEF MidExpand
      <4>2. ~Parsable(w)
        BY <2>1 DEF Parsable
      <4> QED BY <1>5, <2>1, <3>2, <4>1, <4>2 DEF SizeIs
    <3> QED BY <3>1, <3>2
  <2> QED BY <1>3, <1>7, <2>1, <2>4, <2>5 DEF SizeSet
<1>8. CASE RemoveMeta(r)
  <2>1. pc[r] = "rm" /\ pc'[r] = "rm" /\ w \in Vol /\ meta'[w] = None
    BY <1>8 DEF RemoveMeta
  <2>2. (\A q \in Req : ~MidExpand(q, w)') /\ ~Parsable(w)'
    BY <2>1 DEF MidExpand, Parsable
  <2>3. RegSize(w)' = None
    BY <1>5, <2>1, <2>2 DEF SizeIs
  <2>4. ~WriteMeta(r)
    BY <2>1 DEF WriteMeta
  <2> QED BY <1>3, <1>8, <2>1, <2>3, <2>4 DEF SizeSet
<1>9. CASE ~WriteMeta(r) /\ ~RemoveMeta(r)
  <2> SUFFICES ASSUME w \in Vol
               PROVE  /\ RegSize(w)' = RegSize(w)
                      /\ RemoveVolDir(r) => RegSize(w) = None
    BY <1>3, <1>9 DEF SameSizes, RemoveVolDir
  <2>1. CASE \/ LoadMeta(r) \/ MakeVolDir(r) \/ MakeMountpoint(r) \/ ReadSourceNames(r)
             \/ CopyDone(r)
    <3>1. UNCHANGED <<meta, text>> /\ pc[r] \in {"load", "mkdir", "mkmp", "walk", "copy"}
      BY <2>1 DEF LoadMeta, MakeVolDir, MakeMountpoint, ReadSourceNames, CopyDone
    <3>2. ~MidExpand(r, w) /\ ~MidExpand(r, w)'
      BY <2>1, <3>1 DEF LoadMeta, MakeVolDir, MakeMountpoint, ReadSourceNames, CopyDone,
                        MidExpand, Copies
    <3>3. ~RemoveVolDir(r)
      BY <3>1 DEF RemoveVolDir
    <3> QED BY <1>6, <3>1, <3>2, <3>3
  <2>2. CASE \E f \in File : CopyFile(r, f) \/ SourceFileVanished(r, f)
    <3>1. UNCHANGED <<meta, text>> /\ pc[r] = "copy" /\ pc'[r] = "copy"
      BY <2>2 DEF CopyFile, SourceFileVanished
    <3> QED BY <1>6, <3>1 DEF MidExpand, RemoveVolDir
  <2>3. CASE UnlinkMeta(r)
    <3>1. /\ pc[r] = "unlink" /\ pc'[r] = "open" /\ arg[r].op = "expand" /\ got' = got
          /\ Parsable(w) /\ got[r] = text[meta[w]].obj.size
      BY <2>3 DEF UnlinkMeta, Placed, Expanding
    <3>2. RegSize(w) = got[r]
      BY <1>5, <3>1 DEF SizeIs
    <3>3. RegSize(w)' = got'[r]
      BY <1>5, <3>1 DEF SizeIs, MidExpand
    <3> QED BY <3>1, <3>2, <3>3 DEF RemoveVolDir
  <2>4. CASE OpenMeta(r)
    <3>1. /\ pc[r] = "open" /\ pc'[r] = "write" /\ got' = got /\ text' = text
          /\ meta[w] = None /\ meta'[w] = r
          /\ arg[r].op \in Copies \cup {"create", "expand"}
      BY <2>4 DEF OpenMeta, Placed, Making, Expanding
    <3>2. CASE arg[r].op = "expand"
      <4>1. MidExpand(r, w) /\ MidExpand(r, w)'
        BY <3>1, <3>2 DEF MidExpand
      <4> QED BY <1>5, <3>1, <4>1 DEF SizeIs, RemoveVolDir
    <3>3. CASE arg[r].op # "expand"
      <4>1. \A q \in Req : ~MidExpand(q, w) /\ ~MidExpand(q, w)'
        BY <3>3 DEF MidExpand
      <4>2. ~Parsable(w)
        BY <3>1 DEF Parsable
      <4>3. ~Parsable(w)'
        <5>1. text[r].obj = None
          BY <3>1 DEF Placed, Fresh, Over, Whole, Inode
        <5> QED BY <3>1, <5>1 DEF Parsable
      <4> QED BY <1>5, <3>1, <4>1, <4>2, <4>3 DEF SizeIs, RemoveVolDir
    <3> QED BY <3>2, <3>3
  <2>5. CASE ScanVolDir(r) \/ RemoveFiles(r) \/ RemoveMountpoint(r)
    <3>1. /\ UNCHANGED <<meta, text>> /\ arg[r].op = "remove"
      BY <2>5 DEF ScanVolDir, RemoveFiles, RemoveMountpoint
    <3>2. ~RemoveVolDir(r)
      <4>1. CASE ScanVolDir(r) \/ RemoveMountpoint(r)
        BY <4>1 DEF ScanVolDir, RemoveMountpoint, RemoveVolDir
      <4>2. CASE RemoveFiles(r)
        BY <4>2 DEF RemoveFiles, RemoveVolDir
      <4> QED BY <2>5, <4>1, <4>2
    <3> QED BY <1>6, <3>1, <3>2 DEF MidExpand
  <2>6. CASE RemoveVolDir(r)
    <3>1. UNCHANGED <<meta, text>> /\ arg[r].op = "remove" /\ meta[w] = None
      BY <2>6 DEF RemoveVolDir, Placed, Removing
    <3>2. (\A q \in Req : ~MidExpand(q, w)) /\ ~Parsable(w) /\ ~MidExpand(r, w)'
      BY <3>1 DEF MidExpand, Parsable
    <3>3. RegSize(w) = None
      BY <1>5, <3>2 DEF SizeIs
    <3> QED BY <1>6, <3>1, <3>2, <3>3
  <2>7. CASE ReadVolGroup(r) \/ ListDone(r) \/ \E v \in Vol : GetVolMeta(r, v)
    <3>1. pc[r] \in {"readdir", "getmeta"}
      BY <2>7 DEF ReadVolGroup, ListDone, GetVolMeta
    <3> QED BY <3>1, InodeFacts
  <2> QED BY <1>9, <2>1, <2>2, <2>3, <2>4, <2>5, <2>6, <2>7 DEF Step
<1> QED BY <1>7, <1>8, <1>9

(* Nothing that sizes are read from has changed.                           *)
LEMMA Untouched ==
  ASSUME \A v \in Vol : SizeIs(v), (\A v \in Vol : SizeIs(v))', UNCHANGED <<meta, text, got>>,
         \A q \in Req, v \in Vol : MidExpand(q, v)' <=> MidExpand(q, v)
  PROVE  SameSizes
<1> SUFFICES ASSUME NEW v \in Vol PROVE RegSize(v)' = RegSize(v)
  BY DEF SameSizes
<1>1. SizeIs(v) /\ SizeIs(v)' /\ \A q \in Req : MidExpand(q, v)' <=> MidExpand(q, v)
  OBVIOUS
<1>2. Parsable(v)' <=> Parsable(v)
  BY DEF Parsable
<1>3. CASE \E q \in Req : MidExpand(q, v)
  BY <1>1, <1>3 DEF SizeIs
<1>4. CASE \A q \in Req : ~MidExpand(q, v)
  BY <1>1, <1>2, <1>4 DEF SizeIs
<1> QED BY <1>3, <1>4

(* How the calls of the register stand, read off the server's state.       *)
Standing(r) == IF Active(r) THEN "open" ELSE pc[r]

LEMMA RegisterInit ==
  ASSUME Init, \A v \in Vol : SizeIs(v)
  PROVE  Registry!RegInit
<1>1. [v \in Vol |-> RegSize(v)] \in [Vol -> Size \cup {None}]
  BY DEF SizeIs
<1>2. \A r \in Req : pc[r] = "idle"
  BY DEF Init
<1>3. [r \in Req |-> IF Active(r) THEN "open" ELSE pc[r]] = [r \in Req |-> "idle"]
  BY <1>2 DEF Active, Ended
<1> QED BY <1>1, <1>3 DEF Registry!RegInit, Init, NoArg

(* The other calls stand as they stood.                                    *)
LEMMA OthersStand ==
  ASSUME NEW r \in Req, Mine(r), NEW q \in Req \ {r}
  PROVE  Standing(q)' = Standing(q)
  BY DEF Mine, Standing, Active

LEMMA StartRefines ==
  ASSUME IInv, IInv', \A v \in Vol : SizeIs(v), (\A v \in Vol : SizeIs(v))',
         NEW r \in Req, Start(r)
  PROVE  Registry!Invoke(r)
<1>1. PICK a, label : StartsAt(r, a, label)
  BY StartFacts
<1>2. /\ pc[r] = "idle" /\ pc' = [pc EXCEPT ![r] = label] /\ arg' = [arg EXCEPT ![r] = a]
      /\ label \in {"mkdir", "load", "scan", "readdir"}
      /\ UNCHANGED <<dir, meta, text, got>>
  BY <1>1 DEF StartsAt, Begin, fs, local
<1>3. a \in Registry!Calls
  <2>1. a = arg'[r]
    BY <1>2 DEF IInv, TypeOK
  <2> USE <2>1 DEF IInv, TypeOK, Begin, Registry!Calls
  <2>2. CASE \E v \in Vol, z \in Size : StartCreate(r, v, z)
    BY <2>2 DEF StartCreate
  <2>3. CASE \E v \in Vol, z \in Size : StartExpand(r, v, z)
    BY <2>3 DEF StartExpand
  <2>4. CASE \E o \in Copies, s \in Vol, v \in Vol : StartCopy(r, o, s, v)
    BY <2>4 DEF StartCopy, Copies
  <2>5. CASE \E v \in Vol : StartRemove(r, v)
    BY <2>5 DEF StartRemove
  <2>6. CASE StartList(r)
    BY <2>6 DEF StartList
  <2> QED BY <2>2, <2>3, <2>4, <2>5, <2>6 DEF Start
<1>4. \A v \in Vol : RegSize(v)' = RegSize(v)
  <2>1. \A q \in Req, v \in Vol : MidExpand(q, v)' <=> MidExpand(q, v)
    BY <1>2 DEF MidExpand, IInv, TypeOK
  <2> QED BY <1>2, <2>1, Untouched DEF SameSizes
<1>5. \A q \in Req : Standing(q)' = IF q = r THEN "open" ELSE Standing(q)
  BY <1>2 DEF Standing, Active, Ended, IInv, TypeOK
<1>6. Standing(r) = "idle"
  BY <1>2 DEF Standing, Active, Ended
<1>7. Registry!Invoke(r) <=>
        /\ [q \in Req |-> Standing(q)][r] = "idle"
        /\ [q \in Req |-> Standing(q)'] = [[q \in Req |-> Standing(q)] EXCEPT ![r] = "open"]
        /\ \E b \in Registry!Calls : arg' = [arg EXCEPT ![r] = b]
        /\ [v \in Vol |-> RegSize(v)'] = [v \in Vol |-> RegSize(v)] /\ got' = got
  BY DEF Registry!Invoke, Standing
<1> QED BY <1>2, <1>3, <1>4, <1>5, <1>6, <1>7

(* A call under way stays so, or is answered.                              *)
StandsAs(r, x) ==
  /\ Standing(r) = "open"
  /\ \A q \in Req : Standing(q)' = IF q = r THEN x ELSE Standing(q)

LEMMA StepAnswers ==
  ASSUME IInv, NEW r \in Req, Step(r), NEW x \in {"ok", "err"}, pc'[r] = x
  PROVE  StandsAs(r, x)
<1>1. Mine(r)
  BY StepIsMine DEF IInv
<1>2. Standing(r) = "open" /\ Standing(r)' = x
  BY <1>1 DEF Mine, Standing, Active, Ended
<1> QED BY <1>1, <1>2, OthersStand DEF StandsAs

LEMMA StepGoesOn ==
  ASSUME IInv, NEW r \in Req, Step(r), pc'[r] \in Running
  PROVE  StandsAs(r, "open")
<1>1. Mine(r)
  BY StepIsMine DEF IInv
<1>2. Standing(r) = "open" /\ Standing(r)' = "open"
  BY <1>1 DEF Mine, Standing, Active, Ended, Running
<1> QED BY <1>1, <1>2, OthersStand DEF StandsAs

(* A step that is neither an answer nor the taking of effect.              *)
LEMMA Unseen ==
  ASSUME SameSizes, NEW r \in Req, StandsAs(r, "open"), arg' = arg, got' = got
  PROVE  UNCHANGED Registry!rvars
<1>1. [v \in Vol |-> RegSize(v)'] = [v \in Vol |-> RegSize(v)]
  BY DEF SameSizes
<1>2. [q \in Req |-> Standing(q)'] = [q \in Req |-> Standing(q)]
  BY DEF StandsAs
<1> QED BY <1>1, <1>2 DEF Registry!rvars, Standing

LEMMA LoadMetaRefines ==
  ASSUME IInv, IInv', Serial, \A v \in Vol : SizeIs(v), SameSizes,
         NEW r \in Req, LoadMeta(r)
  PROVE  Registry!Look(r) \/ Registry!Refused(r)
<1> PICK from : from = IF arg[r].op = "expand" THEN arg[r].vol ELSE arg[r].src
  OBVIOUS
<1>1. /\ pc[r] = "load" /\ from \in Vol /\ arg' = arg
      /\ arg[r].op \in {"clone", "snapshot", "expand"} /\ got[r] = None
  BY DEF LoadMeta, Goto, IInv, ArgsOK, Changes, Running, Serial, Placed, Fresh, Copies
<1>2. Step(r)
  BY DEF Step
<1>3. [v \in Vol |-> RegSize(v)'] = [v \in Vol |-> RegSize(v)]
  BY DEF SameSizes
<1>4. CASE Parsable(from)
  <2>1. pc'[r] \in Running /\ got' = [got EXCEPT ![r] = text[meta[from]].obj.size]
    BY <1>1, <1>4 DEF LoadMeta, Goto, IInv, TypeOK, Running
  <2>2. StandsAs(r, "open")
    BY <1>2, <2>1, StepGoesOn
  <2>3. RegSize(from) = text[meta[from]].obj.size /\ RegSize(from) # None
    <3>1. RegSize(from) = text[meta[from]].obj.size
      BY <1>1, <1>4 DEF SizeIs
    <3>2. text[meta[from]].obj.size \in Size
      BY <1>1, <1>4 DEF IInv, TypeOK, Parsable, Text, Obj
    <3> QED BY <3>1, <3>2, InodeFacts
  <2>4. [q \in Req |-> Standing(q)'] = [q \in Req |-> Standing(q)]
        /\ [q \in Req |-> Standing(q)][r] = "open"
    BY <2>2 DEF StandsAs
  <2>5. got' = [got EXCEPT ![r] = [v \in Vol |-> RegSize(v)][from]]
        /\ [v \in Vol |-> RegSize(v)][from] # None
    BY <1>1, <2>1, <2>3
  <2> QED BY <1>1, <1>3, <2>4, <2>5 DEF Registry!Look, Standing
<1>5. CASE ~Parsable(from)
  <2>1. pc'[r] = "err" /\ got' = got
    BY <1>1, <1>5 DEF LoadMeta, Goto, IInv, TypeOK
  <2>2. StandsAs(r, "err")
    BY <1>2, <2>1, StepAnswers
  <2>3. [q \in Req |-> Standing(q)'] = [[q \in Req |-> Standing(q)] EXCEPT ![r] = "err"]
        /\ [q \in Req |-> Standing(q)][r] = "open"
    BY <2>2 DEF StandsAs
  <2> QED BY <1>1, <1>3, <2>1, <2>3 DEF Registry!Refused, Registry!Answer, Standing
<1> QED BY <1>4, <1>5

LEMMA WriteMetaRefines ==
  ASSUME IInv, IInv', Serial, NEW r \in Req, WriteMeta(r),
         SizeSet(arg[r].vol, NewMeta(r).size),
         RegSize(arg[r].vol) = None <=> arg[r].op # "expand"
  PROVE  Registry!Created(r) \/ Registry!Copied(r) \/ Registry!Expanded(r)
<1> PICK w : w = arg[r].vol
  OBVIOUS
<1>1. /\ pc[r] = "write" /\ pc'[r] = "ok" /\ arg' = arg /\ got' = got
      /\ arg[r].op \in Copies \cup {"create", "expand"}
      /\ arg[r].op # "create" => got[r] # None
  BY InodeFacts DEF WriteMeta, Goto, local, IInv, TypeOK, ArgsOK, Serial, Placed, Expanding
<1>2. StandsAs(r, "ok")
  BY <1>1, StepAnswers DEF Step
<1>3. [q \in Req |-> Standing(q)'] = [[q \in Req |-> Standing(q)] EXCEPT ![r] = "ok"]
      /\ [q \in Req |-> Standing(q)][r] = "open"
  BY <1>2 DEF StandsAs
<1>4. w \in Vol /\ RegSize(w)' = NewMeta(r).size
      /\ \A v \in Vol \ {w} : RegSize(v)' = RegSize(v)
  BY <1>1 DEF SizeSet
<1>5. [v \in Vol |-> RegSize(v)'] = [[v \in Vol |-> RegSize(v)] EXCEPT ![w] = NewMeta(r).size]
      /\ [v \in Vol |-> RegSize(v)][w] = RegSize(w)
  BY <1>4
<1>6. RegSize(w) = None <=> arg[r].op # "expand"
  OBVIOUS
<1>7. CASE arg[r].op = "create"
  <2>1. NewMeta(r).size = arg[r].size
    BY <1>7 DEF NewMeta, Copies
  <2> QED BY <1>1, <1>3, <1>5, <1>6, <1>7, <2>1
          DEF Registry!Created, Registry!Answer, Standing
<1>8. CASE arg[r].op \in Copies
  <2>1. NewMeta(r).size = got[r] /\ arg[r].op # "expand" /\ got[r] # None
    BY <1>1, <1>8 DEF NewMeta, Copies
  <2> QED BY <1>1, <1>3, <1>5, <1>6, <1>8, <2>1
          DEF Registry!Copied, Registry!Answer, Standing, Copies
<1>9. CASE arg[r].op = "expand"
  <2>1. NewMeta(r).size = arg[r].size
    BY <1>9 DEF NewMeta, Copies
  <2> QED BY <1>1, <1>3, <1>5, <1>6, <1>9, <2>1
          DEF Registry!Expanded, Registry!Answer, Standing
<1> QED BY <1>1, <1>7, <1>8, <1>9

(* Every step of a handler is one of the register's, or changes nothing.   *)
LEMMA StepRefines ==
  ASSUME IInv, IInv', Serial, Serial',
         \A v \in Vol : SizeIs(v), (\A v \in Vol : SizeIs(v))',
         NEW r \in Req, Step(r)
  PROVE  [Registry!RegNext]_(Registry!rvars)
<1>1. TypeOK /\ ArgsOK /\ Placed(r) /\ TypeOK'
  BY DEF IInv, Serial
<1>2. arg' = arg
  BY <1>1, StepIsMine DEF Mine
<1>3. IF WriteMeta(r)
      THEN /\ SizeSet(arg[r].vol, NewMeta(r).size)
           /\ RegSize(arg[r].vol) = None <=> arg[r].op # "expand"
      ELSE IF RemoveMeta(r) THEN SizeSet(arg[r].vol, None)
      ELSE /\ SameSizes
           /\ RemoveVolDir(r) => RegSize(arg[r].vol) = None
  BY OwnSized
<1>4. ASSUME SameSizes
      PROVE  [v \in Vol |-> RegSize(v)'] = [v \in Vol |-> RegSize(v)]
  BY <1>4 DEF SameSizes
<1>5. ASSUME NEW x, StandsAs(r, x)
      PROVE  /\ [q \in Req |-> Standing(q)][r] = "open"
             /\ [q \in Req |-> Standing(q)'] = [[q \in Req |-> Standing(q)] EXCEPT ![r] = x]
  BY <1>5 DEF StandsAs
<1>6. CASE WriteMeta(r)
  <2>1. Registry!Created(r) \/ Registry!Copied(r) \/ Registry!Expanded(r)
    BY <1>3, <1>6, WriteMetaRefines
  <2> QED BY <2>1 DEF Registry!RegNext
<1>7. CASE RemoveMeta(r)
  <2> PICK w : w = arg[r].vol
    OBVIOUS
  <2>1. ~WriteMeta(r)
    BY <1>7 DEF RemoveMeta, WriteMeta
  <2>2. w \in Vol /\ RegSize(w)' = None /\ \A v \in Vol \ {w} : RegSize(v)' = RegSize(v)
    BY <1>2, <1>3, <1>7, <2>1 DEF SizeSet
  <2>3. [v \in Vol |-> RegSize(v)'] = [[v \in Vol |-> RegSize(v)] EXCEPT ![w] = None]
    BY <2>2
  <2>4. pc'[r] \in Running /\ arg[r].op = "remove" /\ got' = got
    BY <1>1, <1>7 DEF RemoveMeta, Goto, TypeOK, ArgsOK, Running
  <2>5. StandsAs(r, "open")
    BY <2>4, StepGoesOn
  <2>6. [q \in Req |-> Standing(q)'] = [q \in Req |-> Standing(q)]
    BY <2>5 DEF StandsAs
  <2>7. Registry!Removed(r)
    BY <1>2, <1>5, <2>3, <2>4, <2>5, <2>6 DEF Registry!Removed, Standing
  <2> QED BY <2>7 DEF Registry!RegNext
<1>8. CASE RemoveVolDir(r)
  <2>1. ~WriteMeta(r) /\ ~RemoveMeta(r)
    BY <1>8 DEF RemoveVolDir, RemoveMeta, WriteMeta
  <2>2. pc'[r] = "ok" /\ arg[r].op = "remove" /\ got' = got /\ arg[r].vol \in Vol
    BY <1>1, <1>8 DEF RemoveVolDir, Goto, local, TypeOK, ArgsOK, Changes, Running
  <2>3. StandsAs(r, "ok")
    BY <2>2, StepAnswers
  <2>4. SameSizes /\ [v \in Vol |-> RegSize(v)][arg[r].vol] = None
    BY <1>3, <1>8, <2>1, <2>2
  <2>5. Registry!RemoveAnswered(r)
    BY <1>2, <1>4, <1>5, <2>2, <2>3, <2>4
       DEF Registry!RemoveAnswered, Registry!Answer, Standing
  <2> QED BY <2>5 DEF Registry!RegNext
<1>9. CASE ListDone(r)
  <2>1. ~WriteMeta(r) /\ ~RemoveMeta(r)
    BY <1>9 DEF ListDone, RemoveMeta, WriteMeta
  <2>2. pc'[r] = "ok" /\ arg[r].op = "list" /\ got' = got
    BY <1>1, <1>9 DEF ListDone, Goto, local, TypeOK, ArgsOK
  <2>3. StandsAs(r, "ok")
    BY <2>2, StepAnswers
  <2>4. Registry!Listed(r)
    BY <1>2, <1>3, <1>4, <1>5, <2>1, <2>2, <2>3
       DEF Registry!Listed, Registry!Answer, Standing
  <2> QED BY <2>4 DEF Registry!RegNext
<1>10. CASE LoadMeta(r)
  <2>1. ~WriteMeta(r) /\ ~RemoveMeta(r)
    BY <1>10 DEF LoadMeta, RemoveMeta, WriteMeta
  <2>2. Registry!Look(r) \/ Registry!Refused(r)
    BY <1>3, <1>10, <2>1, LoadMetaRefines
  <2> QED BY <2>2 DEF Registry!RegNext
<1>11. ASSUME NEW v \in Vol, GetVolMeta(r, v)
       PROVE  [Registry!RegNext]_(Registry!rvars)
  <2>1. ~WriteMeta(r) /\ ~RemoveMeta(r) /\ got' = got
    BY <1>11 DEF GetVolMeta, RemoveMeta, WriteMeta
  <2>2. pc'[r] = "getmeta" \/ pc'[r] = "err"
    BY <1>1, <1>11 DEF GetVolMeta, Goto, TypeOK
  <2>3. CASE pc'[r] = "getmeta"
    <3>1. StandsAs(r, "open")
      BY <2>3, StepGoesOn DEF Running
    <3> QED BY <1>2, <1>3, <2>1, <3>1, Unseen
  <2>4. CASE pc'[r] = "err"
    <3>1. StandsAs(r, "err")
      BY <2>4, StepAnswers
    <3>2. Registry!Refused(r)
      BY <1>2, <1>3, <1>4, <1>5, <2>1, <3>1
         DEF Registry!Refused, Registry!Answer, Standing
    <3> QED BY <3>2 DEF Registry!RegNext
  <2> QED BY <2>2, <2>3, <2>4
<1>12. CASE ~(\/ WriteMeta(r) \/ RemoveMeta(r) \/ RemoveVolDir(r) \/ ListDone(r) \/ LoadMeta(r)
              \/ \E v \in Vol : GetVolMeta(r, v))
  <2>1. pc'[r] \in Running /\ got' = got
    <3> USE <1>1 DEF TypeOK, Goto, fs, local, Running
    <3>1. CASE MakeVolDir(r) \/ MakeMountpoint(r) \/ ReadSourceNames(r) \/ CopyDone(r)
      BY <3>1 DEF MakeVolDir, MakeMountpoint, ReadSourceNames, CopyDone
    <3>2. CASE \E f \in File : CopyFile(r, f) \/ SourceFileVanished(r, f)
      BY <3>2 DEF CopyFile, SourceFileVanished
    <3>3. CASE UnlinkMeta(r) \/ OpenMeta(r)
      BY <3>3 DEF UnlinkMeta, OpenMeta, Placed, Making, Expanding, ArgsOK
    <3>4. CASE ScanVolDir(r) \/ RemoveFiles(r) \/ RemoveMountpoint(r) \/ ReadVolGroup(r)
      BY <3>4 DEF ScanVolDir, RemoveFiles, RemoveMountpoint, ReadVolGroup
    <3> QED BY <1>12, <3>1, <3>2, <3>3, <3>4 DEF Step
  <2>2. StandsAs(r, "open")
    BY <2>1, StepGoesOn
  <2> QED BY <1>2, <1>3, <1>12, <2>1, <2>2, Unseen
<1> QED BY <1>6, <1>7, <1>8, <1>9, <1>10, <1>11, <1>12

(* Of the volumes, an agent that dies takes those it was expanding.        *)
LEMMA CrashLoses ==
  ASSUME Serial, \A v \in Vol : SizeIs(v), (\A v \in Vol : SizeIs(v))', Crash,
         NEW v \in Vol
  PROVE  RegSize(v)' = IF \E q \in Req : MidExpand(q, v) THEN None ELSE RegSize(v)
<1>1. /\ UNCHANGED <<dir, meta, text, got, arg>>
      /\ pc' = [r \in Req |-> IF Active(r) THEN "dead" ELSE pc[r]]
  BY DEF Crash, fs, local
<1>2. SizeIs(v) /\ SizeIs(v)' /\ \A q \in Req : ~MidExpand(q, v)'
  BY <1>1 DEF MidExpand, Active, Ended
<1>3. Parsable(v)' <=> Parsable(v)
  BY <1>1 DEF Parsable
<1>4. ASSUME NEW q \in Req, MidExpand(q, v)
      PROVE  RegSize(v)' = None
  <2>1. meta[v] = None \/ (meta[v] = q /\ text[q].len = 0)
    BY <1>4 DEF MidExpand, Serial, Placed, Fresh, Expanding, Over
  <2>2. ~Parsable(v)
    BY <2>1 DEF Parsable, Serial, Whole, Inode
  <2> QED BY <1>2, <1>3, <2>2 DEF SizeIs
<1>5. CASE \A q \in Req : ~MidExpand(q, v)
  BY <1>1, <1>2, <1>3, <1>5 DEF SizeIs
<1> QED BY <1>4, <1>5

LEMMA CrashRefines ==
  ASSUME IInv, Serial, \A v \in Vol : SizeIs(v), (\A v \in Vol : SizeIs(v))', Crash
  PROVE  Registry!AgentDies
<1>1. /\ UNCHANGED <<got, arg>>
      /\ pc' = [r \in Req |-> IF Active(r) THEN "dead" ELSE pc[r]]
  BY DEF Crash, fs, local
<1> DEFINE lost == {v \in Vol : \E q \in Req : MidExpand(q, v)}
<1>2. \A v \in Vol : RegSize(v)' = IF v \in lost THEN None ELSE RegSize(v)
  BY CrashLoses
<1>3. lost \subseteq {arg[r].vol : r \in {q \in Req : /\ Standing(q) = "open"
                                                      /\ arg[q].op = "expand"
                                                      /\ got[q] # None}}
  BY InodeFacts DEF MidExpand, Standing, Active, Ended, Serial, Placed, Expanding
<1>4. \A q \in Req : Standing(q)' = IF Standing(q) = "open" THEN "dead" ELSE Standing(q)
  BY <1>1 DEF Standing, Active, Ended, IInv, TypeOK, Running
<1>5. [q \in Req |-> Standing(q)'] =
        [q \in Req |-> IF [p \in Req |-> Standing(p)][q] = "open" THEN "dead"
                       ELSE [p \in Req |-> Standing(p)][q]]
  BY <1>4
<1>6. [v \in Vol |-> RegSize(v)'] =
        [v \in Vol |-> IF v \in lost THEN None ELSE [w \in Vol |-> RegSize(w)][v]]
  BY <1>2
<1>7. lost \in SUBSET {arg[r].vol : r \in {q \in Req : /\ [p \in Req |-> Standing(p)][q] = "open"
                                                       /\ arg[q].op = "expand"
                                                       /\ got[q] # None}}
  BY <1>3
<1> QED BY <1>1, <1>5, <1>6, <1>7 DEF Registry!AgentDies, Standing

LEMMA QuietRefines ==
  ASSUME IInv, \A v \in Vol : SizeIs(v), (\A v \in Vol : SizeIs(v))',
         UNCHANGED <<meta, text, got, arg, pc>>
  PROVE  UNCHANGED Registry!rvars
<1>1. SameSizes
  <2>1. \A q \in Req, v \in Vol : MidExpand(q, v)' <=> MidExpand(q, v)
    BY DEF MidExpand
  <2> QED BY <2>1, Untouched
<1>2. [v \in Vol |-> RegSize(v)'] = [v \in Vol |-> RegSize(v)]
  BY <1>1 DEF SameSizes
<1>3. [q \in Req |-> Standing(q)'] = [q \in Req |-> Standing(q)]
  BY DEF Standing, Active
<1> QED BY <1>2, <1>3 DEF Registry!rvars, Standing

(* The many steps of the handlers amount to a register of volumes: nothing *)
(* half-made or half-expanded is seen as a volume, each call takes effect  *)
(* at one instant, and a volume goes only by its removal or with an agent  *)
(* that dies while it expands it.                                          *)
THEOREM ServerIsRegister ==
  ASSUME Orderly
  PROVE  HSpec => ImplementsRegistry
<1>1. IInv /\ Serial => \A v \in Vol : SizeIs(v)
  BY RegSizeIs
<1>2. HInit => Registry!RegInit
  BY <1>1, InitIInv, InitSerial, RegisterInit DEF HInit
<1>3. (IInv /\ Serial)' => (\A v \in Vol : SizeIs(v))'
  BY <1>1, PTL
<1>4. HInv /\ HInv' /\ [HNext]_hvars => [Registry!RegNext]_(Registry!rvars)
  <2> SUFFICES ASSUME HInv, HInv', [HNext]_hvars
               PROVE  [Registry!RegNext]_(Registry!rvars)
    OBVIOUS
  <2>1. IInv /\ Serial /\ IInv' /\ Serial'
    BY DEF HInv
  <2>2. (\A v \in Vol : SizeIs(v)) /\ (\A v \in Vol : SizeIs(v))'
    BY <1>1, <1>3, <2>1
  <2>3. ASSUME NEW r \in Req, Start(r)
        PROVE  Registry!RegNext
    <3>1. Registry!Invoke(r)
      BY <2>1, <2>2, <2>3, StartRefines
    <3> QED BY <3>1 DEF Registry!RegNext
  <2>4. ASSUME NEW r \in Req, Step(r)
        PROVE  [Registry!RegNext]_(Registry!rvars)
    BY <2>1, <2>2, <2>4, StepRefines
  <2>5. ~ \E r \in Req : IOError(r)
    BY Orderly
       DEF Orderly, IOError, IOErrorReported, VolGroupUnreadable, IOErrorDropped, FaultAllowed
  <2>6. CASE Crash
    <3>1. Registry!AgentDies
      BY <2>1, <2>2, <2>6, CrashRefines
    <3> QED BY <3>1 DEF Registry!RegNext
  <2>7. ASSUME NEW v \in Vol, NEW f \in File, PodWrite(v, f) \/ PodDelete(v, f)
        PROVE  UNCHANGED Registry!rvars
    <3>1. UNCHANGED <<meta, text, got, arg, pc>>
      BY <2>7 DEF PodWrite, PodDelete, local
    <3> QED BY <2>1, <2>2, <3>1, QuietRefines
  <2>8. CASE UNCHANGED hvars
    <3>1. UNCHANGED <<meta, text, got, arg, pc>>
      BY <2>8 DEF hvars
    <3> QED BY <2>1, <2>2, <3>1, QuietRefines
  <2> QED BY <2>3, <2>4, <2>5, <2>6, <2>7, <2>8 DEF HNext, Next
<1>5. HSpec => []HInv
  BY HistoryInvariance
<1>6. HSpec => Registry!RegInit /\ [][Registry!RegNext]_(Registry!rvars)
  BY <1>2, <1>4, <1>5, PTL DEF HSpec
<1> QED BY <1>6 DEF ImplementsRegistry, Registry!RegSpec

(* Step by step: the volume of a name goes when its removal takes its      *)
(* metadata, or with an agent that dies between the unlinking and the      *)
(* writing of its metadata by ExpandVol; by nothing else, whatever copies, *)
(* listings and other calls overlap.                                       *)
THEOREM OnlyRemovalsTake ==
  ASSUME Orderly
  PROVE  HSpec => [][\A v \in Vol : RegSize(v) # None /\ RegSize(v)' = None =>
                       \E r \in Req : \/ arg[r].vol = v /\ RemoveMeta(r)
                                      \/ MidExpand(r, v) /\ pc'[r] = "dead"]_hvars
<1>1. IInv /\ Serial => \A v \in Vol : SizeIs(v)
  BY RegSizeIs
<1>2. (IInv /\ Serial)' => (\A v \in Vol : SizeIs(v))'
  BY <1>1, PTL
<1>3. HInv /\ HInv' /\ [HNext]_hvars =>
        [\A v \in Vol : RegSize(v) # None /\ RegSize(v)' = None =>
           \E r \in Req : \/ arg[r].vol = v /\ RemoveMeta(r)
                          \/ MidExpand(r, v) /\ pc'[r] = "dead"]_hvars
  <2> SUFFICES ASSUME HInv, HInv', Next, NEW v \in Vol, RegSize(v) # None, RegSize(v)' = None
               PROVE  \E r \in Req : \/ arg[r].vol = v /\ RemoveMeta(r)
                                     \/ MidExpand(r, v) /\ pc'[r] = "dead"
    BY DEF HNext
  <2>1. IInv /\ Serial /\ IInv' /\ Serial'
    BY DEF HInv
  <2>2. (\A w \in Vol : SizeIs(w)) /\ (\A w \in Vol : SizeIs(w))'
    BY <1>1, <1>2, <2>1
  <2>3. ~SameSizes
    BY DEF SameSizes
  <2>4. ASSUME NEW r \in Req, Start(r)
        PROVE  FALSE
    <3>1. PICK a, label : StartsAt(r, a, label)
      BY <2>4, StartFacts
    <3>2. UNCHANGED <<meta, text, got>>
      BY <3>1 DEF StartsAt, Begin, fs, local
    <3>3. \A q \in Req, w \in Vol : MidExpand(q, w)' <=> MidExpand(q, w)
      BY <2>1, <3>1 DEF StartsAt, Begin, MidExpand, IInv, TypeOK
    <3> QED BY <2>2, <2>3, <3>2, <3>3, Untouched
  <2>5. ASSUME NEW r \in Req, Step(r)
        PROVE  arg[r].vol = v /\ RemoveMeta(r)
    <3>1. arg[r].vol = v
      BY <2>1, <2>2, <2>5, StepIsMine, OthersSized DEF IInv
    <3>2. ~WriteMeta(r)
      <4>1. SUFFICES ASSUME WriteMeta(r) PROVE NewMeta(r).size # None
        <5>1. WriteMeta(r) => SizeSet(arg[r].vol, NewMeta(r).size)
          BY <2>1, <2>2, <2>5, OwnSized
        <5>2. arg'[r] = arg[r]
          BY <2>1, <2>5, StepIsMine DEF Mine, IInv
        <5> QED BY <3>1, <5>1, <5>2 DEF SizeSet
      <4>2. NewMeta(r).size \in Size
        BY <2>1, <4>1 DEF WriteMeta, NewMeta, IInv, ArgsOK, Copies
      <4> QED BY <4>2, InodeFacts
    <3>3. RemoveMeta(r)
      BY <2>1, <2>2, <2>3, <2>5, <3>2, OwnSized
    <3> QED BY <3>1, <3>3
  <2>6. ~ \E r \in Req : IOError(r)
    BY Orderly
       DEF Orderly, IOError, IOErrorReported, VolGroupUnreadable, IOErrorDropped, FaultAllowed
  <2>7. CASE Crash
    <3>1. PICK q \in Req : MidExpand(q, v)
      BY <2>1, <2>2, <2>7, CrashLoses
    <3> QED BY <2>7, <3>1 DEF Crash, MidExpand, Active, Ended
  <2>8. ASSUME NEW w \in Vol, NEW f \in File, PodWrite(w, f) \/ PodDelete(w, f)
        PROVE  FALSE
    <3>1. UNCHANGED <<meta, text, got, arg, pc>>
      BY <2>8 DEF PodWrite, PodDelete, local
    <3>2. \A q \in Req, u \in Vol : MidExpand(q, u)' <=> MidExpand(q, u)
      BY <3>1 DEF MidExpand
    <3> QED BY <2>2, <2>3, <3>1, <3>2, Untouched
  <2> QED BY <2>4, <2>5, <2>6, <2>7, <2>8 DEF Next
<1>4. HSpec => []HInv
  BY HistoryInvariance
<1> QED BY <1>3, <1>4, PTL DEF HSpec

=============================================================================
