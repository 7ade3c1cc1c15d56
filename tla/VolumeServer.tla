----------------------------- MODULE VolumeServer -----------------------------
(***************************************************************************)
(* The node agent's volume server, src/pkg/server: one volume group of one *)
(* node, kept as directories under /opt/csi-hostpath/<vg>.                 *)
(*                                                                         *)
(*   <vg>/<name>/              a volume or a snapshot: one name space      *)
(*   <vg>/<name>/mountpoint/   its data                                    *)
(*   <vg>/<name>/meta.json     its metadata, a JSON text                   *)
(*                                                                         *)
(* A gRPC handler is a goroutine that makes one system call after another; *)
(* nothing serialises two handlers and nothing is undone when one fails or *)
(* the process dies.  Each system call is an action, pc[r] is where        *)
(* handler r stands.                                                       *)
(***************************************************************************)
EXTENDS Naturals, FiniteSets

CONSTANTS
  Vol,        \* names of volumes and of snapshots
  Size,       \* sizes a volume can be given
  File,       \* files a pod may keep in a volume
  Req,        \* requests; a request is made once
  None,       \* no inode, no object, no argument
  TextLen,    \* length of the JSON text of the metadata, by the size it holds
  Racing,     \* TRUE: a request may start on a volume that another one is using
  FaultKinds, \* the faults considered, among "io" and "crash"
  MaxFaults,  \* bound on the number of faults
  PodActs     \* what pods do to the files of a volume: "write", "delete"

(* An inode of a meta.json is named by the request that created it, or, if *)
(* it was there from the start, by its volume.                             *)
Inode == Req \cup Vol
Obj   == [vol : Vol, size : Size]   \* what a JSON text of the metadata says

Ops    == {"create", "clone", "snapshot", "expand", "remove", "list"}
Copies == {"clone", "snapshot"}

ASSUME VolumeServerAssumption ==
  /\ Req \cap Vol = {}
  /\ None \notin Inode \cup Size \cup Obj
  /\ None \notin Ops
  /\ TextLen \in [Size -> Nat \ {0}]
  /\ Racing \in BOOLEAN
  /\ MaxFaults \in Nat

VARIABLES
  dir,    \* the names that have a directory
  mp,     \* those whose directory has a mountpoint
  data,   \* the files under each mountpoint
  meta,   \* the inode linked as meta.json, if any
  text,   \* what each inode holds
  pc,     \* where each request stands
  arg,    \* its arguments
  got,    \* the size it read from a meta.json
  fd,     \* the inode it opened for writing
  todo,   \* directory entries it has listed and not yet handled
  found,  \* the volumes a ListVol has parsed
  faults  \* faults so far

fs    == <<dir, mp, data, meta, text>>
local == <<got, fd, todo, found>>
vars  == <<dir, mp, data, meta, text, pc, arg, got, fd, todo, found, faults>>

Ended  == {"idle", "ok", "err", "dead"}
Running == {"mkdir", "mkmp", "load", "walk", "copy", "unlink", "open", "write",
            "scan", "rm", "rmmp", "readdir", "getmeta"}

Text  == [len : Nat, obj : Obj \cup {None}]
Blank == [len |-> 0, obj |-> None]
Args  == [op : Ops \cup {None}, vol : Vol \cup {None},
          src : Vol \cup {None}, size : Size \cup {None}]
NoArg == [op |-> None, vol |-> None, src |-> None, size |-> None]

TypeOK ==
  /\ dir \subseteq Vol
  /\ mp \subseteq Vol
  /\ data \in [Vol -> SUBSET File]
  /\ meta \in [Vol -> Inode \cup {None}]
  /\ text \in [Inode -> Text]
  /\ pc \in [Req -> Ended \cup Running]
  /\ arg \in [Req -> Args]
  /\ got \in [Req -> Size \cup {None}]
  /\ fd \in [Req -> Inode \cup {None}]
  /\ todo \in [Req -> SUBSET (Vol \cup File \cup {"meta", "mountpoint"})]
  /\ found \in [Req -> SUBSET Vol]
  /\ faults \in 0 .. MaxFaults

-----------------------------------------------------------------------------
TextOf(o) == [len |-> TextLen[o.size], obj |-> o]

(* meta.json is opened without O_TRUNC and written from offset 0, so what  *)
(* is longer than the new text survives behind it and spoils the JSON.     *)
Overwrite(t, o) ==
  IF TextLen[o.size] >= t.len THEN TextOf(o) ELSE [len |-> t.len, obj |-> None]

Parsable(v) == meta[v] # None /\ text[meta[v]].obj # None

Active(r) == pc[r] \notin Ended

(* The calls this server gets.  A name is made for one claim, whose size   *)
(* only grows; the controller sends CreateVol for a name that ListVol has  *)
(* just not shown.  While no call has timed out (Racing is FALSE), the     *)
(* sidecars keep apart two changes of one name, and the making or removal  *)
(* of a volume and its copying.                                            *)
Idle(v)    == \A q \in Req : Active(q) => arg[q].vol # v
Unread(v)  == \A q \in Req : Active(q) => arg[q].src # v
Settled(v) == \A q \in Req : Active(q) /\ arg[q].vol = v => arg[q].op = "expand"
Asked(v)   == {q \in Req : arg[q].vol = v /\ arg[q].size # None}
NewName(v) == \/ v \notin dir
              \/ Racing /\ \E q \in Req : /\ arg[q].vol = v
                                         /\ arg[q].op \in Copies \cup {"create"}
SameSize(v, z) == \A q \in Asked(v) : arg[q].op = "create" => arg[q].size = z
Grows(v, z) == /\ Parsable(v) => z >= text[meta[v]].obj.size
               /\ \A q \in Asked(v) : z >= arg[q].size

Init ==
  /\ dir \in SUBSET Vol
  /\ mp = dir
  /\ data \in [Vol -> SUBSET File]
  /\ \A v \in Vol \ dir : data[v] = {}
  /\ meta = [v \in Vol |-> IF v \in dir THEN v ELSE None]
  /\ \E size \in [Vol -> Size] :
       text = [i \in Inode |->
                 IF i \in dir THEN TextOf([vol |-> i, size |-> size[i]]) ELSE Blank]
  /\ pc = [r \in Req |-> "idle"]
  /\ arg = [r \in Req |-> NoArg]
  /\ got = [r \in Req |-> None]
  /\ fd = [r \in Req |-> None]
  /\ todo = [r \in Req |-> {}]
  /\ found = [r \in Req |-> {}]
  /\ faults = 0

-----------------------------------------------------------------------------
Goto(r, label) == pc' = [pc EXCEPT ![r] = label] /\ UNCHANGED <<arg, faults>>

Begin(r, a, label) ==
  /\ pc[r] = "idle"
  /\ pc' = [pc EXCEPT ![r] = label]
  /\ arg' = [arg EXCEPT ![r] = a]
  /\ UNCHANGED <<fs, local, faults>>

StartCreate(r, v, z) ==
  /\ NewName(v) /\ SameSize(v, z)
  /\ Racing \/ Idle(v)
  /\ Begin(r, [op |-> "create", vol |-> v, src |-> None, size |-> z], "mkdir")

StartCopy(r, o, s, v) ==
  /\ s # v
  /\ NewName(v)
  /\ Racing \/ (Idle(v) /\ Settled(s))
  /\ Begin(r, [op |-> o, vol |-> v, src |-> s, size |-> None], "load")

StartExpand(r, v, z) ==
  /\ Grows(v, z)
  /\ Racing \/ Idle(v)
  /\ Begin(r, [op |-> "expand", vol |-> v, src |-> None, size |-> z], "load")

StartRemove(r, v) ==
  /\ Racing \/ (Idle(v) /\ Unread(v))
  /\ Begin(r, [op |-> "remove", vol |-> v, src |-> None, size |-> None], "scan")

StartList(r) ==
  Begin(r, [op |-> "list", vol |-> None, src |-> None, size |-> None], "readdir")

-----------------------------------------------------------------------------
(* Making a directory: CreateVol, and CloneVol and CreateSnapshot once they *)
(* have read the metadata of their source.                                  *)

(* getVolMeta: no meta.json, or a text that is not JSON, ends the call.    *)
LoadMeta(r) ==
  LET from == IF arg[r].op = "expand" THEN arg[r].vol ELSE arg[r].src IN
  /\ pc[r] = "load"
  /\ IF Parsable(from)
     THEN /\ got' = [got EXCEPT ![r] = text[meta[from]].obj.size]
          /\ Goto(r, IF arg[r].op = "expand" THEN "unlink" ELSE "mkdir")
     ELSE /\ got' = got
          /\ Goto(r, "err")
  /\ UNCHANGED <<fs, fd, todo, found>>

MakeVolDirOnly(r) ==         \* a variant: the mountpoint is left for later
  /\ pc[r] = "mkdir"
  /\ dir' = dir \cup {arg[r].vol}
  /\ Goto(r, "open")
  /\ UNCHANGED <<mp, data, meta, text, local>>

MakeVolDir(r) ==
  /\ pc[r] = "mkdir"
  /\ dir' = dir \cup {arg[r].vol}
  /\ Goto(r, "mkmp")
  /\ UNCHANGED <<mp, data, meta, text, local>>

(* MkdirAll makes the volume's directory again if it was taken meanwhile.  *)
MakeMountpoint(r) ==
  /\ pc[r] = "mkmp"
  /\ dir' = dir \cup {arg[r].vol}
  /\ mp' = mp \cup {arg[r].vol}
  /\ Goto(r, IF arg[r].op = "create" THEN "open" ELSE "walk")
  /\ UNCHANGED <<data, meta, text, local>>

(* filepath.Walk reads the names under the source's mountpoint once.  No   *)
(* mountpoint: Walk fails, and its error is dropped.                       *)
ReadSourceNames(r) ==
  /\ pc[r] = "walk"
  /\ todo' = [todo EXCEPT ![r] = IF arg[r].src \in mp THEN data[arg[r].src] ELSE {}]
  /\ Goto(r, "copy")
  /\ UNCHANGED <<fs, got, fd, found>>

(* CopyFile: its error, here a destination that is gone, is dropped.       *)
CopyFile(r, f) ==
  /\ pc[r] = "copy"
  /\ f \in todo[r] \cap data[arg[r].src]
  /\ data' = IF arg[r].vol \in mp
             THEN [data EXCEPT ![arg[r].vol] = @ \cup {f}] ELSE data
  /\ todo' = [todo EXCEPT ![r] = @ \ {f}]
  /\ Goto(r, "copy")
  /\ UNCHANGED <<dir, mp, meta, text, got, fd, found>>

(* The file is gone.  Seen by lstat, the callback returns the error and    *)
(* Walk stops there, the other files uncopied; seen by CopyFile, only this *)
(* file is skipped.                                                        *)
SourceFileVanished(r, f) ==
  /\ pc[r] = "copy"
  /\ f \in todo[r] \ data[arg[r].src]
  /\ \E rest \in {{}, todo[r] \ {f}} : todo' = [todo EXCEPT ![r] = rest]
  /\ Goto(r, "copy")
  /\ UNCHANGED <<fs, got, fd, found>>

CopyCutShort(r) ==           \* a variant: the metadata need not wait
  /\ pc[r] = "copy"
  /\ Goto(r, "open")
  /\ UNCHANGED <<fs, local>>

CopyDone(r) ==
  /\ pc[r] = "copy"
  /\ todo[r] = {}
  /\ Goto(r, "open")
  /\ UNCHANGED <<fs, local>>

(* ExpandVol unlinks the metadata and then makes a new file.               *)
UnlinkMeta(r) ==
  /\ pc[r] = "unlink"
  /\ meta' = [meta EXCEPT ![arg[r].vol] = None]
  /\ Goto(r, "open")
  /\ UNCHANGED <<dir, mp, data, text, local>>

(* OpenFile(O_RDWR|O_CREATE): an existing file is opened as it is.         *)
OpenMeta(r) ==
  LET v == arg[r].vol IN
  /\ pc[r] = "open"
  /\ IF v \in dir
     THEN /\ fd' = [fd EXCEPT ![r] = IF meta[v] = None THEN r ELSE meta[v]]
          /\ meta' = [meta EXCEPT ![v] = fd'[r]]
          /\ Goto(r, "write")
     ELSE /\ Goto(r, "err")
          /\ UNCHANGED <<fd, meta>>
  /\ UNCHANGED <<dir, mp, data, text, got, todo, found>>

NewMetaOldSize(r) ==         \* a variant: ExpandVol writes the size it read
  [vol  |-> arg[r].vol,
   size |-> IF arg[r].op \in Copies \cup {"expand"} THEN got[r] ELSE arg[r].size]

(* A copy keeps every field of its source's metadata but the name.         *)
NewMeta(r) ==
  [vol |-> arg[r].vol, size |-> IF arg[r].op \in Copies THEN got[r] ELSE arg[r].size]

WriteMetaInParts(r) ==       \* a variant: the text is written in two parts
  /\ pc[r] = "write"
  /\ IF text[fd[r]].len = 0
     THEN /\ text' = [text EXCEPT ![fd[r]] = [len |-> 1, obj |-> None]]
          /\ Goto(r, "write")
     ELSE /\ text' = [text EXCEPT ![fd[r]] = Overwrite(@, NewMeta(r))]
          /\ Goto(r, "ok")
  /\ UNCHANGED <<dir, mp, data, meta, local>>

WriteMeta(r) ==
  /\ pc[r] = "write"
  /\ text' = [text EXCEPT ![fd[r]] = Overwrite(@, NewMeta(r))]
  /\ Goto(r, "ok")
  /\ UNCHANGED <<dir, mp, data, meta, local>>

-----------------------------------------------------------------------------
(* os.RemoveAll: list the entries once, remove each, then the directory;   *)
(* the order is that of the file system, and the error is dropped.         *)

ScanVolDir(r) ==
  LET v == arg[r].vol IN
  /\ pc[r] = "scan"
  /\ todo' = [todo EXCEPT ![r] = (IF meta[v] # None THEN {"meta"} ELSE {})
                            \cup (IF v \in mp THEN {"mountpoint"} ELSE {})]
  /\ Goto(r, "rm")
  /\ UNCHANGED <<fs, got, fd, found>>

RemoveMeta(r) ==
  /\ pc[r] = "rm"
  /\ "meta" \in todo[r]
  /\ meta' = [meta EXCEPT ![arg[r].vol] = None]
  /\ todo' = [todo EXCEPT ![r] = @ \ {"meta"}]
  /\ Goto(r, "rm")
  /\ UNCHANGED <<dir, mp, data, text, got, fd, found>>

RemoveFiles(r) ==
  /\ pc[r] = "rm"
  /\ "mountpoint" \in todo[r]
  /\ data' = [data EXCEPT ![arg[r].vol] = {}]
  /\ todo' = [todo EXCEPT ![r] = @ \ {"mountpoint"}]
  /\ Goto(r, "rmmp")
  /\ UNCHANGED <<dir, mp, meta, text, got, fd, found>>

(* rmdir fails on a directory that is not empty.                           *)
RemoveMountpoint(r) ==
  /\ pc[r] = "rmmp"
  /\ mp' = IF data[arg[r].vol] = {} THEN mp \ {arg[r].vol} ELSE mp
  /\ Goto(r, "rm")
  /\ UNCHANGED <<dir, data, meta, text, local>>

KeepVolDir(r) ==             \* a variant: only the entries are removed
  /\ pc[r] = "rm"
  /\ todo[r] = {}
  /\ Goto(r, "ok")
  /\ UNCHANGED <<fs, local>>

RemoveVolDir(r) ==
  LET v == arg[r].vol IN
  /\ pc[r] = "rm"
  /\ todo[r] = {}
  /\ dir' = IF meta[v] = None /\ v \notin mp THEN dir \ {v} ELSE dir
  /\ Goto(r, "ok")
  /\ UNCHANGED <<mp, data, meta, text, local>>

-----------------------------------------------------------------------------
(* ListVol: one directory whose metadata cannot be read fails the call.    *)

ReadVolGroup(r) ==
  /\ pc[r] = "readdir"
  /\ todo' = [todo EXCEPT ![r] = dir]
  /\ Goto(r, "getmeta")
  /\ UNCHANGED <<fs, got, fd, found>>

SkipVolMeta(r, v) ==         \* a variant: what cannot be parsed is passed over
  /\ pc[r] = "getmeta"
  /\ v \in todo[r]
  /\ todo' = [todo EXCEPT ![r] = @ \ {v}]
  /\ found' = IF Parsable(v)
              THEN [found EXCEPT ![r] = @ \cup {text[meta[v]].obj.vol}] ELSE found
  /\ Goto(r, "getmeta")
  /\ UNCHANGED <<fs, got, fd>>

GetVolMeta(r, v) ==
  /\ pc[r] = "getmeta"
  /\ v \in todo[r]
  /\ IF Parsable(v)
     THEN /\ todo' = [todo EXCEPT ![r] = @ \ {v}]
          /\ found' = [found EXCEPT ![r] = @ \cup {text[meta[v]].obj.vol}]
          /\ Goto(r, "getmeta")
     ELSE /\ Goto(r, "err")
          /\ UNCHANGED <<todo, found>>
  /\ UNCHANGED <<fs, got, fd>>

ListDone(r) ==
  /\ pc[r] = "getmeta"
  /\ todo[r] = {}
  /\ Goto(r, "ok")
  /\ UNCHANGED <<fs, local>>

-----------------------------------------------------------------------------
(* A system call fails (the disk is full, the medium is bad).  Either the  *)
(* handler returns the error, or it drops it and goes on.                  *)

FaultAllowed(kind) == kind \in FaultKinds /\ faults < MaxFaults

IOErrorReported(r) ==
  /\ FaultAllowed("io")
  /\ pc[r] \in {"load", "mkdir", "mkmp", "open", "write", "readdir", "getmeta"}
  /\ pc[r] = "getmeta" => todo[r] # {}
  /\ pc' = [pc EXCEPT ![r] = "err"]
  /\ faults' = faults + 1
  /\ UNCHANGED <<fs, local, arg>>

(* os.Open of the group's directory fails: an empty list, and no error.    *)
VolGroupUnreadable(r) ==
  /\ FaultAllowed("io")
  /\ pc[r] = "readdir"
  /\ pc' = [pc EXCEPT ![r] = "ok"]
  /\ faults' = faults + 1
  /\ UNCHANGED <<fs, local, arg>>

IOErrorDropped(r) ==
  /\ FaultAllowed("io")
  /\ \/ /\ pc[r] = "walk"
        /\ todo' = [todo EXCEPT ![r] = {}]
        /\ pc' = [pc EXCEPT ![r] = "copy"]
     \/ /\ pc[r] \in {"copy", "rm"}
        /\ \E e \in todo[r] : todo' = [todo EXCEPT ![r] = @ \ {e}]
        /\ pc' = pc
     \/ /\ pc[r] = "unlink"
        /\ pc' = [pc EXCEPT ![r] = "open"]
        /\ todo' = todo
     \/ /\ pc[r] = "rmmp"
        /\ pc' = [pc EXCEPT ![r] = "rm"]
        /\ todo' = todo
     \/ /\ pc[r] = "rm"
        /\ todo[r] = {}
        /\ pc' = [pc EXCEPT ![r] = "ok"]
        /\ todo' = todo
  /\ faults' = faults + 1
  /\ UNCHANGED <<fs, arg, got, fd, found>>

(* The agent dies and is started again: its handlers are gone, the         *)
(* directories are as they were.  Nothing is repaired at the start.        *)
Crash ==
  /\ FaultAllowed("crash")
  /\ pc' = [r \in Req |-> IF Active(r) THEN "dead" ELSE pc[r]]
  /\ faults' = faults + 1
  /\ UNCHANGED <<fs, local, arg>>

-----------------------------------------------------------------------------
(* Pods use the mountpoint of a volume that has been made and, unless a    *)
(* call timed out, is not being removed: it is unpublished before.         *)

PodWrite(v, f) ==
  /\ "write" \in PodActs
  /\ Racing \/ Settled(v)
  /\ Parsable(v) /\ v \in mp
  /\ data' = [data EXCEPT ![v] = @ \cup {f}]
  /\ UNCHANGED <<dir, mp, meta, text, pc, arg, local, faults>>

PodDelete(v, f) ==
  /\ "delete" \in PodActs
  /\ Racing \/ Settled(v)
  /\ Parsable(v) /\ v \in mp
  /\ data' = [data EXCEPT ![v] = @ \ {f}]
  /\ UNCHANGED <<dir, mp, meta, text, pc, arg, local, faults>>

-----------------------------------------------------------------------------
Start(r) ==
  \/ \E v \in Vol, z \in Size : StartCreate(r, v, z) \/ StartExpand(r, v, z)
  \/ \E o \in Copies, s \in Vol, v \in Vol : StartCopy(r, o, s, v)
  \/ \E v \in Vol : StartRemove(r, v)
  \/ StartList(r)

Step(r) ==
  \/ LoadMeta(r)
  \/ MakeVolDir(r)
  \/ MakeMountpoint(r)
  \/ ReadSourceNames(r)
  \/ \E f \in File : CopyFile(r, f) \/ SourceFileVanished(r, f)
  \/ CopyDone(r)
  \/ UnlinkMeta(r)
  \/ OpenMeta(r)
  \/ WriteMeta(r)
  \/ ScanVolDir(r)
  \/ RemoveMeta(r)
  \/ RemoveFiles(r)
  \/ RemoveMountpoint(r)
  \/ RemoveVolDir(r)
  \/ ReadVolGroup(r)
  \/ \E v \in Vol : GetVolMeta(r, v)
  \/ ListDone(r)

IOError(r) == IOErrorReported(r) \/ VolGroupUnreadable(r) \/ IOErrorDropped(r)

Next ==
  \/ \E r \in Req : Start(r) \/ Step(r) \/ IOError(r)
  \/ Crash
  \/ \E v \in Vol, f \in File : PodWrite(v, f) \/ PodDelete(v, f)

Spec == Init /\ [][Next]_vars

-----------------------------------------------------------------------------
(* Properties.                                                             *)

(* The metadata under a name is that name's: ListVol reports a volume under *)
(* the name its directory has, whatever copies and expansions interleave.   *)
(* GetVolume (pkg/client) finds a volume by the name inside the metadata.   *)
NamesMatch == \A v \in Vol : Parsable(v) => text[meta[v]].obj.vol = v

RemoveBegun(v) == \E r \in Req : arg[r].op = "remove" /\ arg[r].vol = v

(* Metadata that can be read commits the volume: its mountpoint is there to *)
(* be bind-mounted, unless the removal of that name was begun, for CreateVol *)
(* and CloneVol write meta.json last and ExpandVol needs one to be there.   *)
MetaCommitsMountpoint ==
  \A v \in Vol : Parsable(v) /\ v \notin mp => RemoveBegun(v)

(* A directory whose metadata cannot be read, which fails every ListVol of  *)
(* the group, is the work of a handler of that very name which is under way *)
(* or died with the process: no other call leaves debris behind.  Its       *)
(* meta.json is missing or empty: from the moment something is in it, it is *)
(* one JSON object, {name, size}, with no tail of an older, longer text     *)
(* left behind by a writer that opened the file without truncating it.      *)
DebrisIsBlamed ==
  \A v \in dir : ~Parsable(v) =>
    /\ meta[v] = None \/ text[meta[v]].len = 0
    /\ \E r \in Req : arg[r].vol = v /\ (Active(r) \/ pc[r] = "dead")

(* When calls race and such a tail is left, it is for a handler that wrote  *)
(* to a file it had not made itself.                                        *)
TornByAnother ==
  \A v \in Vol : meta[v] # None /\ text[meta[v]].len > 0 /\ ~Parsable(v) =>
    \E r \in Req : fd[r] = meta[v] /\ fd[r] # r

=============================================================================
