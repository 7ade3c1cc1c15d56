------------------------- MODULE VolumeServerInvariant -------------------------
(***************************************************************************)
(* The inductive invariant of VolumeServer, whether calls race or not.     *)
(* TLC checks it (MCVolumeServer) and VolumeServerProofs proves it.        *)
(***************************************************************************)
EXTENDS VolumeServer

(* The name a meta.json inode belongs to.                                  *)
Home(i) == IF i \in Vol THEN i ELSE arg[i].vol

Changes == Running \ {"readdir", "getmeta"}   \* at work on arg[r].vol

(* What a handler's place says of its arguments.                           *)
ArgsOK ==
  \A r \in Req :
    /\ pc[r] = "idle" => arg[r] = NoArg
    /\ pc[r] \in Changes => arg[r].vol \in Vol
    /\ arg[r].op \in Copies => arg[r].src \in Vol
    /\ arg[r].op \in {"create", "expand"} => arg[r].size \in Size
    /\ pc[r] = "load" => arg[r].op \in Copies \cup {"expand"}
    /\ pc[r] \in {"mkdir", "mkmp"} => arg[r].op \in Copies \cup {"create"}
    /\ pc[r] \in {"walk", "copy"} => arg[r].op \in Copies
    /\ pc[r] \in {"open", "write"} => arg[r].op \in Copies \cup {"create", "expand"}
    /\ pc[r] = "unlink" => arg[r].op = "expand"
    /\ pc[r] \in {"scan", "rm", "rmmp"} => arg[r].op = "remove"
    /\ pc[r] \in {"readdir", "getmeta"} => arg[r].op = "list"
    /\ arg[r].op = "list" => arg[r].vol = None
    /\ pc[r] \in {"mkdir", "mkmp", "walk", "copy", "open", "write"}
         => arg[r].op \notin Copies \/ got[r] \in Size
    /\ pc[r] = "write" => fd[r] # None

(* An inode is linked, opened and written under one name only.             *)
OneHome ==
  /\ \A v \in Vol : meta[v] # None => Home(meta[v]) = v
  /\ \A r \in Req : fd[r] # None => arg[r].vol \in Vol /\ Home(fd[r]) = arg[r].vol
  /\ \A i \in Inode : text[i].obj # None => text[i].obj.vol = Home(i)

(* A handler that is about to write metadata has a mountpoint, or its      *)
(* name is being removed.                                                  *)
MountpointFirst ==
  \A r \in Req : pc[r] \in {"walk", "copy", "unlink", "open", "write"}
                   => arg[r].vol \in mp \/ RemoveBegun(arg[r].vol)

IInv == TypeOK /\ ArgsOK /\ OneHome /\ MountpointFirst /\ MetaCommitsMountpoint

-----------------------------------------------------------------------------
(* While no call has timed out and no system call fails, one handler at    *)
(* most is at work on a name, and writes to no meta.json but the one it    *)
(* has made.  Crashes and pods there may be.                               *)

Over == {"ok", "err", "dead"}

Orderly == Racing = FALSE /\ "io" \notin FaultKinds

OnePerName ==
  \A q, r \in Req :
    Active(q) /\ Active(r) /\ arg[q].vol = arg[r].vol /\ arg[r].vol # None => q = r

(* A text is whole or empty.                                               *)
Whole == \A i \in Inode : text[i].len = 0 <=> text[i].obj = None

(* Nothing is left of a directory, or of a mountpoint, that is not there.  *)
Tidy ==
  /\ \A v \in Vol \ dir : meta[v] = None /\ v \notin mp
  /\ \A v \in Vol \ mp : data[v] = {}

(* Who is to blame for debris: a handler that is beyond its first look at  *)
(* the metadata, or has died.                                              *)
Culprit(r, v) == arg[r].vol = v /\ (pc[r] = "dead" \/ (Active(r) /\ pc[r] # "load"))
Blamed == \A v \in dir : ~Parsable(v) => \E r \in Req : Culprit(r, v)

(* A handler's own inode is empty until it has written, and it has read no *)
(* size before it looks.                                                   *)
Fresh(r) ==
  /\ fd[r] \in {None, r}
  /\ pc[r] \notin Over => text[r].len = 0
  /\ pc[r] \in {"idle", "load"} => got[r] = None

(* What a handler at each place has made of its name.                      *)
Making(r) ==
  LET v == arg[r].vol IN arg[r].op \in Copies \cup {"create"} =>
    /\ pc[r] \in {"load", "mkdir"} => v \notin dir
    /\ pc[r] \in {"mkmp", "walk", "copy", "open"} => v \in dir /\ meta[v] = None
    /\ pc[r] \in {"walk", "copy", "open", "write"} => v \in mp
    /\ pc[r] = "write" => v \in dir /\ meta[v] = r /\ fd[r] = r

Expanding(r) ==
  LET v == arg[r].vol IN arg[r].op = "expand" =>
    /\ pc[r] = "unlink" => v \in dir /\ Parsable(v) /\ got[r] = text[meta[v]].obj.size
    /\ pc[r] = "open" => v \in dir /\ meta[v] = None
    /\ pc[r] = "write" => v \in dir /\ meta[v] = r /\ fd[r] = r
    /\ pc[r] \in {"unlink", "open", "write"} => got[r] \in Size

Removing(r) ==
  LET v == arg[r].vol IN
    /\ pc[r] \in {"rm", "rmmp"} /\ "meta" \notin todo[r] => meta[v] = None
    /\ pc[r] = "rm" /\ "mountpoint" \notin todo[r] => v \notin mp
    /\ pc[r] = "rmmp" => "mountpoint" \notin todo[r] /\ data[v] = {}

Placed(r) == Fresh(r) /\ Making(r) /\ Expanding(r) /\ Removing(r)

Serial == OnePerName /\ Whole /\ Tidy /\ Blamed /\ (\A r \in Req : Placed(r))

=============================================================================
