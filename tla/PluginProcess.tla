----------------------------- MODULE PluginProcess -----------------------------
(***************************************************************************)
(* The processes of the plugin on one node, from main.run                  *)
(* (src/cmd/csi-plugin/main.go) over driver.New and Run (src/pkg/driver)   *)
(* to the servers they start: a controller waits for its informers and     *)
(* serves CSI on a unix socket; an agent serves CSI on a unix socket and   *)
(* the volume service, and its metrics if asked to, on TCP ports.  Of what *)
(* is not the program's, the kubelet starts containers, starts them again, *)
(* sends SIGTERM when a pod is deleted, and kills.                         *)
(***************************************************************************)
EXTENDS Naturals

CONSTANTS
  Process,     \* the containers the node runs, sooner or later
  Controller,  \* those with --driver-mode=controller; the others are agents
  Endpoint,    \* --endpoint: the socket file of each
  Ports,       \* the TCP ports each opens: none, 9091, and --listen-address
  Nobody,
  MaxCrashes   \* bound on the exits the program does not ask for

ASSUME PluginProcessAssumption ==
  /\ Controller \subseteq Process /\ Nobody \notin Process
  /\ DOMAIN Endpoint = Process /\ DOMAIN Ports = Process
  /\ MaxCrashes \in Nat

Agent == Process \ Controller
Files == {Endpoint[p] : p \in Process}
AllPorts == UNION {Ports[p] : p \in Process}

VARIABLES
  pod,      \* of each container
  at,       \* how far main of each has come
  csi,      \* its goroutine serve
  informers,\* what its listers show
  opening,  \* the ports its goroutines have still to open
  file,     \* whose listener each socket file was made for
  port,     \* who listens on each port
  crashes

pvars == <<pod, at, csi, informers, opening, file, port, crashes>>

ProcessTypeOK ==
  /\ pod \in [Process -> {"none", "wanted", "ending", "gone"}]
  /\ at \in [Process -> {"down", "sync", "wait"}]
  /\ csi \in [Process -> {"off", "remove", "listen", "on"}]
  /\ informers \in [Process -> {"none", "filling", "live", "frozen", "cut"}]
  /\ opening \in [Process -> SUBSET AllPorts]
  /\ file \in [Files -> Process \cup {Nobody}]
  /\ port \in [AllPorts -> Process \cup {Nobody}]
  /\ crashes \in 0 .. MaxCrashes

(* The flags of main are the constants.                                    *)
ProcessInit ==
  /\ pod = [p \in Process |-> "none"]
  /\ at = [p \in Process |-> "down"]
  /\ csi = [p \in Process |-> "off"]
  /\ informers = [p \in Process |-> "none"]
  /\ opening = [p \in Process |-> {}]
  /\ file = [f \in Files |-> Nobody]
  /\ port = [x \in AllPorts |-> Nobody]
  /\ crashes = 0

-----------------------------------------------------------------------------
(* The process is gone, and its listeners with it; the file of its socket  *)
(* stays.                                                                  *)
Ends(p) ==
  /\ at' = [at EXCEPT ![p] = "down"]
  /\ csi' = [csi EXCEPT ![p] = "off"]
  /\ informers' = [informers EXCEPT ![p] = "none"]
  /\ opening' = [opening EXCEPT ![p] = {}]
  /\ port' = [x \in AllPorts |-> IF port[x] = p THEN Nobody ELSE port[x]]

EndsUnlinking(p) ==          \* a slip: its listener is closed, which unlinks the path
  /\ Ends(p)
  /\ file' = [file EXCEPT ![Endpoint[p]] = Nobody]

Exit(p) == Ends(p) /\ UNCHANGED file

(* driver.New: a controller waits for its informers first, an agent starts *)
(* its TCP servers and, in Run, serve.                                     *)
New(p) ==
  /\ pod[p] = "wanted" /\ at[p] = "down"
  /\ IF p \in Controller
     THEN /\ at' = [at EXCEPT ![p] = "sync"]
          /\ informers' = [informers EXCEPT ![p] = "filling"]
          /\ UNCHANGED <<csi, opening>>
     ELSE /\ at' = [at EXCEPT ![p] = "wait"]
          /\ csi' = [csi EXCEPT ![p] = "remove"]
          /\ opening' = [opening EXCEPT ![p] = Ports[p]]
          /\ UNCHANGED informers
  /\ UNCHANGED <<pod, file, port, crashes>>

InformersFill(p) ==
  /\ informers[p] = "filling"
  /\ informers' = [informers EXCEPT ![p] = "live"]
  /\ UNCHANGED <<pod, at, csi, opening, file, port, crashes>>

Run(p) ==
  /\ at' = [at EXCEPT ![p] = "wait"]
  /\ csi' = [csi EXCEPT ![p] = "remove"]
  /\ UNCHANGED <<informers, opening, file, port>>

WaitUnchecked(p) ==          \* a slip: the answer of WaitForCacheSync is dropped
  /\ at[p] = "sync" /\ informers[p] # "filling"
  /\ Run(p)
  /\ UNCHANGED <<pod, crashes>>

(* init ends when WaitForCacheSync does: in Run, or, if the informers were *)
(* stopped, maybe, and if they were not full surely, in Fatalf.            *)
WaitForCacheSync(p) ==
  /\ at[p] = "sync"
  /\ \/ informers[p] \in {"live", "frozen"} /\ Run(p)
     \/ informers[p] \in {"cut", "frozen"} /\ Exit(p)
  /\ UNCHANGED <<pod, crashes>>

RemoveNothing(p) ==          \* a slip: what the last instance left stays
  /\ csi[p] = "remove"
  /\ csi' = [csi EXCEPT ![p] = "listen"]
  /\ UNCHANGED <<pod, at, informers, opening, file, port, crashes>>

(* serve, up to os.Remove and after it.                                    *)
RemoveSocket(p) ==
  /\ csi[p] = "remove"
  /\ csi' = [csi EXCEPT ![p] = "listen"]
  /\ file' = [file EXCEPT ![Endpoint[p]] = Nobody]
  /\ UNCHANGED <<pod, at, informers, opening, port, crashes>>

Listen(p) ==
  /\ csi[p] = "listen"
  /\ IF file[Endpoint[p]] # Nobody THEN Exit(p)
     ELSE /\ file' = [file EXCEPT ![Endpoint[p]] = p]
          /\ csi' = [csi EXCEPT ![p] = "on"]
          /\ UNCHANGED <<at, informers, opening, port>>
  /\ UNCHANGED <<pod, crashes>>

(* server.Start, and exposeMetrics: a port that is taken is fatal.         *)
OpenPort(p, x) ==
  /\ x \in opening[p]
  /\ IF port[x] # Nobody THEN Exit(p)
     ELSE /\ port' = [port EXCEPT ![x] = p]
          /\ opening' = [opening EXCEPT ![p] = @ \ {x}]
          /\ UNCHANGED <<at, csi, informers, file>>
  /\ UNCHANGED <<pod, crashes>>

-----------------------------------------------------------------------------
(* The kubelet's and the cluster's steps.  A Deployment surges; a          *)
(* DaemonSet replaces a pod that is being deleted.                         *)
Scheduled(p) ==
  /\ pod[p] = "none"
  /\ p \in Agent => \A q \in Agent : pod[q] # "wanted"
  /\ pod' = [pod EXCEPT ![p] = "wanted"]
  /\ UNCHANGED <<at, csi, informers, opening, file, port, crashes>>

Deleted(p) ==
  /\ pod[p] = "wanted"
  /\ pod' = [pod EXCEPT ![p] = "ending"]
  /\ UNCHANGED <<at, csi, informers, opening, file, port, crashes>>

(* SIGTERM ends an agent.  A controller's handler closes the informers'    *)
(* channel at the first one, which stops nothing else, and exits at the    *)
(* second.                                                                 *)
Signal(p) ==
  /\ pod[p] = "ending" /\ at[p] # "down"
  /\ IF p \in Controller /\ informers[p] \in {"filling", "live"}
     THEN /\ informers' = [informers EXCEPT ![p] = IF @ = "live" THEN "frozen" ELSE "cut"]
          /\ UNCHANGED <<at, csi, opening, file, port>>
     ELSE Exit(p)
  /\ UNCHANGED <<pod, crashes>>

(* The grace period is over.                                               *)
Kill(p) ==
  /\ pod[p] = "ending"
  /\ pod' = [pod EXCEPT ![p] = "gone"]
  /\ Exit(p)
  /\ UNCHANGED crashes

(* A panic, such as those of the listings, a refused connection to the API *)
(* server in init, a kill for memory.                                      *)
Crash(p) ==
  /\ crashes < MaxCrashes /\ at[p] # "down"
  /\ crashes' = crashes + 1
  /\ Exit(p)
  /\ UNCHANGED pod

-----------------------------------------------------------------------------
Step(p) ==
  \/ New(p) \/ InformersFill(p) \/ WaitForCacheSync(p)
  \/ RemoveSocket(p) \/ Listen(p)

ProcessNext ==
  \E p \in Process :
    \/ Scheduled(p) \/ Deleted(p) \/ Signal(p) \/ Kill(p) \/ Crash(p)
    \/ Step(p)
    \/ \E x \in AllPorts : OpenPort(p, x)

ProcessSpec == ProcessInit /\ [][ProcessNext]_pvars

(* Goroutines run; the API server answers; the kubelet starts a container  *)
(* that has exited and kills one whose grace is over.                      *)
ProcessFairSpec ==
  /\ ProcessSpec
  /\ \A p \in Process :
       /\ WF_pvars(Step(p))
       /\ WF_pvars(Kill(p))
       /\ \A x \in AllPorts : WF_pvars(OpenPort(p, x))

-----------------------------------------------------------------------------
Reachable(p) == csi[p] = "on" /\ file[Endpoint[p]] = p

(* No RPC reaches a controller whose listers have not been filled, and one *)
(* whose listers have stopped is being deleted ("returns true if it was    *)
(* successful, false if the controller should shutdown").                  *)
ServesSynced ==
  \A p \in Controller :
    csi[p] # "off" => /\ informers[p] \in {"live", "frozen"}
                      /\ informers[p] = "frozen" => pod[p] = "ending"

(* Who can be reached stays so, through the exits and restarts of others,  *)
(* until it exits or another process of its endpoint starts.               *)
ReachableUntilReplaced ==
  [][\A p \in Process :
       Reachable(p) => \/ Reachable(p)' \/ csi'[p] = "off"
                       \/ \E q \in Process \ {p} :
                            /\ Endpoint[q] = Endpoint[p]
                            /\ csi[q] = "remove" /\ csi'[q] = "listen"]_pvars

(* A container that is wanted comes to be reached, whatever stale file or  *)
(* older process there is at its endpoint and on its ports; and an agent   *)
(* that the kubelet can call is not left without the volume service: it    *)
(* comes to hold its ports, or exits.                                      *)
WantedServes ==
  /\ \A p \in Process :
       pod[p] = "wanted" /\ csi[p] # "on" ~> Reachable(p) \/ pod[p] # "wanted"
  /\ \A p \in Agent :
       csi[p] = "on" ~> at[p] = "down" \/ \A x \in Ports[p] : port[x] = p

=============================================================================
