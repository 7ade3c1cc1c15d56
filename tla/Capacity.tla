-------------------------------- MODULE Capacity --------------------------------
(***************************************************************************)
(* The size of a volume: what the claim asks, what the controller makes of *)
(* it (getRoundedCapacity, src/pkg/driver/controller.go) and answers, what *)
(* the agent writes in the metadata, and what a snapshot and the volume    *)
(* restored from it are said to need.                                      *)
(***************************************************************************)
EXTENDS Integers

CONSTANTS
  Claim, Nothing,
  Size,      \* what claims ask
  Mi, Gi,
  Word,      \* an int64 is in -Word .. Word - 1, an uint64 in 0 .. 2 * Word - 1
  MaxLosses  \* bound on the calls that time out

ASSUME CapacityAssumption ==
  /\ Mi \in Nat \ {0} /\ Gi \in Nat \ {0} /\ Mi < Gi /\ Gi < Word /\ Word \in Nat
  /\ Size \subseteq 1 .. Word - 1
  /\ Nothing \notin Claim /\ "snapshot" \notin Claim \cup {Nothing}
  /\ MaxLosses \in Nat

VARIABLES
  asked,  \* the size each claim asks
  from,   \* what its volume is copied from: a claim's, the snapshot, Nothing
  pv,     \* the capacity of its PV, which is what the controller answered; 0: none
  shows,  \* the capacity in the status of the claim
  meta,   \* the size in its volume's meta.json; 0: there is no volume
  call,   \* the size of the expansion that is called for; 0: none
  written,\* the claims whose expansion is written and not yet answered
  late,   \* the sizes of those that timed out and that the agent has still to do
  snap,   \* the snapshot: of which claim, its metadata, and what is known of it
  losses

vars == <<asked, from, pv, shows, meta, call, written, late, snap, losses>>

Int64  == -Word .. Word - 1
Uint64 == 0 .. 2 * Word - 1
NoSnap == [of |-> Nothing, meta |-> 0, source |-> 0, ready |-> FALSE, restore |-> 0]

TypeOK ==
  /\ asked \in [Claim -> Size \cup {0}]
  /\ from \in [Claim -> Claim \cup {"snapshot", Nothing}]
  /\ pv \in [Claim -> Int64] /\ shows \in [Claim -> Int64]
  /\ meta \in [Claim -> Uint64]
  /\ call \in [Claim -> Size \cup {0}]
  /\ written \subseteq {c \in Claim : call[c] # 0}
  /\ late \in [Claim -> SUBSET Uint64]
  /\ snap \in [of : Claim \cup {Nothing}, meta : Uint64, source : Int64,
               ready : BOOLEAN, restore : Int64]
  /\ losses \in 0 .. MaxLosses

Init ==
  /\ asked = [c \in Claim |-> 0] /\ from = [c \in Claim |-> Nothing]
  /\ pv = [c \in Claim |-> 0] /\ shows = [c \in Claim |-> 0]
  /\ meta = [c \in Claim |-> 0]
  /\ call = [c \in Claim |-> 0] /\ late = [c \in Claim |-> {}] /\ written = {}
  /\ snap = NoSnap
  /\ losses = 0

-----------------------------------------------------------------------------
(* Integers of Go: an int64 wraps, / truncates, uint64() keeps the bits.   *)
Wrap(n)     == ((n + Word) % (2 * Word)) - Word
Unsigned(n) == n % (2 * Word)
Divide(n, d) == IF n >= 0 THEN n \div d ELSE -((-n) \div d)

UpTo(size, unit) == Wrap(Divide(Wrap(size + unit - 1), unit) * unit)

RoundDown(size) ==           \* a slip: what is over a unit is dropped
  IF size > Gi THEN Divide(size, Gi) * Gi ELSE UpTo(size, Mi)

getRoundedCapacity(size) == IF size > Gi THEN UpTo(size, Gi) ELSE UpTo(size, Mi)

-----------------------------------------------------------------------------
(* Users and the provisioner: a claim that is copied asks no less than its *)
(* source is said to need.                                                 *)
Needed(s) == IF s = Nothing THEN 0 ELSE IF s = "snapshot" THEN snap.restore ELSE pv[s]

Usable(s) ==
  \/ s = Nothing
  \/ s = "snapshot" /\ snap.ready
  \/ s \in Claim /\ shows[s] # 0

ClaimMade(c) ==
  /\ asked[c] = 0
  /\ \E n \in Size, s \in (Claim \ {c}) \cup {"snapshot", Nothing} :
       /\ Usable(s) /\ n >= Needed(s)
       /\ asked' = [asked EXCEPT ![c] = n]
       /\ from' = [from EXCEPT ![c] = s]
  /\ UNCHANGED <<pv, shows, meta, call, written, late, snap, losses>>

Enlarged(c) ==
  /\ shows[c] # 0
  /\ \E n \in Size : n > asked[c] /\ asked' = [asked EXCEPT ![c] = n]
  /\ UNCHANGED <<from, pv, shows, meta, call, written, late, snap, losses>>

SnapshotAsked(c) ==
  /\ snap = NoSnap /\ shows[c] # 0
  /\ snap' = [snap EXCEPT !.of = c]
  /\ UNCHANGED <<asked, from, pv, shows, meta, call, written, late, losses>>

Lost == losses < MaxLosses /\ losses' = losses + 1

-----------------------------------------------------------------------------
(* The metadata of a copy has the size its source's has.                   *)
Written(c) ==
  IF meta[c] # 0 THEN meta[c]
  ELSE CASE from[c] = Nothing    -> Unsigned(getRoundedCapacity(asked[c]))
         [] from[c] = "snapshot" -> snap.meta
         [] from[c] \in Claim    -> meta[from[c]]

RefuseExisting(c) ==         \* a slip: a volume that is there is an error
  /\ asked[c] # 0 /\ pv[c] = 0 /\ meta[c] = 0
  /\ meta' = [meta EXCEPT ![c] = Written(c)]
  /\ \/ pv' = [pv EXCEPT ![c] = getRoundedCapacity(asked[c])] /\ UNCHANGED losses
     \/ Lost /\ UNCHANGED pv
  /\ UNCHANGED <<asked, from, shows, call, written, late, snap>>

(* CreateVolume, answered or not; the second call finds the volume.        *)
CreateVolume(c) ==
  /\ asked[c] # 0 /\ pv[c] = 0
  /\ meta' = [meta EXCEPT ![c] = Written(c)]
  /\ \/ pv' = [pv EXCEPT ![c] = getRoundedCapacity(asked[c])] /\ UNCHANGED losses
     \/ Lost /\ UNCHANGED pv
  /\ UNCHANGED <<asked, from, shows, call, written, late, snap>>

(* The resizer calls for one size at a time.                               *)
ResizerCalls(c) ==
  /\ call[c] = 0 /\ shows[c] # 0 /\ asked[c] > pv[c]
  /\ call' = [call EXCEPT ![c] = asked[c]]
  /\ UNCHANGED <<asked, from, pv, shows, meta, written, late, snap, losses>>

(* The agent writes the metadata, before the deadline or after it.         *)
ControllerExpandVolume(c) ==
  LET n == Unsigned(getRoundedCapacity(call[c])) IN
  /\ call[c] # 0 /\ c \notin written
  /\ \/ /\ meta' = [meta EXCEPT ![c] = n]
        /\ written' = written \cup {c}
        /\ UNCHANGED <<call, late, losses>>
     \/ /\ Lost
        /\ late' = [late EXCEPT ![c] = @ \cup {n}]
        /\ call' = [call EXCEPT ![c] = 0]
        /\ UNCHANGED <<meta, written>>
  /\ UNCHANGED <<asked, from, pv, shows, snap>>

Answered(c) ==
  /\ call' = [call EXCEPT ![c] = 0]
  /\ written' = written \ {c}

AnswersUnwritten(c) ==       \* a slip: the agent's error is not returned
  /\ call[c] # 0 /\ Answered(c)
  /\ pv' = [pv EXCEPT ![c] = getRoundedCapacity(call[c])]
  /\ UNCHANGED <<asked, from, shows, meta, late, snap, losses>>

ExpandAnswered(c) ==
  /\ c \in written /\ Answered(c)
  /\ \/ pv' = [pv EXCEPT ![c] = getRoundedCapacity(call[c])] /\ UNCHANGED losses
     \/ Lost /\ UNCHANGED pv
  /\ UNCHANGED <<asked, from, shows, meta, late, snap>>

(* The agent's handler outlives the call.                                  *)
ExpandedLate(c) ==
  /\ \E n \in late[c] : /\ meta' = [meta EXCEPT ![c] = n]
                        /\ late' = [late EXCEPT ![c] = @ \ {n}]
  /\ UNCHANGED <<asked, from, pv, shows, call, written, snap, losses>>

(* NodeExpandVolume answers what it was asked, the capacity of the PV; a   *)
(* claim that is bound shows it at once.                                   *)
NodeExpandVolume(c) ==
  /\ shows[c] # pv[c]
  /\ shows' = [shows EXCEPT ![c] = pv[c]]
  /\ UNCHANGED <<asked, from, pv, meta, call, written, late, snap, losses>>

SnapshotUnsized ==           \* a slip: the answer's size is not set
  LET c == snap.of IN
  /\ c # Nothing /\ ~snap.ready
  /\ snap' = [snap EXCEPT !.meta = meta[c], !.source = pv[c], !.ready = TRUE]
  /\ UNCHANGED <<asked, from, pv, shows, meta, call, written, late, losses>>

(* CreateSnapshot: of a snapshot that is there already the size is 0.      *)
CreateSnapshot ==
  LET c == snap.of
      made == IF snap.meta = 0 THEN [snap EXCEPT !.meta = meta[c], !.source = pv[c]] ELSE snap
      size == IF snap.meta = 0 THEN Wrap(meta[c]) ELSE 0 IN
  /\ c # Nothing /\ ~snap.ready
  /\ \/ snap' = [made EXCEPT !.ready = TRUE, !.restore = size] /\ UNCHANGED losses
     \/ snap' = made /\ Lost
  /\ UNCHANGED <<asked, from, pv, shows, meta, call, written, late>>

-----------------------------------------------------------------------------
Server(c) ==
  \/ CreateVolume(c) \/ ResizerCalls(c)
  \/ ControllerExpandVolume(c) \/ ExpandAnswered(c) \/ NodeExpandVolume(c)

Next ==
  \/ \E c \in Claim :
       ClaimMade(c) \/ Enlarged(c) \/ SnapshotAsked(c) \/ Server(c) \/ ExpandedLate(c)
  \/ CreateSnapshot

Spec == Init /\ [][Next]_vars

(* The sidecars and the kubelet repeat their calls; handlers run.          *)
FairSpec ==
  /\ Spec
  /\ \A c \in Claim : WF_vars(Server(c)) /\ WF_vars(ExpandedLate(c))

-----------------------------------------------------------------------------
(* "Volume MUST be at least this big." (csi.pb.go:1455): the capacity that *)
(* is answered is no less than what was asked.                             *)
AtLeastAsked ==
  [][\A c \in Claim :
       pv'[c] # pv[c] => pv'[c] >= IF pv[c] = 0 THEN asked[c] ELSE call[c]]_vars

(* The metadata of a volume that is no copy says the capacity of its PV,   *)
(* but for an expansion that is being answered or one that timed out.      *)
MetaIsPV ==
  \A c \in Claim :
    pv[c] # 0 /\ from[c] = Nothing =>
      meta[c] = Unsigned(pv[c]) \/ c \in written \/ losses > 0

(* A volume restored from a snapshot is no smaller than the volume it was  *)
(* taken of, unless that one was itself a copy, or a call was lost: the    *)
(* size of a snapshot is then less than that, or 0.                        *)
RestoredFits ==
  \A c \in Claim :
    from[c] = "snapshot" /\ pv[c] # 0 =>
      \/ pv[c] >= snap.source
      \/ losses > 0 \/ from[snap.of] # Nothing

(* A claim that asks more comes to show it.                                *)
ExpansionEnds == \A c \in Claim : asked[c] # 0 ~> shows[c] >= asked[c]

=============================================================================
