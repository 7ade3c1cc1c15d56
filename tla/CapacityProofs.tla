---------------------------- MODULE CapacityProofs ----------------------------
(***************************************************************************)
(* Proofs about Capacity, for any claims and sizes and any width of the    *)
(* integers: what rounding does to a size that leaves room for it, and     *)
(* what is known of sizes as long as it does.                              *)
(***************************************************************************)
EXTENDS Capacity, TLAPS

(* No claim asks a size that rounding carries past the largest int64.      *)
Room == \A n \in Size : n + Gi <= Word

Amount == 0 .. Word - 1

(* With room, no size is negative.                                         *)
Amounts ==
  /\ pv \in [Claim -> Amount] /\ shows \in [Claim -> Amount] /\ meta \in [Claim -> Amount]
  /\ late \in [Claim -> SUBSET Amount]
  /\ snap \in [of : Claim \cup {Nothing}, meta : Amount, source : Amount,
               ready : BOOLEAN, restore : Amount]

(* A claim is asked for, then has its PV, then shows it; an expansion asks *)
(* more than the PV has.                                                   *)
Stages ==
  \A c \in Claim :
    /\ pv[c] # 0 \/ from[c] # Nothing => asked[c] # 0
    /\ shows[c] # 0 \/ call[c] # 0 => pv[c] # 0
    /\ call[c] # 0 => call[c] > pv[c]

(* While no call is lost the metadata follows the PV, ahead of it only     *)
(* while an expansion is answered.                                         *)
Following ==
  losses = 0 =>
    \A c \in Claim :
      /\ late[c] = {}
      /\ pv[c] = 0 => meta[c] = 0
      /\ c \in written => meta[c] = getRoundedCapacity(call[c])

(* What is known of the snapshot, and of the claims restored from it.      *)
Snapshots ==
  /\ snap.of = Nothing => ~snap.ready
  /\ snap.of # Nothing => pv[snap.of] # 0
  /\ losses = 0 /\ ~snap.ready => snap.meta = 0
  /\ losses = 0 /\ snap.ready /\ from[snap.of] = Nothing => snap.source <= snap.restore
  /\ \A c \in Claim : from[c] = "snapshot" =>
       /\ snap.ready /\ asked[c] >= snap.restore
       /\ pv[c] # 0 => pv[c] >= snap.restore

IInv == TypeOK /\ Amounts /\ Stages /\ Following /\ Snapshots /\ MetaIsPV

-----------------------------------------------------------------------------
(* The integers of Go.                                                     *)
LEMMA Fits ==
  ASSUME NEW n \in Amount
  PROVE  Wrap(n) = n /\ Unsigned(n) = n
<1>1. Word \in Nat /\ n \in Nat /\ n < Word
  BY CapacityAssumption DEF Amount
<1>2. \A a, b \in Nat : a < b => a % b = a
  OBVIOUS
<1> QED BY <1>1, <1>2 DEF Wrap, Unsigned

LEMMA Remainder ==
  ASSUME NEW x \in Nat, NEW y \in Nat, y <= x, x < 2 * y
  PROVE  x % y = x - y
  OBVIOUS

LEMMA Quotient ==
  ASSUME NEW a \in Nat, NEW b \in Nat \ {0}
  PROVE  /\ a \div b \in Nat /\ (a \div b) * b \in Nat
         /\ (a \div b) * b <= a /\ a < (a \div b) * b + b
  OBVIOUS

(* (size + unit - 1) / unit * unit is the next multiple of the unit.       *)
LEMMA RoundsUp ==
  ASSUME NEW n \in Nat \ {0}, NEW unit \in Nat \ {0}, n + unit <= Word
  PROVE  /\ UpTo(n, unit) \in n .. Word - 1
         /\ UpTo(n, unit) < n + unit
         /\ \E k \in Nat : UpTo(n, unit) = k * unit
<1> DEFINE a == n + unit - 1
           k == a \div unit
<1>1. Word \in Nat /\ a \in Amount
  BY CapacityAssumption DEF Amount
<1>2. k \in Nat /\ k * unit \in Nat /\ k * unit <= a /\ a < k * unit + unit
  BY <1>1, Quotient DEF Amount
<1>3. k * unit \in n .. Word - 1 /\ k * unit < n + unit
  BY <1>1, <1>2 DEF Amount
<1>4. UpTo(n, unit) = k * unit
  <2>1. Wrap(a) = a /\ Wrap(k * unit) = k * unit
    BY <1>1, <1>2, <1>3, Fits DEF Amount
  <2>2. Divide(a, unit) = k
    BY <1>1 DEF Divide, Amount
  <2> QED BY <2>1, <2>2 DEF UpTo
<1> QED BY <1>2, <1>3, <1>4

-----------------------------------------------------------------------------
(* A size with room for it is rounded up, to a multiple of a mebibyte or,  *)
(* above one, of a gibibyte (getRoundedCapacity, controller.go:120), and   *)
(* by less than that.                                                      *)
THEOREM RoundedCapacity ==
  ASSUME NEW n \in Nat \ {0}, n + Gi <= Word
  PROVE  /\ getRoundedCapacity(n) \in n .. Word - 1
         /\ LET unit == IF n > Gi THEN Gi ELSE Mi IN
              /\ getRoundedCapacity(n) < n + unit
              /\ \E k \in Nat : getRoundedCapacity(n) = k * unit
<1>1. n + Mi <= Word /\ Mi \in Nat \ {0} /\ Gi \in Nat \ {0} /\ Word \in Nat
  BY CapacityAssumption
<1>2. CASE n > Gi
  BY <1>1, <1>2, RoundsUp DEF getRoundedCapacity
<1>3. CASE ~(n > Gi)
  BY <1>1, <1>3, RoundsUp DEF getRoundedCapacity
<1> QED BY <1>2, <1>3

(* A size without room is not: the sum overflows before it is divided, and *)
(* what is answered is no capacity at all (controller.go:124).             *)
THEOREM RoundingOverflows ==
  ASSUME NEW n \in Amount, n > Gi, n + Gi > Word
  PROVE  getRoundedCapacity(n) <= 0
<1> DEFINE a == n + Gi - 1
           k == (2 * Word - a) \div Gi
<1>1. /\ Word \in Nat /\ Gi \in Nat \ {0} /\ Gi < Word /\ n \in Nat
      /\ a \in Nat /\ Word <= a /\ a < 2 * Word
  BY CapacityAssumption DEF Amount
<1>2. Wrap(a) = a - 2 * Word
  <2> HIDE DEF a
  <2>1. PICK x : x = a + Word
    OBVIOUS
  <2>2. PICK y : y = 2 * Word
    OBVIOUS
  <2>3. x \in Nat /\ y \in Nat /\ y <= x /\ x < 2 * y /\ x - y - Word = a - 2 * Word
    BY <1>1, <2>1, <2>2
  <2>4. x % y = x - y
    BY <2>3, Remainder
  <2>5. Wrap(a) = (x % y) - Word
    BY <2>1, <2>2, Zenon DEF Wrap
  <2> QED BY <2>3, <2>4, <2>5, Zenon
<1>3. k \in Nat /\ k * Gi \in Nat /\ k * Gi <= 2 * Word - a
  BY <1>1, Quotient
<1>4. Divide(a - 2 * Word, Gi) = -k
  BY <1>1 DEF Divide
<1>5. (-k) * Gi \in -Word .. 0
  BY <1>1, <1>3
<1>6. Wrap((-k) * Gi) = (-k) * Gi
  <2>1. \A x, y \in Nat : x < y => x % y = x
    OBVIOUS
  <2>2. ((-k) * Gi + Word) % (2 * Word) = (-k) * Gi + Word
    BY <1>1, <1>5, <2>1
  <2> QED BY <1>1, <1>5, <2>2 DEF Wrap
<1>7. getRoundedCapacity(n) = (-k) * Gi
  BY <1>1, <1>2, <1>4, <1>6 DEF getRoundedCapacity, UpTo
<1> QED BY <1>1, <1>5, <1>7

LEMMA Asked ==
  ASSUME Room, NEW n \in Size
  PROVE  /\ n \in Nat \ {0} /\ getRoundedCapacity(n) \in Amount
         /\ getRoundedCapacity(n) >= n /\ getRoundedCapacity(n) # 0
         /\ Unsigned(getRoundedCapacity(n)) = getRoundedCapacity(n)
<1>1. n \in Nat \ {0} /\ n + Gi <= Word /\ Word \in Nat
  BY CapacityAssumption DEF Room
<1>2. getRoundedCapacity(n) \in n .. Word - 1
  BY <1>1, RoundedCapacity
<1>3. getRoundedCapacity(n) \in Amount
  BY <1>1, <1>2 DEF Amount
<1> QED BY <1>1, <1>2, <1>3, Fits

-----------------------------------------------------------------------------
LEMMA InitIInv == Init => IInv
<1> SUFFICES ASSUME Init PROVE IInv
  OBVIOUS
<1>1. Word \in Nat \ {0} /\ MaxLosses \in Nat
  BY CapacityAssumption
<1>2. 0 \in Amount /\ 0 \in Int64 /\ 0 \in Uint64
  BY <1>1 DEF Amount, Int64, Uint64
<1>3. TypeOK
  BY <1>1, <1>2 DEF Init, NoSnap, TypeOK
<1>4. Amounts
  BY <1>2 DEF Init, NoSnap, Amounts
<1>5. Stages /\ Following /\ Snapshots /\ MetaIsPV
  BY CapacityAssumption DEF Init, NoSnap, Stages, Following, Snapshots, MetaIsPV
<1> QED BY <1>3, <1>4, <1>5 DEF IInv

(* What the steps have in common.                                          *)
LEMMA Facts ==
  ASSUME Room, IInv
  PROVE  /\ Word \in Nat \ {0} /\ MaxLosses \in Nat /\ losses \in Nat
         /\ Nothing \notin Claim /\ "snapshot" \notin Claim \cup {Nothing}
         /\ Amount \subseteq Int64 /\ Amount \subseteq Uint64 /\ 0 \in Amount
         /\ \A n \in Amount : n \in Nat
         /\ \A n \in Size : n \in Nat /\ n # 0
  BY CapacityAssumption DEF Amount, Int64, Uint64, IInv, TypeOK

(* What is asked of a claim changes: it is made, or enlarged.              *)
LEMMA AskedKeeps ==
  ASSUME Room, IInv, NEW c \in Claim, ClaimMade(c) \/ Enlarged(c)
  PROVE  IInv'
<1>1. PICK n \in Size :
        /\ asked' = [asked EXCEPT ![c] = n]
        /\ asked[c] = 0 \/ n > asked[c]
        /\ \/ UNCHANGED from
           \/ /\ asked[c] = 0
              /\ \E s \in (Claim \ {c}) \cup {"snapshot", Nothing} :
                   /\ from' = [from EXCEPT ![c] = s]
                   /\ s = "snapshot" => snap.ready /\ n >= snap.restore
        /\ UNCHANGED <<pv, shows, meta, call, written, late, snap, losses>>
  BY Facts DEF ClaimMade, Enlarged, Usable, Needed
<1>2. TypeOK' /\ Amounts'
  BY <1>1 DEF IInv, TypeOK, Amounts
<1>3. Stages' /\ Following'
  BY <1>1, Facts DEF IInv, TypeOK, Stages, Following
<1>4. asked[c] = 0 => pv[c] = 0 /\ snap.of # c
  BY Facts DEF IInv, Stages, Snapshots
<1>5. Snapshots'
  <2>1. snap.of # Nothing => snap.of \in Claim
    BY DEF IInv, TypeOK
  <2>2. snap.ready /\ from'[snap.of] = Nothing => from[snap.of] = Nothing
    BY <1>1, <1>4, <2>1 DEF IInv, TypeOK, Snapshots
  <2>3. ASSUME NEW d \in Claim, from'[d] = "snapshot"
        PROVE  /\ snap.ready /\ asked'[d] >= snap.restore
               /\ pv[d] # 0 => pv[d] >= snap.restore
    BY <1>1, <1>4, <2>3, Facts DEF IInv, TypeOK, Amounts, Snapshots
  <2> QED BY <1>1, <2>2, <2>3 DEF IInv, Snapshots
<1>6. MetaIsPV'
  BY <1>1, <1>4 DEF IInv, TypeOK, MetaIsPV
<1> QED BY <1>2, <1>3, <1>5, <1>6 DEF IInv

(* The controller makes the volume, or finds it, and is heard or not.      *)
LEMMA CreateKeeps ==
  ASSUME Room, IInv, NEW c \in Claim, CreateVolume(c)
  PROVE  IInv'
<1>1. PICK m : m = Written(c)
  OBVIOUS
<1>2. /\ asked[c] \in Size /\ pv[c] = 0 /\ shows[c] = 0 /\ call[c] = 0
      /\ c \notin written /\ snap.of # c
  BY Facts DEF CreateVolume, IInv, TypeOK, Stages, Snapshots
<1>3. PICK r : r = getRoundedCapacity(asked[c])
  OBVIOUS
<1>4. r \in Amount /\ r >= asked[c] /\ r # 0 /\ Unsigned(r) = r
  BY <1>2, <1>3, Asked
<1>5. m \in Amount
  <2>1. CASE meta[c] # 0
    BY <1>1, <2>1 DEF Written, IInv, Amounts
  <2>2. CASE meta[c] = 0 /\ from[c] = Nothing
    BY <1>1, <1>3, <1>4, <2>2, Facts DEF Written
  <2>3. CASE meta[c] = 0 /\ from[c] = "snapshot"
    BY <1>1, <2>3, Facts DEF Written, IInv, Amounts
  <2>4. CASE meta[c] = 0 /\ from[c] \in Claim
    BY <1>1, <2>4, Facts DEF Written, IInv, Amounts
  <2> QED BY <2>1, <2>2, <2>3, <2>4 DEF IInv, TypeOK
<1>6. losses = 0 /\ from[c] = Nothing => m = r
  BY <1>1, <1>2, <1>3, <1>4, Facts DEF Written, IInv, Following
<1>7. /\ meta' = [meta EXCEPT ![c] = m]
      /\ \/ pv' = [pv EXCEPT ![c] = r] /\ losses' = losses
         \/ pv' = pv /\ losses < MaxLosses /\ losses' = losses + 1
      /\ UNCHANGED <<asked, from, shows, call, written, late, snap>>
  BY <1>1, <1>3 DEF CreateVolume, Lost
<1>8. TypeOK' /\ Amounts'
  BY <1>4, <1>5, <1>7, Facts DEF IInv, TypeOK, Amounts
<1>9. Stages'
  BY <1>2, <1>4, <1>7, Facts DEF IInv, TypeOK, Stages
<1>10. Following'
  BY <1>2, <1>4, <1>7, Facts DEF IInv, TypeOK, Amounts, Following
<1>11. Snapshots'
  <2>1. snap.of # Nothing => pv'[snap.of] # 0
    BY <1>2, <1>7 DEF IInv, TypeOK, Snapshots
  <2>2. losses' = 0 => losses = 0
    BY <1>7, Facts
  <2>3. ASSUME NEW d \in Claim, from[d] = "snapshot"
        PROVE  /\ snap.ready /\ asked[d] >= snap.restore
               /\ pv'[d] # 0 => pv'[d] >= snap.restore
    <3>1. snap.ready /\ asked[d] >= snap.restore /\ (pv[d] # 0 => pv[d] >= snap.restore)
      BY <2>3 DEF IInv, Snapshots
    <3>2. pv'[d] = pv[d] \/ (d = c /\ pv'[d] = r)
      BY <1>7 DEF IInv, Amounts
    <3>3. asked[c] \in Nat /\ r \in Nat /\ snap.restore \in Nat
      BY <1>2, <1>4, Facts DEF IInv, Amounts
    <3> QED BY <1>4, <3>1, <3>2, <3>3
  <2> QED BY <1>7, <2>1, <2>2, <2>3 DEF IInv, Snapshots
<1>12. MetaIsPV'
  <2>1. losses' = losses \/ losses' > 0
    BY <1>7, Facts
  <2> QED BY <1>2, <1>4, <1>6, <1>7, <2>1, Facts DEF IInv, TypeOK, Amounts, MetaIsPV
<1> QED BY <1>8, <1>9, <1>10, <1>11, <1>12 DEF IInv

(* The resizer's call, from the controller to the agent and back.          *)
LEMMA ExpandKeeps ==
  ASSUME Room, IInv, NEW c \in Claim,
         ResizerCalls(c) \/ ControllerExpandVolume(c) \/ ExpandedLate(c)
  PROVE  IInv'
<1>1. CASE ResizerCalls(c)
  <2>1. /\ call[c] = 0 /\ shows[c] # 0 /\ asked[c] > pv[c]
        /\ call' = [call EXCEPT ![c] = asked[c]]
        /\ UNCHANGED <<asked, from, pv, shows, meta, written, late, snap, losses>>
    BY <1>1 DEF ResizerCalls
  <2>2. pv[c] # 0 /\ asked[c] # 0 /\ c \notin written
    BY <2>1 DEF IInv, TypeOK, Stages
  <2>3. TypeOK' /\ Amounts' /\ Stages' /\ Following'
    BY <2>1, <2>2 DEF IInv, TypeOK, Amounts, Stages, Following
  <2>4. Snapshots' /\ MetaIsPV'
    BY <2>1 DEF IInv, Snapshots, MetaIsPV
  <2> QED BY <2>3, <2>4 DEF IInv
<1>2. CASE ControllerExpandVolume(c)
  <2>1. PICK n : n = getRoundedCapacity(call[c])
    OBVIOUS
  <2>2. call[c] \in Size /\ call[c] # 0 /\ c \notin written
    BY <1>2 DEF ControllerExpandVolume, IInv, TypeOK
  <2>3. n \in Amount /\ Unsigned(n) = n
    BY <2>1, <2>2, Asked
  <2>4. /\ UNCHANGED <<asked, from, pv, shows, snap>>
        /\ \/ /\ meta' = [meta EXCEPT ![c] = n] /\ written' = written \cup {c}
              /\ UNCHANGED <<call, late, losses>>
           \/ /\ losses < MaxLosses /\ losses' = losses + 1
              /\ late' = [late EXCEPT ![c] = @ \cup {n}]
              /\ call' = [call EXCEPT ![c] = 0]
              /\ UNCHANGED <<meta, written>>
    BY <1>2, <2>1, <2>3 DEF ControllerExpandVolume, Lost
  <2>5. TypeOK' /\ Amounts'
    BY <2>2, <2>3, <2>4, Facts DEF IInv, TypeOK, Amounts
  <2>6. Stages' /\ Snapshots'
    BY <2>4, Facts DEF IInv, TypeOK, Stages, Snapshots
  <2>7. Following' /\ MetaIsPV'
    <3>1. pv[c] # 0
      BY <2>2 DEF IInv, Stages
    <3> QED BY <2>1, <2>2, <2>3, <2>4, <3>1, Facts
            DEF IInv, TypeOK, Amounts, Following, MetaIsPV
  <2> QED BY <2>5, <2>6, <2>7 DEF IInv
<1>3. CASE ExpandedLate(c)
  <2>1. PICK n \in late[c] :
          /\ meta' = [meta EXCEPT ![c] = n] /\ late' = [late EXCEPT ![c] = @ \ {n}]
          /\ UNCHANGED <<asked, from, pv, shows, call, written, snap, losses>>
    BY <1>3 DEF ExpandedLate
  <2>2. n \in Amount /\ losses > 0
    BY <2>1, Facts DEF IInv, Amounts, Following
  <2>3. TypeOK' /\ Amounts'
    BY <2>1, <2>2, Facts DEF IInv, TypeOK, Amounts
  <2>4. Stages' /\ Snapshots' /\ Following' /\ MetaIsPV'
    BY <2>1, <2>2, Facts DEF IInv, Stages, Snapshots, Following, MetaIsPV
  <2> QED BY <2>3, <2>4 DEF IInv
<1> QED BY <1>1, <1>2, <1>3

LEMMA AnswerKeeps ==
  ASSUME Room, IInv, NEW c \in Claim, ExpandAnswered(c)
  PROVE  IInv'
<1>1. PICK n : n = getRoundedCapacity(call[c])
  OBVIOUS
<1>2. c \in written /\ call[c] \in Size /\ call[c] # 0 /\ call[c] > pv[c] /\ pv[c] # 0
  BY DEF ExpandAnswered, IInv, TypeOK, Stages
<1>3. n \in Amount /\ Unsigned(n) = n /\ n >= call[c] /\ n # 0
  BY <1>1, <1>2, Asked
<1>4. /\ call' = [call EXCEPT ![c] = 0] /\ written' = written \ {c}
      /\ \/ pv' = [pv EXCEPT ![c] = n] /\ losses' = losses
         \/ pv' = pv /\ losses < MaxLosses /\ losses' = losses + 1
      /\ UNCHANGED <<asked, from, shows, meta, late, snap>>
  BY <1>1 DEF ExpandAnswered, Answered, Lost
<1>5. TypeOK' /\ Amounts'
  BY <1>3, <1>4, Facts DEF IInv, TypeOK, Amounts
<1>6. Stages'
  BY <1>2, <1>3, <1>4, Facts DEF IInv, TypeOK, Amounts, Stages
<1>7. Following' /\ MetaIsPV'
  BY <1>1, <1>2, <1>3, <1>4, Facts DEF IInv, TypeOK, Amounts, Following, MetaIsPV
<1>8. Snapshots'
  <2>1. \A d \in Claim : pv'[d] = pv[d] \/ (d = c /\ pv'[d] = n)
    BY <1>4 DEF IInv, Amounts
  <2>2. n >= pv[c]
    BY <1>2, <1>3, Facts DEF IInv, Amounts
  <2>3. losses' = 0 => losses = 0
    BY <1>4, Facts
  <2>4. snap.of # Nothing => pv'[snap.of] # 0
    BY <1>3, <2>1 DEF IInv, TypeOK, Snapshots
  <2>5. ASSUME NEW d \in Claim, from[d] = "snapshot", pv'[d] # 0
        PROVE  pv'[d] >= snap.restore
    <3>1. pv[d] # 0 => pv[d] >= snap.restore
      BY <2>5 DEF IInv, Snapshots
    <3>2. pv[c] \in Nat /\ n \in Nat /\ snap.restore \in Nat
      BY <1>3, Facts DEF IInv, Amounts
    <3> QED BY <1>2, <2>1, <2>2, <2>5, <3>1, <3>2
  <2> QED BY <1>4, <2>3, <2>4, <2>5 DEF IInv, Snapshots
<1> QED BY <1>5, <1>6, <1>7, <1>8 DEF IInv

(* The claim shows what its PV has, and a snapshot is taken of it.         *)
LEMMA ShowsKeeps ==
  ASSUME Room, IInv, NEW c \in Claim, NodeExpandVolume(c) \/ SnapshotAsked(c)
  PROVE  IInv'
<1>1. CASE NodeExpandVolume(c)
  <2>1. /\ shows' = [shows EXCEPT ![c] = pv[c]]
        /\ UNCHANGED <<asked, from, pv, meta, call, written, late, snap, losses>>
    BY <1>1 DEF NodeExpandVolume
  <2>2. TypeOK' /\ Amounts'
    BY <2>1 DEF IInv, TypeOK, Amounts
  <2>3. Stages' /\ Following' /\ Snapshots' /\ MetaIsPV'
    BY <2>1 DEF IInv, Amounts, Stages, Following, Snapshots, MetaIsPV
  <2> QED BY <2>2, <2>3 DEF IInv
<1>2. CASE SnapshotAsked(c)
  <2>1. /\ snap = NoSnap /\ pv[c] # 0 /\ snap' = [snap EXCEPT !.of = c]
        /\ UNCHANGED <<asked, from, pv, shows, meta, call, written, late, losses>>
    BY <1>2 DEF SnapshotAsked, IInv, Stages
  <2>2. TypeOK' /\ Amounts'
    BY <2>1 DEF IInv, TypeOK, Amounts
  <2>3. Stages' /\ Following' /\ MetaIsPV'
    BY <2>1 DEF IInv, Stages, Following, MetaIsPV
  <2>4. Snapshots'
    BY <2>1, Facts DEF NoSnap, IInv, Snapshots
  <2> QED BY <2>2, <2>3, <2>4 DEF IInv
<1> QED BY <1>1, <1>2

LEMMA SnapshotKeeps ==
  ASSUME Room, IInv, CreateSnapshot
  PROVE  IInv'
<1> DEFINE c == snap.of
<1>1. c \in Claim /\ ~snap.ready /\ pv[c] # 0
  BY DEF CreateSnapshot, IInv, TypeOK, Snapshots
<1>2. meta[c] \in Amount /\ pv[c] \in Amount /\ Wrap(meta[c]) = meta[c]
  BY <1>1, Fits DEF IInv, Amounts
<1> DEFINE Snap == [of : Claim \cup {Nothing}, meta : Amount, source : Amount,
                    ready : BOOLEAN, restore : Amount]
<1>3. PICK made, size :
        /\ snap.meta = 0 => /\ made = [snap EXCEPT !.meta = meta[c], !.source = pv[c]]
                            /\ size = meta[c]
        /\ snap.meta # 0 => made = snap /\ size = 0
        /\ \/ snap' = [made EXCEPT !.ready = TRUE, !.restore = size] /\ losses' = losses
           \/ snap' = made /\ losses < MaxLosses /\ losses' = losses + 1
        /\ UNCHANGED <<asked, from, pv, shows, meta, call, written, late>>
  BY <1>2 DEF CreateSnapshot, Lost
<1>4. snap \in Snap /\ size \in Amount
  BY <1>2, <1>3, Facts DEF IInv, Amounts
<1>5. made \in Snap /\ made.of = c /\ (snap.meta = 0 => made.source = pv[c])
  BY <1>2, <1>3, <1>4
<1>6. PICK answered : answered = [made EXCEPT !.ready = TRUE, !.restore = size]
  OBVIOUS
<1>7. /\ answered \in Snap /\ answered.of = c /\ answered.ready = TRUE
      /\ answered.source = made.source /\ answered.restore = size
  <2>1. answered.of = c /\ answered.source = made.source /\ answered.restore = size
    BY <1>4, <1>5, <1>6
  <2>2. answered.ready = TRUE
    BY <1>5, <1>6
  <2>3. answered \in Snap
    BY <1>4, <1>5, <1>6
  <2> QED BY <2>1, <2>2, <2>3
<1>8. /\ snap' \in Snap /\ snap'.of = c
      /\ losses' = losses \/ (losses < MaxLosses /\ losses' = losses + 1)
      /\ losses' = losses => snap'.ready = TRUE
      /\ snap.meta = 0 /\ losses' = losses => snap'.source = pv[c] /\ snap'.restore = meta[c]
      /\ UNCHANGED <<asked, from, pv, shows, meta, call, written, late>>
  <2>1. losses \in Nat
    BY Facts
  <2>2. CASE snap' = answered /\ losses' = losses
    BY <1>3, <1>5, <1>7, <2>2
  <2>3. CASE snap' = made /\ losses' = losses + 1 /\ losses < MaxLosses
    BY <1>3, <1>5, <2>1, <2>3
  <2> QED BY <1>3, <1>6, <2>2, <2>3
<1>9. TypeOK' /\ Amounts'
  BY <1>8, Facts DEF Snap, IInv, TypeOK, Amounts
<1>10. Stages' /\ Following' /\ MetaIsPV'
  BY <1>8, Facts DEF IInv, Stages, Following, MetaIsPV
<1>11. Snapshots'
  <2>1. losses' = 0 => losses = 0 /\ losses' = losses /\ snap.meta = 0
    BY <1>1, <1>8, Facts DEF IInv, Snapshots
  <2>2. losses' = 0 /\ from[c] = Nothing => snap'.source <= snap'.restore
    <3>1. Unsigned(pv[c]) = pv[c]
      BY <1>2, Fits
    <3>2. c \in written => call[c] \in Size /\ call[c] > pv[c]
      BY <1>1 DEF IInv, TypeOK, Stages
    <3>3. losses = 0 /\ from[c] = Nothing => meta[c] >= pv[c]
      <4>1. CASE c \in written
        BY <1>1, <1>2, <3>2, <4>1, Asked, Facts DEF IInv, Following
      <4>2. CASE c \notin written
        BY <1>1, <1>2, <3>1, <4>2, Facts DEF IInv, MetaIsPV
      <4> QED BY <4>1, <4>2
    <3> QED BY <1>2, <1>8, <2>1, <3>3, Facts
  <2>3. \A d \in Claim : from[d] # "snapshot"
    BY <1>1 DEF IInv, Snapshots
  <2> QED BY <1>1, <1>8, <2>1, <2>2, <2>3, Facts DEF Snapshots
<1> QED BY <1>9, <1>10, <1>11 DEF IInv

LEMMA NextKeeps == ASSUME Room, IInv, [Next]_vars PROVE IInv'
<1>1. CASE \E c \in Claim : ClaimMade(c) \/ Enlarged(c)
  BY <1>1, AskedKeeps
<1>2. CASE \E c \in Claim : CreateVolume(c)
  BY <1>2, CreateKeeps
<1>3. CASE \E c \in Claim : ResizerCalls(c) \/ ControllerExpandVolume(c) \/ ExpandedLate(c)
  BY <1>3, ExpandKeeps
<1>4. CASE \E c \in Claim : ExpandAnswered(c)
  BY <1>4, AnswerKeeps
<1>5. CASE \E c \in Claim : NodeExpandVolume(c) \/ SnapshotAsked(c)
  BY <1>5, ShowsKeeps
<1>6. CASE CreateSnapshot
  BY <1>6, SnapshotKeeps
<1>7. CASE UNCHANGED vars
  BY <1>7 DEF vars, IInv, TypeOK, Amounts, Stages, Following, Snapshots, MetaIsPV
<1> QED BY <1>1, <1>2, <1>3, <1>4, <1>5, <1>6, <1>7 DEF Next, Server

-----------------------------------------------------------------------------
(* The invariant of sizes, for any number of claims.                       *)
THEOREM Invariance == ASSUME Room PROVE Spec => []IInv
<1>1. Init => IInv
  BY InitIInv
<1>2. IInv /\ [Next]_vars => IInv'
  BY NextKeeps
<1> QED BY <1>1, <1>2, PTL DEF Spec

(* What the agent writes is what the controller answers: the metadata of a *)
(* volume says the capacity of its PV, but for copies and lost calls.      *)
THEOREM MetadataFollows == ASSUME Room PROVE Spec => []MetaIsPV
<1>1. IInv => MetaIsPV
  BY DEF IInv
<1> QED BY <1>1, Invariance, PTL

(* A volume restored from a snapshot is as large as the one it was taken   *)
(* of, as the snapshot says its metadata's size and a claim may not ask    *)
(* less.                                                                   *)
THEOREM RestoresFit == ASSUME Room PROVE Spec => []RestoredFits
<1>1. IInv => RestoredFits
  <2> SUFFICES ASSUME IInv, NEW c \in Claim, from[c] = "snapshot", pv[c] # 0,
                      losses = 0, from[snap.of] = Nothing
               PROVE  pv[c] >= snap.source
    BY Facts DEF RestoredFits
  <2>1. pv[c] >= snap.restore /\ snap.source <= snap.restore
    BY DEF IInv, Snapshots
  <2> QED BY <2>1, Facts DEF IInv, Amounts
<1> QED BY <1>1, Invariance, PTL

(* What CreateVolume and ControllerExpandVolume answer is no less than     *)
(* what they were asked, given room.                                       *)
THEOREM AnswersEnough == ASSUME Room PROVE Spec => AtLeastAsked
<1> DEFINE Enough == \A c \in Claim :
             pv'[c] # pv[c] => pv'[c] >= IF pv[c] = 0 THEN asked[c] ELSE call[c]
<1>1. ASSUME IInv, [Next]_vars PROVE [Enough]_vars
  <2> SUFFICES ASSUME NEW c \in Claim, pv'[c] # pv[c]
               PROVE  pv'[c] >= IF pv[c] = 0 THEN asked[c] ELSE call[c]
    OBVIOUS
  <2>1. PICK d \in Claim : CreateVolume(d) \/ ExpandAnswered(d)
    BY <1>1 DEF Next, Server, vars, ClaimMade, Enlarged, SnapshotAsked, ResizerCalls,
                ControllerExpandVolume, ExpandedLate, NodeExpandVolume, CreateSnapshot
  <2>2. CASE CreateVolume(d)
    <3>1. d = c /\ pv[c] = 0 /\ asked[c] \in Size /\ pv'[c] = getRoundedCapacity(asked[c])
      BY <1>1, <2>2 DEF CreateVolume, IInv, TypeOK
    <3> QED BY <3>1, Asked
  <2>3. CASE ExpandAnswered(d)
    <3>1. d = c /\ c \in written /\ pv'[c] = getRoundedCapacity(call[c])
      BY <1>1, <2>3 DEF ExpandAnswered, IInv, TypeOK
    <3>2. call[c] \in Size /\ pv[c] # 0
      BY <1>1, <3>1 DEF IInv, TypeOK, Stages
    <3> QED BY <3>1, <3>2, Asked
  <2> QED BY <2>1, <2>2, <2>3
<1> QED BY <1>1, Invariance, PTL DEF Spec, AtLeastAsked

=============================================================================
