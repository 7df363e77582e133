----------------------- MODULE MetadataExchange_proofs -----------------------
(***************************************************************************)
(* Metadata is applied once, a solo round has one supplier, and a verdict  *)
(* on the round it hashed bans no honest host (MetadataIsFair), for any    *)
(* connections, hosts, sizes, liars and failures of storage.               *)
(*                                                                         *)
(* The invariant has three layers.  Applied is about storage: one caller   *)
(* at most builds or leaves, and only before, or after, storage is there.  *)
(* Blame is about suppliers: a block that is in is charged to its host and *)
(* a solo round's to its owner's alone.  Guilt is about who is banned: as  *)
(* long as the epoch of an assembly that will fail lasts, it is what was   *)
(* hashed, and holds a liar's block.                                       *)
(***************************************************************************)
EXTENDS MetadataExchange, FiniteSetTheorems, FunctionTheorems, TLAPS

----------------------------------------------------------------------------
(* The invariant *)

Blocks == {"none", "junk", "genuine"}
Hosts == {NoHost} \cup {HostOf[c] : c \in Fetchers}

\* Bounds are spent; the sizes and the liars of a plan stay.
PlanTyped ==
  /\ fetchPlan \in PlanType
  /\ \E p \in MetadataPlans : fetchPlan.size = p.size /\ fetchPlan.liars = p.liars
RoundTyped == size \in Nat /\ epoch \in Nat /\ pieces \in Seq(Blocks) /\ owner \in SUBSET Fetchers
Calls == [at : {"idle", "hashing", "building", "leaving"}, good : BOOLEAN, epoch : Nat]
CallsTyped == caller \in [Callers -> Calls]
Typed == PlanTyped /\ RoundTyped /\ CallsTyped

\* Callers of onMetadataDownloaded between the admission and the end.
Builds(c) == caller[c].at = "building"
Leaves(c) == caller[c].at = "leaving"
OneApplies == \A c, d \in Callers : (Builds(c) \/ Leaves(c)) /\ (Builds(d) \/ Leaves(d)) => c = d
BuildingIsKnown == building <=> \E c \in Callers : Builds(c)
BuildsFirst == \A c \in Callers : (Builds(c) => storage = "none") /\ (Leaves(c) => storage # "none")
NothingLeft == storage # "none" => ~kept /\ ~retryArmed
ClosedWithSession ==
  /\ storage = "closed" => ending = "closed"
  /\ ending = "closed" => storage # "open" /\ ~building
LeftWithStorage == ~fetching => storage # "none"
Flags ==
  /\ building \in BOOLEAN /\ kept \in BOOLEAN /\ retryArmed \in BOOLEAN /\ fetching \in BOOLEAN
  /\ storage \in {"none", "open", "closed"}
Applied ==
  Flags /\ OneApplies /\ BuildingIsKnown /\ BuildsFirst /\ NothingLeft /\ ClosedWithSession /\ LeftWithStorage

\* Who is charged for the blocks that are in.
OneOwner == owner = {} \/ \E c \in Fetchers : owner = {c}
Attributed ==
  DOMAIN from = {} \/ (DOMAIN from = DOMAIN pieces /\ \A k \in DOMAIN pieces : pieces[k] = "none" => from[k] = NoHost)
ChargedTo(h) == (\A k \in DOMAIN from : from[k] \in {NoHost, h}) /\ (\A c \in owner : h = HostOf[c])
OneSupplier == solo => \E h \in Hosts : ChargedTo(h)
Blame == solo \in BOOLEAN /\ OneOwner /\ Attributed /\ OneSupplier

\* An assembly that is being hashed is in the accumulator for as long as its
\* epoch lasts.
Junk == {k \in DOMAIN pieces : pieces[k] = "junk"}
Assembled(c) == size > 0 /\ Missing(pieces) = {} /\ (~caller[c].good => Junk # {})
Hashes(c) == caller[c].at = "hashing"
HashedAreIn ==
  \A c \in Fetchers : Hashes(c) => caller[c].epoch <= epoch /\ (caller[c].epoch = epoch => Assembled(c))
LiarsFedJunk == \A k \in Junk \cap DOMAIN from : \E c \in Liars : from[k] = HostOf[c]
WrongSizeIsJunk == size # TrueSize => \A k \in DOMAIN pieces : pieces[k] # "genuine"
Guilt == HashedAreIn /\ LiarsFedJunk /\ WrongSizeIsJunk /\ HonestNeverBanned

MetadataInv == Typed /\ Applied /\ Blame
FairInv == MetadataInv /\ Guilt

----------------------------------------------------------------------------
(* Lemmas *)

\* The blocks of a round are indexed from 1.
LEMMA PiecesIndexed ==
  ASSUME NEW ps \in Seq(Blocks)
  PROVE  /\ Len(ps) \in Nat /\ DOMAIN ps = 1 .. Len(ps)
         /\ \A k \in DOMAIN ps : ps[k] \in Blocks
  OBVIOUS

\* A round starts with no block in.
LEMMA EmptyRound ==
  ASSUME NEW n \in Nat
  PROVE  /\ Empty(n) \in Seq(Blocks) /\ DOMAIN Empty(n) = 1 .. n /\ Len(Empty(n)) = n
         /\ \A k \in 1 .. n : Empty(n)[k] = "none"
         /\ Missing(Empty(n)) = DOMAIN Empty(n)
  <1>1. Empty(n) \in Seq(Blocks) /\ DOMAIN Empty(n) = 1 .. n /\ Len(Empty(n)) = n
    BY DEF Empty, Blocks
  <1>2. \A k \in 1 .. n : Empty(n)[k] = "none"
    BY DEF Empty
  <1> QED BY <1>1, <1>2 DEF Missing

\* The suppliers of a round are finitely many.
LEMMA SuppliersAreFinite ==
  ASSUME RoundTyped, Attributed
  PROVE  IsFiniteSet(Suppliers)
  <1> DEFINE f == [k \in DOMAIN from |-> from[k]]
  <1>1. IsFiniteSet(DOMAIN from)
    <2>1. CASE DOMAIN from = {}
      BY <2>1, FS_EmptySet
    <2>2. CASE DOMAIN from = DOMAIN pieces
      <3>1. Len(pieces) \in Nat /\ DOMAIN pieces = 1 .. Len(pieces)
        BY PiecesIndexed DEF RoundTyped
      <3> QED BY <2>2, <3>1, FS_Interval
    <2> QED BY <2>1, <2>2 DEF Attributed
  <1>2. f \in Surjection(DOMAIN from, Suppliers)
    BY DEF Surjection, Suppliers
  <1> QED BY <1>1, <1>2, FS_Surjection

\* No suppliers, where nothing is charged.
LEMMA DiscardedIsBlameless ==
  ASSUME RoundTyped, Discarded, solo' \in BOOLEAN
  PROVE  RoundTyped' /\ Blame'
  <1>1. size' = 0 /\ pieces' = <<>> /\ from' = <<>> /\ owner' = {} /\ epoch' = epoch + 1
    BY DEF Discarded
  <1>2. DOMAIN from' = {}
    BY <1>1
  <1>3. NoHost \in Hosts /\ ChargedTo(NoHost)'
    BY <1>1, <1>2 DEF ChargedTo, Hosts
  <1>4. RoundTyped'
    BY <1>1 DEF RoundTyped
  <1> QED BY <1>1, <1>2, <1>3, <1>4 DEF Blame, OneOwner, Attributed, OneSupplier, Hosts

----------------------------------------------------------------------------
(* What an action leaves alone *)

storageSide == <<caller, building, storage, kept, retryArmed, ending, fetching>>
blameSide == <<from, pieces, owner, solo>>

\* Each part is about the variables it names.
LEMMA PlanFrame ==
  ASSUME PlanTyped, UNCHANGED fetchPlan
  PROVE  PlanTyped'
  BY DEF PlanTyped

\* The accumulator and its owner.
LEMMA RoundFrame ==
  ASSUME RoundTyped, UNCHANGED <<size, pieces, owner, epoch>>
  PROVE  RoundTyped'
  BY DEF RoundTyped

\* Where the callers are.
LEMMA CallsFrame ==
  ASSUME CallsTyped, UNCHANGED caller
  PROVE  CallsTyped'
  BY DEF CallsTyped

\* The storage of the session.
LEMMA AppliedFrame ==
  ASSUME Applied, UNCHANGED storageSide
  PROVE  Applied'
  BY DEF Applied, Flags, OneApplies, BuildingIsKnown, BuildsFirst, NothingLeft, ClosedWithSession, LeftWithStorage,
         Builds, Leaves, storageSide

\* Who is charged.
LEMMA BlameFrame ==
  ASSUME Blame, UNCHANGED blameSide
  PROVE  Blame'
  <1>1. \A h : ChargedTo(h)' <=> ChargedTo(h)
    BY DEF ChargedTo, blameSide
  <1> QED BY <1>1 DEF Blame, OneOwner, Attributed, OneSupplier, blameSide

\* Callers may come to hash, or go, as long as the same ones build and leave.
SameAppliers == \A d \in Callers : (Builds(d)' <=> Builds(d)) /\ (Leaves(d)' <=> Leaves(d))

\* Then storage is applied as before.
LEMMA SameAppliersFrame ==
  ASSUME Applied, SameAppliers, UNCHANGED <<building, storage, kept, ending, fetching>>,
         retryArmed' \in BOOLEAN, retryArmed' => retryArmed
  PROVE  Applied'
  <1>1. OneApplies' /\ BuildingIsKnown' /\ BuildsFirst'
    BY DEF Applied, SameAppliers, OneApplies, BuildingIsKnown, BuildsFirst
  <1> QED BY <1>1 DEF Applied, Flags, NothingLeft, ClosedWithSession, LeftWithStorage

----------------------------------------------------------------------------
(* Asking *)

\* A round starts over, empty, for another size or another owner.
Fresh(c) ==
  /\ \E n \in Nat : /\ pieces' = Empty(n) /\ from' = [k \in DOMAIN Empty(n) |-> NoHost]
                    /\ size' = size \/ (size' = fetchPlan.size[c] /\ n = fetchPlan.size[c])
  /\ owner' \in {{}, {c}}
  /\ epoch' = epoch + 1 \/ (size = 0 /\ epoch' = epoch)

\* A round without a block in gets an owner.
TakenEmpty(c) ==
  /\ ~Resizes(c) /\ TakesOver(c, owner) /\ Missing(pieces) = DOMAIN pieces
  /\ owner' = {c} /\ UNCHANGED <<size, pieces, from, epoch>>

\* The three things that can happen to the round of a connection that asks.
LEMMA AskedRound ==
  ASSUME Typed, NEW c \in Fetchers, NEW again, requestMetadataBlocks(c, again)
  PROVE  /\ Fresh(c) \/ TakenEmpty(c) \/ UNCHANGED <<size, pieces, from, owner, epoch>>
         /\ c \in live /\ caller[c].at = "idle"
         /\ UNCHANGED <<fetchPlan, solo, banned, overtaken, live>> /\ UNCHANGED storageSide
  <1>0. /\ c \in live /\ caller[c].at = "idle"
        /\ UNCHANGED <<fetchPlan, solo, banned, overtaken, live>> /\ UNCHANGED storageSide
    BY DEF requestMetadataBlocks, storageVars, storageSide
  <1> SUFFICES Fresh(c) \/ TakenEmpty(c) \/ UNCHANGED <<size, pieces, from, owner, epoch>>
    BY <1>0
  <1> DEFINE resize == Resizes(c)
             ps0 == IF resize THEN Empty(fetchPlan.size[c]) ELSE pieces
             owner0 == IF resize THEN {} ELSE owner
             takes == (resize \/ size = fetchPlan.size[c]) /\ TakesOver(c, owner0)
             restart == takes /\ Restarts(ps0)
             ps == IF restart THEN Empty(Len(ps0)) ELSE ps0
  <1>1. /\ size' = IF resize THEN fetchPlan.size[c] ELSE size
        /\ pieces' = ps
        /\ from' = IF resize \/ restart THEN [k \in DOMAIN ps |-> NoHost] ELSE from
        /\ owner' = IF takes THEN {c} ELSE owner0
    BY DEF requestMetadataBlocks
  <1>e. epoch' = epoch + ((IF resize /\ size > 0 THEN 1 ELSE 0) + (IF restart THEN 1 ELSE 0))
    BY DEF requestMetadataBlocks
  <1>2. fetchPlan.size[c] \in Nat /\ Len(pieces) \in Nat /\ epoch \in Nat /\ size \in Nat
    BY PiecesIndexed DEF Typed, PlanTyped, RoundTyped, PlanType
  <1>3. CASE resize
    <2>1. ps0 = Empty(fetchPlan.size[c]) /\ Missing(ps0) = DOMAIN ps0
      BY <1>2, <1>3, EmptyRound
    <2>2. ~restart
      BY <2>1 DEF Restarts
    <2>3. pieces' = Empty(fetchPlan.size[c]) /\ from' = [k \in DOMAIN Empty(fetchPlan.size[c]) |-> NoHost]
      BY <1>1, <1>3, <2>1, <2>2
    <2>4. owner' \in {{}, {c}} /\ size' = fetchPlan.size[c]
      BY <1>1, <1>3
    <2>5. epoch' = epoch + 1 \/ (size = 0 /\ epoch' = epoch)
      <3>1. CASE size = 0
        BY <1>e, <1>2, <2>2, <3>1
      <3>2. CASE size > 0
        BY <1>e, <1>2, <1>3, <2>2, <3>2
      <3> QED BY <1>2, <3>1, <3>2
    <2> QED BY <1>2, <2>3, <2>4, <2>5 DEF Fresh
  <1>4. CASE ~resize /\ restart
    <2>1. pieces' = Empty(Len(pieces)) /\ from' = [k \in DOMAIN Empty(Len(pieces)) |-> NoHost]
      BY <1>1, <1>4
    <2>2. owner' \in {{}, {c}} /\ size' = size
      BY <1>1, <1>4
    <2>3. epoch' = epoch + 1
      BY <1>e, <1>2, <1>4
    <2> QED BY <1>2, <2>1, <2>2, <2>3 DEF Fresh
  <1>5. CASE ~resize /\ takes /\ ~restart
    <2>1. Missing(pieces) = DOMAIN pieces /\ TakesOver(c, owner) /\ ~Resizes(c)
      BY <1>5 DEF Restarts
    <2>2. epoch' = epoch
      BY <1>e, <1>2, <1>5
    <2> QED BY <1>1, <1>5, <2>1, <2>2 DEF TakenEmpty
  <1>6. CASE ~resize /\ ~takes
    <2>1. epoch' = epoch
      BY <1>e, <1>2, <1>6
    <2> QED BY <1>1, <1>6, <2>1
  <1> QED BY <1>3, <1>4, <1>5, <1>6

\* A round that starts, or changes its owner, charges nobody but the new owner.
LEMMA AskKeeps ==
  ASSUME MetadataInv, NEW c \in Fetchers, NEW again, requestMetadataBlocks(c, again)
  PROVE  MetadataInv'
  <1>1. /\ Fresh(c) \/ TakenEmpty(c) \/ UNCHANGED <<size, pieces, from, owner, epoch>>
        /\ UNCHANGED fetchPlan /\ UNCHANGED solo /\ UNCHANGED storageSide
    BY AskedRound DEF MetadataInv
  <1>2. PlanTyped' /\ CallsTyped' /\ Applied'
    BY <1>1, PlanFrame, CallsFrame, AppliedFrame DEF MetadataInv, Typed, storageSide
  <1>h. NoHost \in Hosts /\ HostOf[c] \in Hosts
    BY DEF Hosts
  <1>3. CASE Fresh(c)
    <2>1. PICK n \in Nat : /\ pieces' = Empty(n) /\ from' = [k \in DOMAIN Empty(n) |-> NoHost]
                           /\ size' = fetchPlan.size[c] \/ size' = size
      BY <1>3 DEF Fresh
    <2>2. owner' \in {{}, {c}}
      BY <1>3 DEF Fresh
    <2>3. /\ Empty(n) \in Seq(Blocks) /\ DOMAIN Empty(n) = 1 .. n
      BY EmptyRound
    <2>4. size' \in Nat /\ epoch' \in Nat
      BY <1>3, <2>1 DEF Fresh, MetadataInv, Typed, RoundTyped, PlanTyped, PlanType
    <2>5. RoundTyped'
      BY <2>1, <2>2, <2>3, <2>4 DEF RoundTyped
    <2>6. OneOwner'
      BY <2>2 DEF OneOwner
    <2>7. DOMAIN from' = DOMAIN pieces' /\ \A k \in DOMAIN from' : from'[k] = NoHost
      BY <2>1
    <2>8. Attributed'
      BY <2>7 DEF Attributed
    <2>9. ChargedTo(HostOf[c])'
      BY <2>2, <2>7 DEF ChargedTo
    <2> QED BY <1>1, <1>2, <1>h, <2>5, <2>6, <2>8, <2>9 DEF MetadataInv, Typed, Blame, OneSupplier, Hosts
  <1>4. CASE TakenEmpty(c)
    <2>1. owner' = {c} /\ UNCHANGED <<size, pieces, from, epoch>>
      BY <1>4 DEF TakenEmpty
    <2>2. RoundTyped' /\ OneOwner' /\ Attributed'
      BY <2>1 DEF MetadataInv, Typed, RoundTyped, Blame, OneOwner, Attributed
    <2>3. \A k \in DOMAIN from : from[k] = NoHost
      BY <1>4 DEF TakenEmpty, Missing, MetadataInv, Blame, Attributed
    <2>4. ChargedTo(HostOf[c])'
      BY <2>1, <2>3 DEF ChargedTo
    <2> QED BY <1>1, <1>2, <1>h, <2>2, <2>4 DEF MetadataInv, Typed, Blame, OneSupplier, Hosts
  <1>5. CASE UNCHANGED <<size, pieces, from, owner, epoch>>
    <2>1. RoundTyped' /\ Blame'
      BY <1>1, <1>5, RoundFrame, BlameFrame DEF MetadataInv, Typed, blameSide
    <2> QED BY <1>2, <2>1 DEF MetadataInv, Typed
  <1> QED BY <1>1, <1>3, <1>4, <1>5

\* A round that is skipped is the round it was.
LEMMA SkipKeeps ==
  ASSUME MetadataInv, NEW c \in Fetchers, SkipRound(c)
  PROVE  MetadataInv'
  <1>1. UNCHANGED <<fetchPlan, size, pieces, from, owner, epoch, solo>> /\ UNCHANGED storageSide
    BY DEF SkipRound, roundVars, blameVars, storageVars, storageSide
  <1> QED BY <1>1, PlanFrame, RoundFrame, CallsFrame, AppliedFrame, BlameFrame
          DEF MetadataInv, Typed, blameSide, storageSide

----------------------------------------------------------------------------
(* A block *)

\* A block that counts: it was missing, and fits.
Counts(c, k) ==
  /\ size > 0 /\ (c \in Liars \/ fetchPlan.size[c] = size) /\ k \in DOMAIN pieces /\ pieces[k] = "none"
  /\ solo => owner = {c}
  /\ pieces' = [pieces EXCEPT ![k] = IF c \in Liars THEN "junk" ELSE "genuine"]
  /\ from' = [j \in DOMAIN from |-> IF j = k THEN HostOf[c] ELSE from[j]]
  /\ caller' = [caller EXCEPT ![c] =
       IF Missing(pieces') = {}
       THEN [at |-> "hashing", good |-> size = TrueSize /\ \A j \in DOMAIN pieces' : pieces'[j] = "genuine",
             epoch |-> epoch]
       ELSE Idle]

\* A block counts, or changes nothing of the round.
LEMMA AcceptedBlock ==
  ASSUME NEW c \in Fetchers, NEW k, acceptMetadataBlock(c, k)
  PROVE  /\ Counts(c, k) \/ UNCHANGED <<pieces, from, caller>>
         /\ caller[c].at = "idle"
         /\ UNCHANGED <<fetchPlan, size, owner, epoch, solo, banned, overtaken>>
         /\ UNCHANGED <<building, storage, kept, retryArmed, ending, fetching>>
  BY DEF acceptMetadataBlock, Counts, storageVars, blameVars

\* A block is charged to its connection, the owner of a solo round.
LEMMA AcceptKeeps ==
  ASSUME MetadataInv, NEW c \in Fetchers, NEW k, acceptMetadataBlock(c, k)
  PROVE  MetadataInv'
  <1>1. /\ Counts(c, k) \/ UNCHANGED <<pieces, from, caller>>
        /\ caller[c].at = "idle" /\ UNCHANGED <<fetchPlan, size, owner, epoch, solo>>
        /\ UNCHANGED <<building, storage, kept, retryArmed, ending, fetching>>
    BY AcceptedBlock
  <1>2. PlanTyped'
    BY <1>1, PlanFrame DEF MetadataInv, Typed
  <1>3. CASE UNCHANGED <<pieces, from, caller>>
    <2>1. RoundTyped' /\ CallsTyped' /\ Applied' /\ Blame'
      BY <1>1, <1>3, RoundFrame, CallsFrame, AppliedFrame, BlameFrame
         DEF MetadataInv, Typed, storageSide, blameSide
    <2> QED BY <1>2, <2>1 DEF MetadataInv, Typed
  <1>4. CASE Counts(c, k)
    <2> DEFINE block == IF c \in Liars THEN "junk" ELSE "genuine"
               x == IF Missing(pieces') = {}
                    THEN [at |-> "hashing",
                          good |-> size = TrueSize /\ \A j \in DOMAIN pieces' : pieces'[j] = "genuine",
                          epoch |-> epoch]
                    ELSE Idle
    <2>1. k \in DOMAIN pieces /\ pieces' = [pieces EXCEPT ![k] = block] /\ block \in Blocks
      BY <1>4 DEF Counts, Blocks
    <2>2. pieces \in Seq(Blocks) /\ owner \in SUBSET Fetchers /\ size \in Nat /\ epoch \in Nat
      BY DEF MetadataInv, Typed, RoundTyped
    <2>3. pieces' \in Seq(Blocks) /\ DOMAIN pieces' = DOMAIN pieces
      BY <2>1, <2>2
    <2>4. RoundTyped'
      BY <1>1, <2>2, <2>3 DEF RoundTyped
    <2>5. caller' = [caller EXCEPT ![c] = x]
      BY <1>4 DEF Counts
    <2>6. x.at \in {"idle", "hashing"} /\ x \in Calls
      BY <2>2 DEF Idle, Calls
    <2>7. CallsTyped' /\ Applied'
      <3> HIDE DEF x
      <3>1. c \in Callers
        BY DEF Callers
      <3>2. CallsTyped'
        BY <2>5, <2>6, <3>1 DEF CallsTyped, MetadataInv, Typed
      <3>3. retryArmed' \in BOOLEAN
        BY <1>1 DEF MetadataInv, Applied, Flags
      <3>4. Applied /\ (retryArmed' => retryArmed)
        BY <1>1 DEF MetadataInv
      <3>5. UNCHANGED <<building, storage, kept, ending, fetching>>
        BY <1>1
      <3>6. SameAppliers
        BY <1>1, <2>5, <2>6, <3>1 DEF SameAppliers, Builds, Leaves, MetadataInv, Typed, CallsTyped
      <3>7. Applied'
        BY <3>3, <3>4, <3>5, <3>6, SameAppliersFrame
      <3> QED BY <3>2, <3>7
    <2>8. from' = [j \in DOMAIN from |-> IF j = k THEN HostOf[c] ELSE from[j]]
      BY <1>4 DEF Counts
    <2>9. Attributed'
      BY <2>1, <2>3, <2>8 DEF Attributed, MetadataInv, Blame
    <2>10. OneSupplier'
      <3>1. SUFFICES ASSUME solo PROVE \E h \in Hosts : ChargedTo(h)'
        BY <1>1 DEF OneSupplier, Hosts
      <3>2. owner = {c}
        BY <1>4, <3>1 DEF Counts
      <3>3. PICK h \in Hosts : ChargedTo(h)
        BY <3>1 DEF MetadataInv, Blame, OneSupplier
      <3>4. h = HostOf[c]
        BY <3>2, <3>3 DEF ChargedTo
      <3>5. ChargedTo(h)'
        BY <1>1, <2>8, <3>3, <3>4 DEF ChargedTo
      <3> QED BY <3>5
    <2>11. Blame'
      BY <1>1, <2>9, <2>10 DEF Blame, OneOwner, MetadataInv
    <2> QED BY <1>2, <2>4, <2>7, <2>11 DEF MetadataInv, Typed
  <1> QED BY <1>1, <1>3, <1>4

----------------------------------------------------------------------------
(* A failed assembly, and storage *)

\* A failed assembly leaves an empty accumulator.
LEMMA HashFailsKeeps ==
  ASSUME MetadataInv, NEW c \in Fetchers, HashFails(c)
  PROVE  MetadataInv'
  <1>1. /\ caller[c].at = "hashing" /\ caller' = [caller EXCEPT ![c] = Idle] /\ Discarded
        /\ UNCHANGED <<fetchPlan, building, storage, kept, retryArmed, ending, fetching>>
    BY DEF HashFails, storageVars
  <1>2. solo' \in BOOLEAN
    BY DEF HashFails
  <1>3. PlanTyped'
    BY <1>1, PlanFrame DEF MetadataInv, Typed
  <1>4. RoundTyped' /\ Blame'
    BY <1>1, <1>2, DiscardedIsBlameless DEF MetadataInv, Typed
  <1>5. c \in Callers /\ CallsTyped'
    BY <1>1 DEF MetadataInv, Typed, CallsTyped, Calls, Idle, Applying, Callers
  <1>6. SameAppliers
    BY <1>1, <1>5 DEF SameAppliers, Builds, Leaves, Idle, MetadataInv, Typed, CallsTyped
  <1>7. Applied'
    BY <1>1, <1>6, SameAppliersFrame DEF MetadataInv, Applied, Flags
  <1> QED BY <1>3, <1>4, <1>5, <1>7 DEF MetadataInv, Typed

\* What has the hash and does not parse is given up, with its blame.
LEMMA ParseFailsKeeps ==
  ASSUME MetadataInv, NEW c \in Callers, ParseFails(c)
  PROVE  MetadataInv'
  <1>1. /\ caller[c].at = "hashing" /\ caller' = [caller EXCEPT ![c] = Idle]
        /\ from' = <<>> /\ solo' = FALSE /\ owner' = {} /\ UNCHANGED <<size, pieces, epoch>>
        /\ UNCHANGED <<fetchPlan, building, storage, kept, retryArmed, ending, fetching>>
    BY DEF ParseFails, NoBlame
  <1>2. PlanTyped' /\ RoundTyped'
    BY <1>1, PlanFrame DEF MetadataInv, Typed, RoundTyped
  <1>3. DOMAIN from' = {}
    BY <1>1
  <1>4. Blame'
    BY <1>1, <1>3 DEF Blame, OneOwner, Attributed, OneSupplier
  <1>5. CallsTyped'
    BY <1>1 DEF MetadataInv, Typed, CallsTyped, Calls, Idle
  <1>6. SameAppliers
    BY <1>1 DEF SameAppliers, Builds, Leaves, Idle, MetadataInv, Typed, CallsTyped
  <1>7. Applied'
    BY <1>1, <1>6, SameAppliersFrame DEF MetadataInv, Applied, Flags
  <1> QED BY <1>2, <1>4, <1>5, <1>7 DEF MetadataInv, Typed

\* A build starts where nobody builds and nobody has built.
LEMMA StartBuildKeeps ==
  ASSUME MetadataInv, NEW c \in Callers, StartBuild(c)
  PROVE  MetadataInv'
  <1> DEFINE admitted == ending = "no" /\ fetching /\ storage = "none" /\ ~building
  <1>1. /\ caller[c].at = "hashing" /\ (building' <=> building \/ admitted) /\ building' \in BOOLEAN
        /\ caller' = [caller EXCEPT ![c] = IF admitted THEN Applying("building") ELSE Idle]
        /\ Discarded \/ UNCHANGED <<size, pieces, from, owner, epoch>>
        /\ UNCHANGED <<fetchPlan, solo, storage, kept, retryArmed, ending, fetching>>
    BY DEF StartBuild, roundVars, blameVars, MetadataInv, Applied, Flags
  <1>2. PlanTyped'
    BY <1>1, PlanFrame DEF MetadataInv, Typed
  <1>3. CallsTyped'
    BY <1>1 DEF MetadataInv, Typed, CallsTyped, Calls, Idle, Applying
  <1>4. RoundTyped' /\ Blame'
    <2>1. CASE Discarded
      BY <1>1, <2>1, DiscardedIsBlameless DEF MetadataInv, Typed, Blame
    <2>2. CASE UNCHANGED <<size, pieces, from, owner, epoch>>
      BY <1>1, <2>2, RoundFrame, BlameFrame DEF MetadataInv, Typed, blameSide
    <2> QED BY <1>1, <2>1, <2>2
  <1>5. CASE ~admitted
    <2>1. SameAppliers
      BY <1>1, <1>5 DEF SameAppliers, Builds, Leaves, Idle, MetadataInv, Typed, CallsTyped
    <2>2. UNCHANGED building
      BY <1>1, <1>5 DEF MetadataInv, Applied, Flags
    <2>3. Applied'
      BY <1>1, <2>1, <2>2, SameAppliersFrame DEF MetadataInv, Applied, Flags
    <2> QED BY <1>2, <1>3, <1>4, <2>3 DEF MetadataInv, Typed
  <1>6. CASE admitted
    <2>1. Builds(c)' /\ ~Leaves(c)'
      BY <1>1, <1>6 DEF Builds, Leaves, Applying, MetadataInv, Typed, CallsTyped
    <2>2. \A d \in Callers \ {c} : (Builds(d)' <=> Builds(d)) /\ (Leaves(d)' <=> Leaves(d))
      BY <1>1, <1>6 DEF Builds, Leaves, Applying, MetadataInv, Typed, CallsTyped
    <2>3. \A d \in Callers : ~Builds(d) /\ ~Leaves(d)
      BY <1>6 DEF MetadataInv, Applied, BuildingIsKnown, BuildsFirst
    <2>4. OneApplies' /\ BuildingIsKnown' /\ BuildsFirst'
      BY <1>1, <1>6, <2>1, <2>2, <2>3 DEF OneApplies, BuildingIsKnown, BuildsFirst
    <2>5. Applied'
      BY <1>1, <1>6, <2>4 DEF MetadataInv, Applied, Flags, NothingLeft, ClosedWithSession, LeftWithStorage
    <2> QED BY <1>2, <1>3, <1>4, <2>5 DEF MetadataInv, Typed
  <1> QED BY <1>5, <1>6

\* Nobody builds or leaves beside a caller that builds.
LEMMA BuildsAlone ==
  ASSUME Applied, NEW c \in Callers, Builds(c)
  PROVE  \A d \in Callers \ {c} : ~Builds(d) /\ ~Leaves(d)
  BY DEF Applied, OneApplies

\* A failed build ends as if it had not begun.
LEMMA BuildFailsKeeps ==
  ASSUME MetadataInv, NEW c \in Callers, BuildFails(c)
  PROVE  MetadataInv'
  <1>1. /\ Builds(c) /\ caller' = [caller EXCEPT ![c] = Idle]
        /\ building' = FALSE /\ kept' = TRUE /\ retryArmed' = (ending = "no")
        /\ fetchPlan.failures > 0 /\ fetchPlan' = [fetchPlan EXCEPT !.failures = @ - 1]
        /\ from' = <<>> /\ solo' = FALSE /\ owner' = {}
        /\ UNCHANGED <<size, pieces, epoch, storage, ending, fetching>>
    BY DEF BuildFails, NoBlame, Builds
  <1>2. PlanTyped'
    BY <1>1 DEF MetadataInv, Typed, PlanTyped, PlanType
  <1>3. RoundTyped' /\ Blame'
    <2>1. DOMAIN from' = {}
      BY <1>1
    <2> QED BY <1>1, <2>1 DEF MetadataInv, Typed, RoundTyped, Blame, OneOwner, Attributed, OneSupplier
  <1>4. CallsTyped'
    BY <1>1 DEF MetadataInv, Typed, CallsTyped, Calls, Idle, Applying
  <1>5. \A d \in Callers : ~Builds(d)' /\ ~Leaves(d)'
    <2>1. \A d \in Callers \ {c} : ~Builds(d) /\ ~Leaves(d)
      BY <1>1, BuildsAlone DEF MetadataInv
    <2> QED BY <1>1, <2>1 DEF Builds, Leaves, Idle, Applying, MetadataInv, Typed, CallsTyped
  <1>6. storage = "none" /\ ending # "closed"
    BY <1>1 DEF MetadataInv, Applied, BuildsFirst, ClosedWithSession, BuildingIsKnown
  <1>7. Applied'
    BY <1>1, <1>5, <1>6 DEF MetadataInv, Applied, Flags, OneApplies, BuildingIsKnown, BuildsFirst, NothingLeft,
       ClosedWithSession, LeftWithStorage
  <1> QED BY <1>2, <1>3, <1>4, <1>7 DEF MetadataInv, Typed

\* The storage is published by the one that built it.
LEMMA PublishKeeps ==
  ASSUME MetadataInv, NEW c \in Callers, PublishStorage(c)
  PROVE  MetadataInv'
  <1>1. /\ Builds(c)
        /\ caller' = [caller EXCEPT ![c] = IF ending = "no" THEN Applying("leaving") ELSE Idle]
        /\ building' = FALSE /\ storage' = "open" /\ kept' = FALSE /\ retryArmed' = FALSE /\ solo' = FALSE
        /\ Discarded \/ (from' = <<>> /\ owner' = {} /\ UNCHANGED <<size, pieces, epoch>>)
        /\ UNCHANGED <<fetchPlan, ending, fetching>>
    BY DEF PublishStorage, Builds
  <1>2. PlanTyped'
    BY <1>1, PlanFrame DEF MetadataInv, Typed
  <1>3. RoundTyped' /\ Blame'
    <2>1. CASE Discarded
      BY <1>1, <2>1, DiscardedIsBlameless DEF MetadataInv, Typed
    <2>2. CASE from' = <<>> /\ owner' = {} /\ UNCHANGED <<size, pieces, epoch>>
      <3>1. DOMAIN from' = {}
        BY <2>2
      <3> QED BY <1>1, <2>2, <3>1 DEF MetadataInv, Typed, RoundTyped, Blame, OneOwner, Attributed, OneSupplier
    <2> QED BY <1>1, <2>1, <2>2
  <1>4. CallsTyped'
    BY <1>1 DEF MetadataInv, Typed, CallsTyped, Calls, Idle, Applying
  <1>5. \A d \in Callers : ~Builds(d)' /\ (Leaves(d)' => d = c)
    <2>1. \A d \in Callers \ {c} : ~Builds(d) /\ ~Leaves(d)
      BY <1>1, BuildsAlone DEF MetadataInv
    <2> QED BY <1>1, <2>1 DEF Builds, Leaves, Idle, Applying, MetadataInv, Typed, CallsTyped
  <1>6. ending # "closed"
    BY <1>1 DEF MetadataInv, Applied, ClosedWithSession, BuildingIsKnown
  <1>7. Applied'
    BY <1>1, <1>5, <1>6 DEF MetadataInv, Applied, Flags, OneApplies, BuildingIsKnown, BuildsFirst, NothingLeft,
       ClosedWithSession, LeftWithStorage
  <1> QED BY <1>2, <1>3, <1>4, <1>7 DEF MetadataInv, Typed

\* The session leaves metadata mode only once storage is there.
LEMMA LeaveKeeps ==
  ASSUME MetadataInv, NEW c \in Callers, LeaveMetadata(c)
  PROVE  MetadataInv'
  <1>1. /\ Leaves(c) /\ caller' = [caller EXCEPT ![c] = Idle] /\ fetching' \in BOOLEAN
        /\ Discarded \/ UNCHANGED <<size, pieces, from, owner, epoch>>
        /\ UNCHANGED <<fetchPlan, solo, building, storage, kept, retryArmed, ending>>
    BY DEF LeaveMetadata, Leaves, roundVars, blameVars, storageVars, MetadataInv, Applied, Flags
  <1>2. PlanTyped'
    BY <1>1, PlanFrame DEF MetadataInv, Typed
  <1>3. CallsTyped'
    BY <1>1 DEF MetadataInv, Typed, CallsTyped, Calls, Idle, Applying
  <1>4. RoundTyped' /\ Blame'
    <2>1. CASE Discarded
      BY <1>1, <2>1, DiscardedIsBlameless DEF MetadataInv, Typed, Blame
    <2>2. CASE UNCHANGED <<size, pieces, from, owner, epoch>>
      BY <1>1, <2>2, RoundFrame, BlameFrame DEF MetadataInv, Typed, blameSide
    <2> QED BY <1>1, <2>1, <2>2
  <1>5. \A d \in Callers : (Builds(d)' <=> Builds(d)) /\ (Leaves(d)' => Leaves(d))
    BY <1>1 DEF Builds, Leaves, Idle, Applying, MetadataInv, Typed, CallsTyped
  <1>6. storage # "none"
    BY <1>1 DEF MetadataInv, Applied, BuildsFirst
  <1>7. OneApplies' /\ BuildingIsKnown' /\ BuildsFirst'
    BY <1>1, <1>5 DEF MetadataInv, Applied, OneApplies, BuildingIsKnown, BuildsFirst
  <1>8. Applied'
    BY <1>1, <1>6, <1>7 DEF MetadataInv, Applied, Flags, NothingLeft, ClosedWithSession, LeftWithStorage
  <1> QED BY <1>2, <1>3, <1>4, <1>8 DEF MetadataInv, Typed

\* The retry takes its timer and hashes what passed before.
LEMMA RetryKeeps ==
  ASSUME MetadataInv, retryMetadataStorage
  PROVE  MetadataInv'
  <1>1. /\ Timer \in Callers /\ caller[Timer].at = "idle" /\ retryArmed' = FALSE
        /\ UNCHANGED <<fetchPlan, size, pieces, from, owner, epoch, solo, building, storage, kept, ending, fetching>>
    BY DEF retryMetadataStorage, Callers, roundVars, blameVars
  <1>2. PICK x \in [at : {"idle", "hashing"}, good : BOOLEAN, epoch : Nat] : caller' = [caller EXCEPT ![Timer] = x]
    <2> DEFINE x == IF kept /\ fetching /\ storage = "none" /\ ending = "no"
                    THEN Applying("hashing") ELSE Idle
    <2>1. caller' = [caller EXCEPT ![Timer] = x]
      BY DEF retryMetadataStorage
    <2>2. x \in [at : {"idle", "hashing"}, good : BOOLEAN, epoch : Nat]
      BY DEF Idle, Applying
    <2> QED BY <2>1, <2>2
  <1>3. PlanTyped' /\ RoundTyped' /\ Blame'
    BY <1>1, PlanFrame, RoundFrame, BlameFrame DEF MetadataInv, Typed, blameSide
  <1>4. CallsTyped'
    BY <1>1, <1>2 DEF MetadataInv, Typed, CallsTyped, Calls
  <1>5. SameAppliers
    BY <1>1, <1>2 DEF SameAppliers, Builds, Leaves, MetadataInv, Typed, CallsTyped
  <1>6. Applied'
    BY <1>1, <1>5, SameAppliersFrame DEF MetadataInv
  <1> QED BY <1>3, <1>4, <1>6 DEF MetadataInv, Typed

----------------------------------------------------------------------------
(* The rest of the session *)

\* Time that passes changes nobody's charge.
LEMMA TimeoutKeeps ==
  ASSUME MetadataInv, Timeout
  PROVE  MetadataInv'
  <1>1. UNCHANGED <<fetchPlan, size, pieces, from, owner, epoch, solo>> /\ UNCHANGED storageSide
    BY DEF Timeout, roundVars, storageVars, storageSide
  <1> QED BY <1>1, PlanFrame, RoundFrame, CallsFrame, AppliedFrame, BlameFrame
          DEF MetadataInv, Typed, blameSide, storageSide

\* A plan with fewer drops left.
LEMMA DropSpent ==
  ASSUME PlanTyped, fetchPlan.drops > 0, fetchPlan' = [fetchPlan EXCEPT !.drops = @ - 1]
  PROVE  PlanTyped'
  BY DEF PlanTyped, PlanType

\* A connection that ends owns nothing, and its blocks stay charged.
LEMMA DisconnectKeeps ==
  ASSUME MetadataInv, NEW c \in Fetchers, DropFetcher(c)
  PROVE  MetadataInv'
  <1>1. /\ owner' = owner \ {c} /\ UNCHANGED <<size, pieces, from, epoch, solo>> /\ UNCHANGED storageSide
        /\ UNCHANGED fetchPlan \/ (fetchPlan.drops > 0 /\ fetchPlan' = [fetchPlan EXCEPT !.drops = @ - 1])
    BY DEF DropFetcher, blameVars, storageVars, storageSide
  <1>2. PlanTyped'
    BY <1>1, PlanFrame, DropSpent DEF MetadataInv, Typed
  <1>3. CallsTyped' /\ Applied'
    BY <1>1, CallsFrame, AppliedFrame DEF MetadataInv, Typed, storageSide
  <1>4. RoundTyped'
    BY <1>1 DEF MetadataInv, Typed, RoundTyped
  <1>5. OneOwner' /\ Attributed'
    BY <1>1 DEF MetadataInv, Blame, OneOwner, Attributed
  <1>6. \A h : ChargedTo(h) => ChargedTo(h)'
    BY <1>1 DEF ChargedTo
  <1>7. Blame'
    BY <1>1, <1>5, <1>6 DEF MetadataInv, Blame, OneSupplier, Hosts
  <1> QED BY <1>2, <1>3, <1>4, <1>7 DEF MetadataInv, Typed

\* A connection that comes back owns nothing yet.
LEMMA ReconnectKeeps ==
  ASSUME MetadataInv, NEW c \in Fetchers, Reconnect(c)
  PROVE  MetadataInv'
  <1>1. /\ UNCHANGED <<size, pieces, from, owner, epoch, solo>> /\ UNCHANGED storageSide
        /\ fetchPlan.drops > 0 /\ fetchPlan' = [fetchPlan EXCEPT !.drops = @ - 1]
    BY DEF Reconnect, roundVars, blameVars, storageVars, storageSide
  <1>2. PlanTyped'
    BY <1>1, DropSpent DEF MetadataInv, Typed
  <1> QED BY <1>1, <1>2, RoundFrame, CallsFrame, AppliedFrame, BlameFrame
          DEF MetadataInv, Typed, blameSide, storageSide

\* Close waits for the build and closes what it left.
LEMMA CloseKeeps ==
  ASSUME MetadataInv, Close \/ CloseEnds
  PROVE  MetadataInv'
  <1>1. UNCHANGED <<fetchPlan, size, pieces, from, owner, epoch, solo, caller, building, kept, fetching>>
    BY DEF Close, CloseEnds, roundVars, blameVars
  <1>2. PlanTyped' /\ RoundTyped' /\ CallsTyped' /\ Blame'
    BY <1>1, PlanFrame, RoundFrame, CallsFrame, BlameFrame DEF MetadataInv, Typed, blameSide
  <1>3. SameAppliers
    BY <1>1 DEF SameAppliers, Builds, Leaves
  <1>4. OneApplies' /\ BuildingIsKnown'
    BY <1>1, <1>3 DEF MetadataInv, Applied, SameAppliers, OneApplies, BuildingIsKnown
  <1>5. CASE Close
    <2>1. ending = "no" /\ ending' = "closing" /\ retryArmed' = FALSE /\ storage' = storage
      BY <1>5 DEF Close
    <2> QED BY <1>1, <1>2, <1>3, <1>4, <2>1 DEF MetadataInv, Typed, Applied, SameAppliers, Flags, BuildsFirst, NothingLeft,
            ClosedWithSession, LeftWithStorage
  <1>6. CASE CloseEnds
    <2>1. /\ ending = "closing" /\ ~building /\ ending' = "closed" /\ retryArmed' = retryArmed
          /\ storage' = IF storage = "open" THEN "closed" ELSE storage
      BY <1>6 DEF CloseEnds
    <2> QED BY <1>1, <1>2, <1>3, <1>4, <2>1 DEF MetadataInv, Typed, Applied, SameAppliers, Flags, BuildsFirst, NothingLeft,
            ClosedWithSession, LeftWithStorage
  <1> QED BY <1>5, <1>6

----------------------------------------------------------------------------
(* Who is banned *)

\* What the hypotheses of the theorem say of the plan in use.
LiarsApart == \A c \in Liars, d \in Honest : HostOf[c] # HostOf[d]

\* They hold of every plan, spent or not.
LEMMA PlanKeepsApart ==
  ASSUME HostsApart, PlanTyped
  PROVE  LiarsApart
  <1>1. PICK p \in MetadataPlans : fetchPlan.size = p.size /\ fetchPlan.liars = p.liars
    BY DEF PlanTyped
  <1>2. Liars = LiarsOf(p)
    BY <1>1 DEF Liars, LiarsOf
  <1> QED BY <1>2 DEF HostsApart, LiarsApart, Honest

\* The hosts that are honest stay so.
SamePlan == fetchPlan'.size = fetchPlan.size /\ fetchPlan'.liars = fetchPlan.liars

\* No step changes a size or makes a liar.
LEMMA PlanStays ==
  ASSUME PlanTyped, [FetchNext]_fetchVars
  PROVE  SamePlan
  <1>1. \/ UNCHANGED fetchPlan
        \/ fetchPlan' = [fetchPlan EXCEPT !.failures = @ - 1]
        \/ fetchPlan' = [fetchPlan EXCEPT !.drops = @ - 1]
    BY DEF FetchNext, fetchVars, Ask, SkipRound, requestMetadataBlocks, acceptMetadataBlock, HashFails, ParseFails,
       StartBuild, BuildFails, PublishStorage, LeaveMetadata, retryMetadataStorage, Timeout, DropFetcher, Reconnect,
       Close, CloseEnds
  <1> QED BY <1>1 DEF PlanTyped, PlanType, SamePlan

\* Nor are the liars others.
LEMMA SameLiars ==
  ASSUME SamePlan
  PROVE  Liars' = Liars /\ Honest' = Honest
  BY DEF SamePlan, Liars, LiarsOf, Honest

\* Nothing is banned.
LEMMA BansFrame ==
  ASSUME HonestNeverBanned, SamePlan, UNCHANGED <<banned, overtaken>>
  PROVE  HonestNeverBanned'
  BY SameLiars DEF HonestNeverBanned

\* Connections that hash did so before.
SameHash == \A c \in Fetchers : Hashes(c)' => Hashes(c) /\ caller'[c] = caller[c]

\* Their assemblies stay, or their epoch is over.
LEMMA AssembliesStay ==
  ASSUME Guilt, Typed, SameHash,
         epoch' = epoch + 1 \/ (epoch' = epoch /\ (size = 0 \/ UNCHANGED <<size, pieces>>))
  PROVE  HashedAreIn'
  <1> SUFFICES ASSUME NEW c \in Fetchers, Hashes(c)'
               PROVE  caller'[c].epoch <= epoch' /\ (caller'[c].epoch = epoch' => Assembled(c)')
    BY DEF HashedAreIn
  <1>1. /\ caller[c].epoch <= epoch /\ (caller[c].epoch = epoch => Assembled(c)) /\ caller'[c] = caller[c]
        /\ epoch \in Nat /\ caller[c].epoch \in Nat
    BY DEF SameHash, Guilt, HashedAreIn, Typed, RoundTyped, CallsTyped, Calls, Callers
  <1>2. CASE epoch' = epoch + 1
    <2>1. caller[c].epoch <= epoch' /\ caller[c].epoch # epoch'
      BY <1>1, <1>2
    <2> QED BY <1>1, <2>1
  <1>3. CASE epoch' = epoch /\ size = 0
    BY <1>1, <1>3 DEF Assembled
  <1>4. CASE epoch' = epoch /\ UNCHANGED <<size, pieces>>
    BY <1>1, <1>4 DEF Assembled, Junk, Missing
  <1> QED BY <1>2, <1>3, <1>4

\* A round that starts empty, or goes on, holds what it held.
LEMMA RoundIsHonest ==
  ASSUME Guilt, SamePlan,
         \/ pieces' = <<>>
         \/ \E n \in Nat : pieces' = Empty(n)
         \/ UNCHANGED <<size, pieces>> /\ (from' = from \/ from' = <<>>)
  PROVE  LiarsFedJunk' /\ WrongSizeIsJunk'
  <1>1. CASE pieces' = <<>>
    BY <1>1 DEF LiarsFedJunk, WrongSizeIsJunk, Junk
  <1>2. ASSUME NEW n \in Nat, pieces' = Empty(n) PROVE LiarsFedJunk' /\ WrongSizeIsJunk'
    BY <1>2, EmptyRound DEF LiarsFedJunk, WrongSizeIsJunk, Junk
  <1>3. CASE UNCHANGED <<size, pieces>> /\ from' = from
    BY <1>3, SameLiars DEF Guilt, LiarsFedJunk, WrongSizeIsJunk, Junk
  <1>4. CASE UNCHANGED <<size, pieces>> /\ from' = <<>>
    <2>1. DOMAIN from' = {}
      BY <1>4
    <2> QED BY <1>4, <2>1 DEF Guilt, LiarsFedJunk, WrongSizeIsJunk, Junk
  <1> QED BY <1>1, <1>2, <1>3, <1>4

\* What the steps have in common that ban nobody and take no block.
LEMMA QuietIsFair ==
  ASSUME FairInv, SamePlan, SameHash, UNCHANGED <<banned, overtaken>>,
         \/ Discarded
         \/ UNCHANGED <<size, pieces, epoch>> /\ (from' = from \/ from' = <<>>)
  PROVE  Guilt'
  <1>1. /\ pieces' = <<>> \/ (UNCHANGED <<size, pieces>> /\ (from' = from \/ from' = <<>>))
        /\ epoch' = epoch + 1 \/ (epoch' = epoch /\ UNCHANGED <<size, pieces>>)
    BY DEF Discarded
  <1>2. HashedAreIn'
    BY <1>1, AssembliesStay DEF FairInv, MetadataInv
  <1>3. LiarsFedJunk' /\ WrongSizeIsJunk'
    BY <1>1, RoundIsHonest DEF FairInv
  <1>4. HonestNeverBanned'
    BY BansFrame DEF FairInv, Guilt
  <1> QED BY <1>2, <1>3, <1>4 DEF Guilt

\* A round that is replaced or taken over with blocks in starts a new epoch.
LEMMA AskIsFair ==
  ASSUME FairInv, SamePlan, NEW c \in Fetchers, NEW again, requestMetadataBlocks(c, again)
  PROVE  Guilt'
  <1>1. /\ Fresh(c) \/ TakenEmpty(c) \/ UNCHANGED <<size, pieces, from, owner, epoch>>
        /\ UNCHANGED <<fetchPlan, solo, banned, overtaken, live>> /\ UNCHANGED storageSide
    BY AskedRound DEF FairInv, MetadataInv
  <1>2. SameHash
    BY <1>1 DEF SameHash, Hashes, storageSide
  <1>3. CASE Fresh(c)
    <2>1. /\ \E n \in Nat : pieces' = Empty(n)
          /\ epoch' = epoch + 1 \/ (size = 0 /\ epoch' = epoch)
      BY <1>3 DEF Fresh
    <2>2. HashedAreIn'
      BY <1>2, <2>1, AssembliesStay DEF FairInv, MetadataInv
    <2>3. LiarsFedJunk' /\ WrongSizeIsJunk'
      BY <2>1, RoundIsHonest DEF FairInv
    <2>4. HonestNeverBanned'
      BY <1>1, BansFrame DEF FairInv, Guilt
    <2> QED BY <2>2, <2>3, <2>4 DEF Guilt
  <1>4. CASE TakenEmpty(c) \/ UNCHANGED <<size, pieces, from, owner, epoch>>
    <2>1. UNCHANGED <<size, pieces, epoch>> /\ from' = from
      BY <1>4 DEF TakenEmpty
    <2> QED BY <1>1, <1>2, <2>1, QuietIsFair
  <1> QED BY <1>1, <1>3, <1>4

\* The last block of an assembly that will fail leaves junk in it, its liar's.
LEMMA AcceptIsFair ==
  ASSUME FairInv, SamePlan, NEW c \in Fetchers, NEW k, acceptMetadataBlock(c, k)
  PROVE  Guilt'
  <1>1. /\ Counts(c, k) \/ UNCHANGED <<pieces, from, caller>>
        /\ caller[c].at = "idle" /\ UNCHANGED <<fetchPlan, size, epoch, banned, overtaken>>
    BY AcceptedBlock
  <1>2. HonestNeverBanned'
    BY <1>1, BansFrame DEF FairInv, Guilt
  <1>3. CASE UNCHANGED <<pieces, from, caller>>
    <2>1. SameHash
      BY <1>3 DEF SameHash, Hashes
    <2> QED BY <1>1, <1>3, <2>1, QuietIsFair
  <1>4. CASE Counts(c, k)
    <2> DEFINE block == IF c \in Liars THEN "junk" ELSE "genuine"
    <2>1. /\ size > 0 /\ k \in DOMAIN pieces /\ pieces[k] = "none" /\ (c \in Liars \/ fetchPlan.size[c] = size)
          /\ pieces' = [pieces EXCEPT ![k] = block]
          /\ from' = [j \in DOMAIN from |-> IF j = k THEN HostOf[c] ELSE from[j]]
      BY <1>4 DEF Counts
    <2>2. \A d \in Fetchers : Hashes(d) => caller[d].epoch <= epoch /\ caller[d].epoch # epoch
      BY <2>1 DEF FairInv, Guilt, HashedAreIn, Assembled, Missing
    <2>3. c \in Callers /\ \A d \in Callers \ {c} : caller'[d] = caller[d]
      BY <1>4 DEF Counts, FairInv, MetadataInv, Typed, CallsTyped, Callers
    <2>4. DOMAIN pieces' = DOMAIN pieces /\ pieces'[k] = block /\ \A j \in DOMAIN pieces \ {k} : pieces'[j] = pieces[j]
      BY <2>1
    <2>5. Liars' = Liars
      BY SameLiars
    <2>6. LiarsFedJunk'
      <3>1. SUFFICES ASSUME NEW j \in (Junk \cap DOMAIN from)' PROVE \E d \in Liars : from'[j] = HostOf[d]
        BY <2>5 DEF LiarsFedJunk
      <3>2. j \in DOMAIN from /\ j \in DOMAIN pieces /\ pieces'[j] = "junk"
        BY <2>1, <2>4, <3>1 DEF Junk
      <3>3. CASE j = k
        BY <2>1, <2>4, <3>2, <3>3
      <3>4. CASE j # k
        <4>1. j \in Junk \cap DOMAIN from /\ from'[j] = from[j]
          BY <2>1, <2>4, <3>2, <3>4 DEF Junk
        <4> QED BY <3>2, <4>1 DEF FairInv, Guilt, LiarsFedJunk
      <3> QED BY <3>3, <3>4
    <2>7. WrongSizeIsJunk'
      <3>1. SUFFICES ASSUME size # TrueSize, NEW j \in DOMAIN pieces PROVE pieces'[j] # "genuine"
        BY <1>1, <2>4 DEF WrongSizeIsJunk
      <3>2. c \in Liars
        BY <2>1, <3>1 DEF Liars, LiarsOf
      <3> QED BY <2>4, <3>1, <3>2 DEF FairInv, Guilt, WrongSizeIsJunk
    <2>8. HashedAreIn'
      <3>1. SUFFICES ASSUME NEW d \in Fetchers, Hashes(d)'
                     PROVE  caller'[d].epoch <= epoch /\ (caller'[d].epoch = epoch => Assembled(d)')
        BY <1>1 DEF HashedAreIn
      <3>2. CASE d # c
        <4>1. caller'[d] = caller[d] /\ Hashes(d)
          BY <2>3, <3>1, <3>2 DEF Callers, Hashes
        <4> QED BY <2>2, <4>1
      <3>3. CASE d = c
        <4>1. /\ Missing(pieces') = {} /\ caller'[c].epoch = epoch
              /\ caller'[c].good <=> size = TrueSize /\ \A j \in DOMAIN pieces' : pieces'[j] = "genuine"
          BY <1>4, <2>3, <3>1, <3>3 DEF Counts, Hashes, Idle, FairInv, MetadataInv, Typed, CallsTyped
        <4>2. \A j \in DOMAIN pieces' : pieces'[j] \in {"junk", "genuine"}
          <5>1. \A j \in DOMAIN pieces : pieces[j] \in Blocks
            BY PiecesIndexed DEF FairInv, MetadataInv, Typed, RoundTyped
          <5> QED BY <2>4, <4>1, <5>1 DEF Missing, Blocks
        <4>3. ~caller'[c].good => Junk' # {}
          <5>1. CASE size = TrueSize
            BY <4>1, <4>2, <5>1 DEF Junk
          <5>2. CASE size # TrueSize
            BY <1>1, <2>1, <2>4, <2>7, <4>2, <5>2 DEF WrongSizeIsJunk, Junk
          <5> QED BY <5>1, <5>2
        <4>4. epoch \in Nat
          BY DEF FairInv, MetadataInv, Typed, RoundTyped
        <4>5. size' > 0 /\ Missing(pieces)' = {}
          BY <1>1, <2>1, <4>1 DEF Missing
        <4>6. Assembled(c)'
          BY <4>3, <4>5 DEF Assembled
        <4> QED BY <3>3, <4>1, <4>4, <4>6
      <3> QED BY <3>2, <3>3
    <2> QED BY <1>2, <2>6, <2>7, <2>8 DEF Guilt
  <1> QED BY <1>1, <1>3, <1>4

\* The one host blamed for an assembly that fails in its epoch is a liar's.
LEMMA BanIsDeserved ==
  ASSUME FairInv, LiarsApart, NEW c \in Fetchers, Hashes(c), ~caller[c].good, caller[c].epoch = epoch,
         Cardinality(Suppliers) = 1
  PROVE  \A d \in Honest : HostOf[d] \notin Suppliers
  <1>1. Junk # {}
    BY DEF FairInv, Guilt, HashedAreIn, Assembled
  <1>2. PICK x : Suppliers = {x}
    BY SuppliersAreFinite, FS_Singleton DEF FairInv, MetadataInv, Typed, Blame
  <1>3. PICK k \in Junk : k \in DOMAIN from
    <2>1. DOMAIN from # {}
      BY <1>2 DEF Suppliers
    <2> QED BY <1>1, <2>1 DEF FairInv, MetadataInv, Blame, Attributed, Junk
  <1>4. PICK e \in Liars : from[k] = HostOf[e]
    BY <1>3 DEF FairInv, Guilt, LiarsFedJunk
  <1>5. x = HostOf[e]
    BY <1>2, <1>3, <1>4 DEF Suppliers
  <1> QED BY <1>2, <1>4, <1>5 DEF LiarsApart

\* And so the ban falls on a liar, or is overtaken.
LEMMA HashFailsIsFair ==
  ASSUME FairInv, LiarsApart, SamePlan, NEW c \in Fetchers, HashFails(c)
  PROVE  Guilt'
  <1> DEFINE feeders == IF WholeRound THEN Suppliers ELSE {}
             bans == IF Cardinality(feeders) = 1 THEN feeders \ {Loopback} ELSE {}
  <1>1. /\ Hashes(c) /\ ~caller[c].good /\ caller' = [caller EXCEPT ![c] = Idle]
        /\ banned' = banned \cup bans
        /\ overtaken' = IF epoch = caller[c].epoch THEN overtaken ELSE overtaken \cup bans
        /\ Discarded
    BY DEF HashFails, Hashes
  <1>2. SameHash
    BY <1>1 DEF SameHash, Hashes, Idle, FairInv, MetadataInv, Typed, CallsTyped, Callers
  <1>3. epoch = caller[c].epoch => \A d \in Honest : HostOf[d] \notin bans
    <2>1. CASE Cardinality(feeders) = 1
      <3>1. feeders = Suppliers
        BY <2>1, FS_EmptySet
      <3> QED BY <1>1, <2>1, <3>1, BanIsDeserved
    <2>2. CASE Cardinality(feeders) # 1
      BY <2>2
    <2> QED BY <2>1, <2>2
  <1>4. HonestNeverBanned'
    <2> HIDE DEF bans
    <2> QED BY <1>1, <1>3, SameLiars DEF FairInv, Guilt, HonestNeverBanned
  <1>5. pieces' = <<>> /\ epoch' = epoch + 1
    BY <1>1 DEF Discarded
  <1>6. HashedAreIn' /\ LiarsFedJunk' /\ WrongSizeIsJunk'
    BY <1>2, <1>5, AssembliesStay, RoundIsHonest DEF FairInv, MetadataInv
  <1> QED BY <1>4, <1>6 DEF Guilt

\* Storage, its retries and its failures blame nobody.
LEMMA StorageIsFair ==
  ASSUME FairInv, SamePlan, Timer \notin Fetchers,
         retryMetadataStorage \/ \E c \in Callers : \/ ParseFails(c) \/ StartBuild(c) \/ BuildFails(c)
                                                    \/ PublishStorage(c) \/ LeaveMetadata(c)
  PROVE  Guilt'
  <1>1. ASSUME NEW c \in Callers, ParseFails(c) \/ BuildFails(c) \/ StartBuild(c) \/ PublishStorage(c) \/ LeaveMetadata(c)
        PROVE  Guilt'
    <2>1. \E x \in Calls : x.at # "hashing" /\ caller' = [caller EXCEPT ![c] = x]
      <3>1. Idle \in Calls /\ Applying("building") \in Calls /\ Applying("leaving") \in Calls
        BY DEF Idle, Applying, Calls
      <3>2. Idle.at # "hashing" /\ Applying("building").at # "hashing" /\ Applying("leaving").at # "hashing"
        BY DEF Idle, Applying
      <3>3. caller' \in {[caller EXCEPT ![c] = x] : x \in {Idle, Applying("building"), Applying("leaving")}}
        BY <1>1 DEF ParseFails, BuildFails, StartBuild, PublishStorage, LeaveMetadata
      <3> QED BY <3>1, <3>2, <3>3
    <2>2. SameHash
      BY <2>1 DEF SameHash, Hashes, FairInv, MetadataInv, Typed, CallsTyped, Callers
    <2>3. UNCHANGED <<banned, overtaken>>
      BY <1>1 DEF ParseFails, BuildFails, StartBuild, PublishStorage, LeaveMetadata, blameVars
    <2>4. Discarded \/ (UNCHANGED <<size, pieces, epoch>> /\ (from' = from \/ from' = <<>>))
      BY <1>1 DEF ParseFails, BuildFails, StartBuild, PublishStorage, LeaveMetadata, NoBlame, roundVars
    <2> QED BY <2>2, <2>3, <2>4, QuietIsFair
  <1>2. CASE retryMetadataStorage
    <2>1. \A d \in Fetchers : caller'[d] = caller[d]
      BY <1>2 DEF retryMetadataStorage, FairInv, MetadataInv, Typed, CallsTyped, Callers
    <2>2. SameHash
      BY <2>1 DEF SameHash, Hashes
    <2>3. UNCHANGED <<banned, overtaken, size, pieces, epoch, from>>
      BY <1>2 DEF retryMetadataStorage, blameVars, roundVars
    <2> QED BY <2>2, <2>3, QuietIsFair
  <1> QED BY <1>1, <1>2

\* Nor do time, connections that come and go, and the end of the session.
LEMMA SessionIsFair ==
  ASSUME FairInv, SamePlan,
         Timeout \/ Close \/ CloseEnds \/ \E c \in Fetchers : SkipRound(c) \/ DropFetcher(c) \/ Reconnect(c)
  PROVE  Guilt'
  <1>1. UNCHANGED <<banned, overtaken, size, pieces, epoch, from, caller>>
    BY DEF Timeout, Close, CloseEnds, SkipRound, DropFetcher, Reconnect, roundVars, blameVars
  <1>2. SameHash
    BY <1>1 DEF SameHash, Hashes
  <1> QED BY <1>1, <1>2, QuietIsFair

----------------------------------------------------------------------------
(* The theorems *)

\* The invariant holds at first.
LEMMA MetadataInit == MetadataAssumption /\ FetchInit => MetadataInv
  <1> SUFFICES ASSUME MetadataAssumption, FetchInit PROVE MetadataInv
    OBVIOUS
  <1>1. /\ fetchPlan \in MetadataPlans /\ fetching = TRUE /\ size = 0 /\ epoch = 0 /\ pieces = <<>> /\ from = <<>> /\ owner = {}
        /\ solo = FALSE /\ kept = FALSE /\ retryArmed = FALSE /\ storage = "none" /\ building = FALSE /\ ending = "no"
        /\ caller = [c \in Callers |-> Idle]
    BY DEF FetchInit
  <1>2. Typed
    BY <1>1 DEF Typed, PlanTyped, RoundTyped, CallsTyped, Calls, MetadataAssumption, Idle
  <1>3. \A c \in Callers : ~Builds(c) /\ ~Leaves(c)
    BY <1>1 DEF Builds, Leaves, Idle
  <1>4. Applied
    BY <1>1, <1>3 DEF Applied, Flags, OneApplies, BuildingIsKnown, BuildsFirst, NothingLeft, ClosedWithSession, LeftWithStorage
  <1>5. DOMAIN from = {}
    BY <1>1
  <1>6. Blame
    BY <1>1, <1>5 DEF Blame, OneOwner, Attributed, OneSupplier
  <1> QED BY <1>2, <1>4, <1>6 DEF MetadataInv

\* Every step preserves it.
LEMMA MetadataStep == MetadataInv /\ [FetchNext]_fetchVars => MetadataInv'
  <1> SUFFICES ASSUME MetadataInv, [FetchNext]_fetchVars PROVE MetadataInv'
    OBVIOUS
  <1>1. CASE UNCHANGED fetchVars
    <2>1. UNCHANGED <<fetchPlan, size, pieces, from, owner, epoch, solo>> /\ UNCHANGED storageSide
      BY <1>1 DEF fetchVars, roundVars, blameVars, storageVars, storageSide
    <2> QED BY <2>1, PlanFrame, RoundFrame, CallsFrame, AppliedFrame, BlameFrame
            DEF MetadataInv, Typed, blameSide, storageSide
  <1>2. ASSUME NEW c \in Fetchers, Ask(c) PROVE MetadataInv'
    BY <1>2, AskKeeps DEF Ask
  <1>3. ASSUME NEW c \in Fetchers, SkipRound(c) \/ HashFails(c) \/ DropFetcher(c) \/ Reconnect(c) PROVE MetadataInv'
    BY <1>3, SkipKeeps, HashFailsKeeps, DisconnectKeeps, ReconnectKeeps
  <1>4. ASSUME NEW c \in Fetchers, NEW k, acceptMetadataBlock(c, k) PROVE MetadataInv'
    BY <1>4, AcceptKeeps
  <1>5. ASSUME NEW c \in Callers,
               ParseFails(c) \/ StartBuild(c) \/ BuildFails(c) \/ PublishStorage(c) \/ LeaveMetadata(c)
        PROVE  MetadataInv'
    BY <1>5, ParseFailsKeeps, StartBuildKeeps, BuildFailsKeeps, PublishKeeps, LeaveKeeps
  <1>6. CASE retryMetadataStorage \/ Timeout \/ Close \/ CloseEnds
    BY <1>6, RetryKeeps, TimeoutKeeps, CloseKeeps
  <1> QED BY <1>1, <1>2, <1>3, <1>4, <1>5, <1>6 DEF FetchNext

\* And, where no honest connection shares its host with a liar, who is banned.
LEMMA GuiltStep ==
  ASSUME FairInv, LiarsApart, Timer \notin Fetchers, [FetchNext]_fetchVars
  PROVE  Guilt'
  <1>0. SamePlan
    BY PlanStays DEF FairInv, MetadataInv, Typed
  <1>1. CASE UNCHANGED fetchVars
    <2>1. UNCHANGED <<banned, overtaken, size, pieces, epoch, from, caller>>
      BY <1>1 DEF fetchVars, roundVars, blameVars
    <2>2. SameHash
      BY <2>1 DEF SameHash, Hashes
    <2> QED BY <1>0, <2>1, <2>2, QuietIsFair
  <1>2. ASSUME NEW c \in Fetchers, Ask(c) PROVE Guilt'
    BY <1>0, <1>2, AskIsFair DEF Ask
  <1>3. ASSUME NEW c \in Fetchers, HashFails(c) PROVE Guilt'
    BY <1>0, <1>3, HashFailsIsFair
  <1>4. ASSUME NEW c \in Fetchers, NEW k, acceptMetadataBlock(c, k) PROVE Guilt'
    BY <1>0, <1>4, AcceptIsFair
  <1>5. CASE retryMetadataStorage \/ \E c \in Callers : \/ ParseFails(c) \/ StartBuild(c) \/ BuildFails(c)
                                                        \/ PublishStorage(c) \/ LeaveMetadata(c)
    BY <1>0, <1>5, StorageIsFair
  <1>6. CASE Timeout \/ Close \/ CloseEnds \/ \E c \in Fetchers : SkipRound(c) \/ DropFetcher(c) \/ Reconnect(c)
    BY <1>0, <1>6, SessionIsFair
  <1> QED BY <1>1, <1>2, <1>3, <1>4, <1>5, <1>6 DEF FetchNext

\* At first nobody is.
LEMMA GuiltInit == MetadataAssumption /\ FetchInit => Guilt
  <1> SUFFICES ASSUME MetadataAssumption, FetchInit PROVE Guilt
    OBVIOUS
  <1>1. pieces = <<>> /\ banned = {} /\ caller = [c \in Callers |-> Idle]
    BY DEF FetchInit
  <1>2. \A c \in Fetchers : ~Hashes(c)
    BY <1>1 DEF Hashes, Idle, Callers
  <1>3. Junk = {}
    BY <1>1 DEF Junk
  <1> QED BY <1>1, <1>2, <1>3 DEF Guilt, HashedAreIn, LiarsFedJunk, WrongSizeIsJunk, HonestNeverBanned

\* What the layers say of the properties.
LEMMA BlameIsSingle == MetadataInv => SoloHasOneSupplier
  <1> SUFFICES ASSUME MetadataInv, solo PROVE Cardinality(Suppliers \ {NoHost}) <= 1
    BY DEF SoloHasOneSupplier
  <1>1. PICK h \in Hosts : \A k \in DOMAIN from : from[k] \in {NoHost, h}
    BY DEF MetadataInv, Blame, OneSupplier, ChargedTo
  <1>2. Suppliers \ {NoHost} = {} \/ Suppliers \ {NoHost} = {h}
    BY <1>1 DEF Suppliers
  <1>3. Cardinality({}) = 0 /\ Cardinality({h}) = 1
    BY FS_EmptySet, FS_Singleton
  <1> QED BY <1>2, <1>3

\* One caller at most applies.
LEMMA AppliedIsOnce == MetadataInv => AppliedOnce
  <1> SUFFICES ASSUME MetadataInv PROVE AppliedOnce
    OBVIOUS
  <1> DEFINE S == {c \in Callers : caller[c].at \in {"building", "leaving"}}
  <1>1. S = {} \/ \E c : S = {c}
    BY DEF MetadataInv, Applied, OneApplies, Builds, Leaves
  <1>2. Cardinality(S) <= 1
    <2>1. S = {} => Cardinality(S) = 0
      BY FS_EmptySet
    <2>2. \A c : S = {c} => Cardinality(S) = 1
      BY FS_Singleton
    <2>3. Cardinality(S) = 0 \/ Cardinality(S) = 1
      BY <1>1, <2>1, <2>2
    <2> HIDE DEF S
    <2> QED BY <2>3
  <1>3. building <=> \E c \in Callers : caller[c].at = "building"
    BY DEF MetadataInv, Applied, BuildingIsKnown, Builds
  <1> QED BY <1>2, <1>3 DEF AppliedOnce, MetadataInv, Applied, NothingLeft, ClosedWithSession, LeftWithStorage

\* Metadata is applied once, through builds that fail, their retries and Close,
\* and a solo round has one supplier, whatever sizes connections advertise
\* (session.go:1720, peer_conn.go:2330).
THEOREM MetadataAppliedOnce == MetadataAssumption => (FetchSpec => [](SoloHasOneSupplier /\ AppliedOnce))
  <1> SUFFICES ASSUME MetadataAssumption PROVE FetchSpec => [](SoloHasOneSupplier /\ AppliedOnce)
    OBVIOUS
  <1>1. FetchInit => MetadataInv
    BY MetadataInit
  <1>2. MetadataInv /\ [FetchNext]_fetchVars => MetadataInv'
    BY MetadataStep
  <1>3. MetadataInv => SoloHasOneSupplier /\ AppliedOnce
    BY BlameIsSingle, AppliedIsOnce
  <1> QED BY <1>1, <1>2, <1>3, PTL DEF FetchSpec

\* And where no honest connection shares its host with a liar, no honest host is
\* banned but by a verdict that its round did not wait for (session.go:2066).
THEOREM MetadataFair == MetadataAssumption /\ HostsApart => (FetchSpec => []MetadataIsFair)
  <1> SUFFICES ASSUME MetadataAssumption, HostsApart PROVE FetchSpec => []MetadataIsFair
    OBVIOUS
  <1>1. FetchInit => FairInv
    BY MetadataInit, GuiltInit DEF FairInv
  <1>2. FairInv /\ [FetchNext]_fetchVars => FairInv'
    <2> SUFFICES ASSUME FairInv, [FetchNext]_fetchVars PROVE FairInv'
      OBVIOUS
    <2>1. MetadataInv'
      BY MetadataStep DEF FairInv
    <2>2. LiarsApart /\ Timer \notin Fetchers
      BY PlanKeepsApart DEF FairInv, MetadataInv, Typed, MetadataAssumption
    <2>3. Guilt'
      BY <2>2, GuiltStep
    <2> QED BY <2>1, <2>3 DEF FairInv
  <1>3. FairInv => MetadataIsFair
    BY BlameIsSingle, AppliedIsOnce DEF FairInv, Guilt, MetadataIsFair
  <1> QED BY <1>1, <1>2, <1>3, PTL DEF FetchSpec
=============================================================================
