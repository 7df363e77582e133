---------------------------- MODULE State_proofs ----------------------------
(***************************************************************************)
(* The theorems about what a manager keeps beyond a session, for the three *)
(* modules that share no state: PathClaims, CrashContainment and           *)
(* ResumeCheckpoint.  Each part begins with its invariant.                 *)
(***************************************************************************)
EXTENDS PathClaims, CrashContainment, ResumeCheckpoint, FiniteSetTheorems, TLAPS

-----------------------------------------------------------------------------
(***************************************************************************)
(* Proofs about PathClaims, for any torrents, paths and file lists: its    *)
(* tables are exact (ClaimsAreExact) and implement PathOwnership.          *)
(*                                                                         *)
(* The heart is that three stored counts are the sizes of three sets: what *)
(* a torrent holds of a path is the number of its releases not called yet, *)
(* the shared count is the sum of the second table's row, and the deleting *)
(* count the number of reservations not released.  The set of outstanding  *)
(* releases numbers each of them, so that calling one removes an element   *)
(* and no sum over the torrents is needed.                                 *)
(***************************************************************************)

-----------------------------------------------------------------------------
(* The inductive invariant *)

\* The releases of t's claims on p, of shared claims on p and of reservations
\* of p that have not been called.
HoldsOn(p, t) == UNION {{K} \X (1 .. holds[t][K]) : K \in {J \in SUBSET Path : p \in J}}
SharersOf(p) == UNION {{t} \X (1 .. sharedClaims[p][t]) : t \in Torrent}
ReservedOn(p) ==
  UNION {UNION {{<<t, F>>} \X (1 .. reservations[t][F]) : F \in {G \in SUBSET Path : p \in G}} :
           t \in Torrent \cup {Nobody}}

Counts(n, S) == IsFiniteSet(S) /\ Cardinality(S) = n

HoldsCounted == \A p \in Path, t \in Torrent : Counts(OwnRefs(p, t), HoldsOn(p, t))
SharesCounted == \A p \in Path : Counts(pathClaims[p].shared, SharersOf(p))
DeletingCounted == \A p \in Path : Counts(pathClaims[p].deleting, ReservedOn(p))

\* A torrent is in one of the two tables; the inline slot names a torrent; and
\* an entry that counts nothing has been dropped.
OneTable == \A p \in Path, t \in Torrent : Inline(p, t) => sharedClaims[p][t] = 0
InlineIsTorrent == \A p \in Path : pathClaims[p].refs > 0 => pathClaims[p].infoHash \in Torrent
EmptyIsDropped ==
  \A p \in Path :
    AllRefs(p) + pathClaims[p].deleting = 0 => pathClaims[p] = Unclaimed

\* Holders declare the length the entry records.
LengthIsTheirs ==
  \A p \in Path, t \in Torrent : OwnRefs(p, t) > 0 => pathClaims[p].length = LengthOf[t][p]

TablesInv ==
  /\ ClaimsTypeOK
  /\ HoldsCounted /\ SharesCounted /\ DeletingCounted
  /\ OneTable /\ InlineIsTorrent /\ EmptyIsDropped /\ LengthIsTheirs
  /\ DeletionIsExclusive

-----------------------------------------------------------------------------
(* Counting *)

\* A counted set that gains or loses one element counts one more or less.
LEMMA OneMore ==
  ASSUME NEW n \in Nat, NEW S, NEW e, Counts(n, S), e \notin S
  PROVE  Counts(n + 1, S \cup {e})
  BY FS_AddElement DEF Counts

\* Taking an element away lowers the count by one.
LEMMA OneLess ==
  ASSUME NEW n \in Nat, NEW S, NEW e, Counts(n, S), e \in S
  PROVE  n > 0 /\ Counts(n - 1, S \ {e})
<1>1. IsFiniteSet(S \ {e}) /\ Cardinality(S \ {e}) = Cardinality(S) - 1
  BY FS_RemoveElement DEF Counts
<1>2. Cardinality(S \ {e}) \in Nat
  BY <1>1, FS_CardinalityType
<1> QED
  BY <1>1, <1>2 DEF Counts

\* A count is zero when its set is empty.
LEMMA NoneLeft ==
  ASSUME NEW n \in Nat, NEW S, Counts(n, S)
  PROVE  n = 0 <=> S = {}
  BY FS_EmptySet DEF Counts

\* What the three sets contain.
LEMMA Members ==
  ASSUME NEW p \in Path
  PROVE  /\ \A t \in Torrent : \A h :
              h \in HoldsOn(p, t) <=>
                \E K \in SUBSET Path : \E i \in 1 .. holds[t][K] : p \in K /\ h = <<K, i>>
         /\ \A s : s \in SharersOf(p) <=>
              \E t \in Torrent : \E i \in 1 .. sharedClaims[p][t] : s = <<t, i>>
         /\ \A r : r \in ReservedOn(p) <=>
              \E t \in Torrent \cup {Nobody}, F \in SUBSET Path :
                \E i \in 1 .. reservations[t][F] : p \in F /\ r = <<<<t, F>>, i>>
<1>1. ASSUME NEW t \in Torrent, NEW h
      PROVE  h \in HoldsOn(p, t) <=>
               \E K \in SUBSET Path : \E i \in 1 .. holds[t][K] : p \in K /\ h = <<K, i>>
  BY DEF HoldsOn
<1>2. ASSUME NEW s
      PROVE  s \in SharersOf(p) <=>
               \E t \in Torrent : \E i \in 1 .. sharedClaims[p][t] : s = <<t, i>>
  BY DEF SharersOf
<1>3. ASSUME NEW r
      PROVE  r \in ReservedOn(p) <=>
               \E t \in Torrent \cup {Nobody}, F \in SUBSET Path :
                 \E i \in 1 .. reservations[t][F] : p \in F /\ r = <<<<t, F>>, i>>
  BY DEF ReservedOn
<1> QED
  BY <1>1, <1>2, <1>3

-----------------------------------------------------------------------------
(* What the tables say *)

\* The shared count is zero, or all one torrent's, exactly when the row is.
LEMMA SharedRow ==
  ASSUME TablesInv, NEW p \in Path
  PROVE  /\ pathClaims[p].shared = 0 => \A u \in Torrent : sharedClaims[p][u] = 0
         /\ \A t \in Torrent :
              /\ sharedClaims[p][t] <= pathClaims[p].shared
              /\ pathClaims[p].shared = sharedClaims[p][t] =>
                   \A u \in Torrent \ {t} : sharedClaims[p][u] = 0
              /\ (\A u \in Torrent \ {t} : sharedClaims[p][u] = 0) =>
                   pathClaims[p].shared = sharedClaims[p][t]
<1> DEFINE n == pathClaims[p].shared
           S == SharersOf(p)
           Of(t) == {t} \X (1 .. sharedClaims[p][t])
<1>1. n \in Nat /\ Counts(n, S) /\ \A t \in Torrent : sharedClaims[p][t] \in Nat
  BY DEF TablesInv, SharesCounted, ClaimsTypeOK, Claim
<1>2. \A t \in Torrent : Of(t) \subseteq S
  BY DEF SharersOf
<1>3. ASSUME NEW t \in Torrent
      PROVE  Counts(sharedClaims[p][t], Of(t))
  <2>1. IsFiniteSet(1 .. sharedClaims[p][t]) /\ Cardinality(1 .. sharedClaims[p][t]) = sharedClaims[p][t]
    <3> DEFINE m == sharedClaims[p][t]
    <3>1. m \in Nat
      BY <1>1
    <3> HIDE DEF m
    <3>2. IsFiniteSet(1 .. m) /\ Cardinality(1 .. m) = m
      BY <3>1, FS_Interval
    <3> QED
      BY <3>2 DEF m
  <2>2. IsFiniteSet({t}) /\ Cardinality({t}) = 1
    BY FS_Singleton
  <2>3. IsFiniteSet(Of(t)) /\ Cardinality(Of(t)) = 1 * Cardinality(1 .. sharedClaims[p][t])
    BY <2>1, <2>2, FS_Product
  <2> QED
    BY <2>1, <2>3, <1>1 DEF Counts
<1>4. ASSUME n = 0, NEW u \in Torrent PROVE sharedClaims[p][u] = 0
  <2>1. S = {}
    BY <1>1, <1>4, NoneLeft
  <2>2. Of(u) = {}
    BY <1>2, <2>1
  <2> QED
    BY <1>1, <1>3, <2>2, NoneLeft
<1>5. ASSUME NEW t \in Torrent
      PROVE  sharedClaims[p][t] <= n
  <2>1. Cardinality(Of(t)) <= Cardinality(S)
    BY <1>1, <1>2, FS_Subset DEF Counts
  <2> QED
    BY <1>1, <1>3, <2>1 DEF Counts
<1>6. ASSUME NEW t \in Torrent, n = sharedClaims[p][t], NEW u \in Torrent \ {t}
      PROVE  sharedClaims[p][u] = 0
  <2>1. Of(t) = S
    BY <1>1, <1>2, <1>3, <1>6, FS_Subset DEF Counts
  <2>2. Of(u) = {}
    BY <1>2, <2>1
  <2> QED
    BY <1>1, <1>3, <2>2, NoneLeft
<1>7. ASSUME NEW t \in Torrent, \A u \in Torrent \ {t} : sharedClaims[p][u] = 0
      PROVE  n = sharedClaims[p][t]
  <2>1. S = Of(t)
    BY <1>7, <1>1 DEF SharersOf
  <2> QED
    BY <1>1, <1>3, <2>1 DEF Counts
<1> QED
  BY <1>4, <1>5, <1>6, <1>7

\* What a torrent holds of a path, without the code's shortcut for an empty
\* second table.
LEMMA OwnRefsIs ==
  ASSUME TablesInv, NEW p \in Path, NEW t \in Torrent
  PROVE  /\ OwnRefs(p, t) = IF Inline(p, t) THEN pathClaims[p].refs ELSE sharedClaims[p][t]
         /\ OwnRefs(p, t) \in Nat
         /\ Shares(p, t) <=> sharedClaims[p][t] > 0
<1>1. /\ pathClaims[p].shared \in Nat /\ pathClaims[p].refs \in Nat
      /\ sharedClaims[p][t] \in Nat
  BY DEF TablesInv, ClaimsTypeOK, Claim
<1>2. sharedClaims[p][t] <= pathClaims[p].shared
  BY SharedRow
<1> QED
  BY <1>1, <1>2 DEF OwnRefs, Inline, Shares

\* addHolds and claimFreePaths count everybody's references; they are the
\* caller's own exactly when nobody else holds the path.
LEMMA AllAreOwn ==
  ASSUME TablesInv, NEW p \in Path, NEW t \in Torrent
  PROVE  AllRefs(p) <= OwnRefs(p, t) <=> \A u \in Torrent \ {t} : OwnRefs(p, u) = 0
<1> DEFINE c == pathClaims[p]
           own(u) == sharedClaims[p][u]
<1>1. c.shared \in Nat /\ c.refs \in Nat /\ \A u \in Torrent : own(u) \in Nat
  BY DEF TablesInv, ClaimsTypeOK, Claim
<1>2. \A u \in Torrent : OwnRefs(p, u) = IF c.refs > 0 /\ c.infoHash = u THEN c.refs ELSE own(u)
  BY OwnRefsIs DEF Inline
<1>3. c.refs > 0 => c.infoHash \in Torrent /\ own(c.infoHash) = 0
  BY DEF TablesInv, InlineIsTorrent, OneTable, Inline
<1>4. \A u \in Torrent :
        /\ own(u) <= c.shared
        /\ c.shared = own(u) => \A w \in Torrent \ {u} : own(w) = 0
        /\ (\A w \in Torrent \ {u} : own(w) = 0) => c.shared = own(u)
  BY SharedRow
<1>5. c.shared = 0 => \A u \in Torrent : own(u) = 0
  BY SharedRow
<1>6. ASSUME \A u \in Torrent \ {t} : OwnRefs(p, u) = 0
      PROVE  AllRefs(p) <= OwnRefs(p, t)
  <2>1. c.refs > 0 => c.infoHash = t
    BY <1>2, <1>3, <1>6
  <2>2. \A u \in Torrent \ {t} : own(u) = 0
    BY <2>1, <1>2, <1>6
  <2>3. c.shared = own(t)
    BY <2>2, <1>4
  <2> QED
    BY <2>1, <2>3, <1>1, <1>2, <1>3 DEF AllRefs
<1>7. ASSUME AllRefs(p) <= OwnRefs(p, t)
      PROVE  \A u \in Torrent \ {t} : OwnRefs(p, u) = 0
  <2>1. CASE c.refs > 0 /\ c.infoHash = t
    BY <2>1, <1>1, <1>2, <1>5, <1>7 DEF AllRefs
  <2>2. CASE ~(c.refs > 0 /\ c.infoHash = t)
    <3>1. c.refs = 0 /\ c.shared = own(t)
      BY <2>2, <1>1, <1>2, <1>4, <1>7 DEF AllRefs
    <3> QED
      BY <3>1, <1>2, <1>4
  <2> QED
    BY <2>1, <2>2
<1> QED
  BY <1>6, <1>7

\* A path nobody refers to has no holder.
LEMMA NobodyHolds ==
  ASSUME TablesInv, NEW p \in Path
  PROVE  AllRefs(p) = 0 <=> \A u \in Torrent : OwnRefs(p, u) = 0
<1> DEFINE c == pathClaims[p]
<1>1. c.shared \in Nat /\ c.refs \in Nat /\ (c.refs > 0 => c.infoHash \in Torrent)
  BY DEF TablesInv, ClaimsTypeOK, Claim, InlineIsTorrent
<1>2. \A u \in Torrent : OwnRefs(p, u) \in Nat
  BY OwnRefsIs
<1>3. ASSUME AllRefs(p) = 0, NEW u \in Torrent PROVE OwnRefs(p, u) = 0
  BY <1>1, <1>3 DEF AllRefs, OwnRefs, Inline
<1>4. ASSUME \A u \in Torrent : OwnRefs(p, u) = 0 PROVE AllRefs(p) = 0
  <2>1. CASE Torrent = {}
    <3>1. SharersOf(p) = {}
      BY <2>1 DEF SharersOf
    <3>2. c.shared = 0
      BY <3>1, <1>1, NoneLeft DEF TablesInv, SharesCounted
    <3> QED
      BY <2>1, <3>2, <1>1 DEF AllRefs
  <2>2. ASSUME NEW t \in Torrent PROVE AllRefs(p) = 0
    <3>1. AllRefs(p) <= OwnRefs(p, t)
      BY <1>4, AllAreOwn
    <3>2. AllRefs(p) \in Nat /\ OwnRefs(p, t) = 0
      BY <1>1, <1>4 DEF AllRefs
    <3> QED
      BY <3>1, <3>2
  <2> QED
    BY <2>1, <2>2
<1> QED
  BY <1>3, <1>4

-----------------------------------------------------------------------------
(* What each operation does to what the tables say.  For a claim and a     *)
(* release: what torrent u holds of path p changes by one when u is the    *)
(* torrent and p a path of K, and by nothing otherwise.                    *)

Shifts(t, K, d) ==
  \A p \in Path, u \in Torrent :
    OwnRefs(p, u)' = OwnRefs(p, u) + (IF u = t /\ p \in K THEN d ELSE 0)

\* A claim raises the torrent's own count on its paths by one.
LEMMA ClaimMoves ==
  ASSUME TablesInv, NEW t \in Torrent, NEW K \in SUBSET Path, ClaimPaths(t, K)
  PROVE  Shifts(t, K, 1)
<1> SUFFICES ASSUME NEW p \in Path, NEW u \in Torrent
             PROVE  OwnRefs(p, u)' = OwnRefs(p, u) + (IF u = t /\ p \in K THEN 1 ELSE 0)
  BY DEF Shifts
<1>1. /\ pathClaims'[p] = IF p \in K THEN AddHold(p, t) ELSE pathClaims[p]
      /\ sharedClaims'[p] = IF p \in K /\ ~TakesInline(p, t)
                            THEN [sharedClaims[p] EXCEPT ![t] = @ + 1]
                            ELSE sharedClaims[p]
  BY DEF ClaimPaths
<1>2. /\ pathClaims[p] \in Claim /\ sharedClaims[p] \in [Torrent -> Nat]
      /\ Inline(p, t) => sharedClaims[p][t] = 0
  BY DEF TablesInv, ClaimsTypeOK, OneTable
<1>3. \A w \in Torrent :
        /\ OwnRefs(p, w) = IF Inline(p, w) THEN pathClaims[p].refs ELSE sharedClaims[p][w]
        /\ Shares(p, w) <=> sharedClaims[p][w] > 0
        /\ pathClaims[p].shared = 0 => sharedClaims[p][w] = 0
  BY OwnRefsIs, SharedRow
<1>4. CASE p \notin K
  BY <1>1, <1>2, <1>4 DEF OwnRefs, Inline, Claim
<1>5. CASE p \in K /\ ~TakesInline(p, t)
  BY <1>1, <1>2, <1>3, <1>5 DEF OwnRefs, Inline, Claim, AddHold, TakesInline
<1>6. CASE p \in K /\ Inline(p, t)
  BY <1>1, <1>2, <1>3, <1>6 DEF OwnRefs, Inline, Claim, AddHold, TakesInline
<1>7. CASE p \in K /\ ~Inline(p, t) /\ TakesInline(p, t)
  BY <1>1, <1>2, <1>3, <1>7 DEF OwnRefs, Inline, Claim, AddHold, TakesInline
<1> QED
  BY <1>4, <1>5, <1>6, <1>7

\* A release not called yet is of claims the tables hold.
LEMMA HeldIsOwned ==
  ASSUME TablesInv, NEW t \in Torrent, NEW K \in SUBSET Path, Once(holds[t][K]), NEW p \in K
  PROVE  OwnRefs(p, t) > 0 /\ <<K, holds[t][K]>> \in HoldsOn(p, t)
<1>1. holds[t][K] \in 1 .. holds[t][K]
  BY DEF TablesInv, ClaimsTypeOK, Once
<1>2. <<K, holds[t][K]>> \in HoldsOn(p, t)
  BY <1>1, Members
<1>3. OwnRefs(p, t) \in Nat /\ Counts(OwnRefs(p, t), HoldsOn(p, t))
  BY OwnRefsIs DEF TablesInv, HoldsCounted
<1> QED
  BY <1>2, <1>3, OneLess

\* A release lowers the torrent's own count on its paths by one.
LEMMA ReleaseMoves ==
  ASSUME TablesInv, NEW t \in Torrent, NEW K \in SUBSET Path, ReleaseHold(t, K)
  PROVE  Shifts(t, K, -1)
<1> SUFFICES ASSUME NEW p \in Path, NEW u \in Torrent
             PROVE  OwnRefs(p, u)' = OwnRefs(p, u) + (IF u = t /\ p \in K THEN -1 ELSE 0)
  BY DEF Shifts
<1>1. /\ pathClaims'[p] = IF p \in K THEN RemoveHold(p, t) ELSE pathClaims[p]
      /\ sharedClaims'[p] = IF p \in K /\ ~Inline(p, t) /\ Shares(p, t)
                            THEN [sharedClaims[p] EXCEPT ![t] = @ - 1]
                            ELSE sharedClaims[p]
  BY DEF ReleaseHold
<1>2. /\ pathClaims[p] \in Claim /\ sharedClaims[p] \in [Torrent -> Nat]
      /\ Inline(p, t) => sharedClaims[p][t] = 0
      /\ Nobody \notin Torrent
  BY ClaimsAssumption DEF TablesInv, ClaimsTypeOK, OneTable
<1>3. \A w \in Torrent :
        /\ OwnRefs(p, w) = IF Inline(p, w) THEN pathClaims[p].refs ELSE sharedClaims[p][w]
        /\ Shares(p, w) <=> sharedClaims[p][w] > 0
        /\ pathClaims[p].shared = 0 => sharedClaims[p][w] = 0
        /\ w # t /\ pathClaims[p].shared = sharedClaims[p][t] => sharedClaims[p][w] = 0
  BY OwnRefsIs, SharedRow
<1>4. p \in K => OwnRefs(p, t) > 0
  BY HeldIsOwned DEF ReleaseHold
<1>5. CASE p \notin K
  BY <1>1, <1>2, <1>5 DEF OwnRefs, Inline, Claim
<1>6. CASE p \in K /\ Inline(p, t)
  BY <1>1, <1>2, <1>3, <1>6 DEF OwnRefs, Inline, Claim, RemoveHold, StoreClaim, Unclaimed
<1>7. CASE p \in K /\ ~Inline(p, t)
  <2>1. Shares(p, t) /\ sharedClaims[p][t] > 0 /\ sharedClaims[p][t] <= pathClaims[p].shared
    BY <1>3, <1>4, <1>7, SharedRow
  <2> QED
    BY <2>1, <1>1, <1>2, <1>3, <1>7 DEF OwnRefs, Inline, Claim, RemoveHold, StoreClaim, Unclaimed
<1> QED
  BY <1>5, <1>6, <1>7

\* Deletions and moves change what nobody holds.
LEMMA MarkMoves ==
  ASSUME TablesInv, NEW t \in Torrent \cup {Nobody}, NEW F \in SUBSET Path,
         MarkDeleting(t, F) \/ ReleaseDeleting(t, F)
  PROVE  \A p \in Path, u \in Torrent : OwnRefs(p, u)' = OwnRefs(p, u)
<1> SUFFICES ASSUME NEW p \in Path, NEW u \in Torrent
             PROVE  OwnRefs(p, u)' = OwnRefs(p, u)
  OBVIOUS
<1>1. pathClaims[p] \in Claim /\ sharedClaims' = sharedClaims
  BY DEF TablesInv, ClaimsTypeOK, MarkDeleting, ReleaseDeleting
<1>2. LET c == pathClaims[p] n == pathClaims'[p]
      IN \/ n.refs = c.refs /\ n.shared = c.shared /\ n.infoHash = c.infoHash
         \/ c.refs = 0 /\ c.shared = 0 /\ n = Unclaimed
  BY <1>1 DEF MarkDeleting, ReleaseDeleting, Claim, StoreClaim
<1> QED
  BY <1>1, <1>2 DEF OwnRefs, Inline, Claim, Unclaimed

-----------------------------------------------------------------------------
(* Each operation keeps the invariant *)

\* What a torrent holds and the releases it has move together.
LEMMA HoldsStayCounted ==
  ASSUME TablesInv, NEW t \in Torrent, NEW K \in SUBSET Path,
         \/ Shifts(t, K, 1) /\ holds' = [holds EXCEPT ![t][K] = @ + 1]
         \/ Shifts(t, K, -1) /\ Once(holds[t][K]) /\ holds' = [holds EXCEPT ![t][K] = @ - 1]
  PROVE  HoldsCounted'
<1> DEFINE n == holds[t][K]
<1>1. n \in Nat /\ \A u \in Torrent, J \in SUBSET Path : holds[u][J] \in Nat
  BY DEF TablesInv, ClaimsTypeOK
<1>2. \A p \in Path, u \in Torrent : OwnRefs(p, u) \in Nat /\ Counts(OwnRefs(p, u), HoldsOn(p, u))
  BY OwnRefsIs DEF TablesInv, HoldsCounted
<1>3. SUFFICES ASSUME NEW p \in Path, NEW u \in Torrent
               PROVE  Counts(OwnRefs(p, u)', HoldsOn(p, u)')
  BY DEF HoldsCounted, Counts
<1>4. \A h : /\ h \in HoldsOn(p, u) <=>
                  \E J \in SUBSET Path : \E i \in 1 .. holds[u][J] : p \in J /\ h = <<J, i>>
             /\ h \in HoldsOn(p, u)' <=>
                  \E J \in SUBSET Path : \E i \in 1 .. holds'[u][J] : p \in J /\ h = <<J, i>>
  BY DEF HoldsOn
<1>5. CASE ~(u = t /\ p \in K)
  <2>1. \A J \in SUBSET Path : p \in J => holds'[u][J] = holds[u][J]
    BY <1>5 DEF TablesInv, ClaimsTypeOK
  <2>2. HoldsOn(p, u)' = HoldsOn(p, u)
    BY <2>1, <1>4
  <2>3. OwnRefs(p, u)' = OwnRefs(p, u)
    BY <1>2, <1>5 DEF Shifts
  <2> QED
    BY <2>2, <2>3, <1>2
<1>6. CASE u = t /\ p \in K /\ Shifts(t, K, 1) /\ holds' = [holds EXCEPT ![t][K] = @ + 1]
  <2>1. \A J \in SUBSET Path : holds'[u][J] = IF J = K THEN n + 1 ELSE holds[u][J]
    BY <1>6 DEF TablesInv, ClaimsTypeOK
  <2>2. HoldsOn(p, u)' = HoldsOn(p, u) \cup {<<K, n + 1>>} /\ <<K, n + 1>> \notin HoldsOn(p, u)
    BY <2>1, <1>1, <1>4, <1>6
  <2>3. OwnRefs(p, u)' = OwnRefs(p, u) + 1
    BY <1>6 DEF Shifts
  <2> QED
    BY <2>2, <2>3, <1>2, OneMore
<1>7. CASE /\ u = t /\ p \in K /\ Shifts(t, K, -1) /\ Once(n)
           /\ holds' = [holds EXCEPT ![t][K] = @ - 1]
  <2>1. \A J \in SUBSET Path : holds'[u][J] = IF J = K THEN n - 1 ELSE holds[u][J]
    BY <1>7 DEF TablesInv, ClaimsTypeOK
  <2>2. n > 0
    BY <1>7 DEF Once
  <2>3. HoldsOn(p, u)' = HoldsOn(p, u) \ {<<K, n>>} /\ <<K, n>> \in HoldsOn(p, u)
    BY <2>1, <2>2, <1>1, <1>4, <1>7
  <2>4. OwnRefs(p, u)' = OwnRefs(p, u) - 1
    BY <1>2, <1>7 DEF Shifts
  <2> QED
    BY <2>3, <2>4, <1>2, OneLess
<1> QED
  BY <1>5, <1>6, <1>7

\* The shared count of an entry and its row of the second table change together.
SharesMove(p) ==
  \/ /\ pathClaims'[p].shared = pathClaims[p].shared
     /\ \A u \in Torrent : sharedClaims'[p][u] = sharedClaims[p][u]
  \/ \E t \in Torrent, d \in {-1, 1} :
       /\ sharedClaims[p][t] + d \in Nat
       /\ pathClaims'[p].shared = pathClaims[p].shared + d
       /\ \A u \in Torrent :
            sharedClaims'[p][u] = IF u = t THEN sharedClaims[p][t] + d ELSE sharedClaims[p][u]

\* The shared count stays the number of shares when each path moves as
\* SharesMove says.
LEMMA SharesStayCounted ==
  ASSUME TablesInv, \A p \in Path : SharesMove(p)
  PROVE  SharesCounted'
<1> SUFFICES ASSUME NEW p \in Path
             PROVE  Counts(pathClaims'[p].shared, SharersOf(p)')
  BY DEF SharesCounted, Counts
<1> DEFINE n == pathClaims[p].shared
<1>1. n \in Nat /\ Counts(n, SharersOf(p)) /\ \A u \in Torrent : sharedClaims[p][u] \in Nat
  BY DEF TablesInv, SharesCounted, ClaimsTypeOK, Claim
<1>2. \A s : /\ s \in SharersOf(p) <=>
                  \E u \in Torrent : \E i \in 1 .. sharedClaims[p][u] : s = <<u, i>>
             /\ s \in SharersOf(p)' <=>
                  \E u \in Torrent : \E i \in 1 .. sharedClaims'[p][u] : s = <<u, i>>
  BY DEF SharersOf
<1>3. CASE /\ pathClaims'[p].shared = n
           /\ \A u \in Torrent : sharedClaims'[p][u] = sharedClaims[p][u]
  <2>1. SharersOf(p)' = SharersOf(p)
    BY <1>2, <1>3
  <2> QED
    BY <2>1, <1>1, <1>3
<1>4. ASSUME NEW t \in Torrent, NEW d \in {-1, 1},
             sharedClaims[p][t] + d \in Nat, pathClaims'[p].shared = n + d,
             \A u \in Torrent :
               sharedClaims'[p][u] = IF u = t THEN sharedClaims[p][t] + d ELSE sharedClaims[p][u]
      PROVE  Counts(pathClaims'[p].shared, SharersOf(p)')
  <2> DEFINE m == sharedClaims[p][t]
  <2>1. CASE d = 1
    <3>1. SharersOf(p)' = SharersOf(p) \cup {<<t, m + 1>>} /\ <<t, m + 1>> \notin SharersOf(p)
      BY <1>1, <1>2, <1>4, <2>1
    <3> QED
      BY <3>1, <1>1, <1>4, <2>1, OneMore
  <2>2. CASE d = -1
    <3>1. m > 0
      BY <1>1, <1>4, <2>2
    <3>2. SharersOf(p)' = SharersOf(p) \ {<<t, m>>} /\ <<t, m>> \in SharersOf(p)
      BY <3>1, <1>1, <1>2, <1>4, <2>2
    <3> QED
      BY <3>2, <1>1, <1>4, <2>2, OneLess
  <2> QED
    BY <2>1, <2>2
<1> QED
  BY <1>3, <1>4 DEF SharesMove

\* The deleting count of each path of F and the reservations of F by t move
\* together, by d and to k.
DeletingMoves(t, F, d, k) ==
  /\ k = reservations[t][F] + d
  /\ reservations' = [reservations EXCEPT ![t][F] = k]
  /\ \A p \in Path : pathClaims'[p].deleting =
                       pathClaims[p].deleting + (IF p \in F THEN d ELSE 0)

\* The deletion marks stay the number of reservations when one set of paths
\* moves by one.
LEMMA DeletingStaysCounted ==
  ASSUME TablesInv, NEW t \in Torrent \cup {Nobody}, NEW F \in SUBSET Path, NEW d \in {-1, 1},
         NEW k \in Nat, DeletingMoves(t, F, d, k)
  PROVE  DeletingCounted'
<1> SUFFICES ASSUME NEW p \in Path
             PROVE  Counts(pathClaims'[p].deleting, ReservedOn(p)')
  BY DEF DeletingCounted, Counts
<1> DEFINE n == pathClaims[p].deleting
           m == reservations[t][F]
<1>1. n \in Nat /\ Counts(n, ReservedOn(p)) /\ m \in Nat
  BY DEF TablesInv, DeletingCounted, ClaimsTypeOK, Claim
<1>0. /\ k = m + d /\ reservations' = [reservations EXCEPT ![t][F] = k]
      /\ pathClaims'[p].deleting = n + (IF p \in F THEN d ELSE 0)
  BY DEF DeletingMoves
<1>2. \A r : /\ r \in ReservedOn(p) <=>
                  \E u \in Torrent \cup {Nobody}, G \in SUBSET Path :
                    \E i \in 1 .. reservations[u][G] : p \in G /\ r = <<<<u, G>>, i>>
             /\ r \in ReservedOn(p)' <=>
                  \E u \in Torrent \cup {Nobody}, G \in SUBSET Path :
                    \E i \in 1 .. reservations'[u][G] : p \in G /\ r = <<<<u, G>>, i>>
  BY DEF ReservedOn
<1>3. \A u \in Torrent \cup {Nobody}, G \in SUBSET Path :
        reservations'[u][G] = IF u = t /\ G = F THEN m + d ELSE reservations[u][G]
  BY <1>0 DEF TablesInv, ClaimsTypeOK
<1>4. CASE p \notin F
  <2>1. \A u \in Torrent \cup {Nobody}, G \in SUBSET Path :
          p \in G => reservations'[u][G] = reservations[u][G]
    BY <1>3, <1>4
  <2>2. \A r : r \in ReservedOn(p)' <=> r \in ReservedOn(p)
    BY <2>1, <1>2
  <2>3. ReservedOn(p)' = ReservedOn(p)
    BY <2>2
  <2> QED
    BY <2>3, <1>0, <1>1, <1>4
<1>5. CASE p \in F /\ d = 1
  <2>1. ReservedOn(p)' = ReservedOn(p) \cup {<<<<t, F>>, m + 1>>} /\ <<<<t, F>>, m + 1>> \notin ReservedOn(p)
    BY <1>1, <1>2, <1>3, <1>5
  <2>2. pathClaims'[p].deleting = n + 1
    BY <1>0, <1>1, <1>5
  <2> QED
    BY <2>1, <2>2, <1>1, OneMore
<1>6. CASE p \in F /\ d = -1
  <2>1. m > 0
    BY <1>0, <1>1, <1>6
  <2>2. ReservedOn(p)' = ReservedOn(p) \ {<<<<t, F>>, m>>} /\ <<<<t, F>>, m>> \in ReservedOn(p)
    BY <2>1, <1>1, <1>2, <1>3, <1>6
  <2>3. pathClaims'[p].deleting = n - 1
    BY <1>0, <1>1, <1>6
  <2> QED
    BY <2>2, <2>3, <1>1, OneLess
<1> QED
  BY <1>4, <1>5, <1>6

-----------------------------------------------------------------------------
(* The types of the tables, entry by entry *)

\* The fields of an entry and the types of its neighbours.
LEMMA EntryTypes ==
  ASSUME TablesInv
  PROVE  /\ \A p \in Path :
              /\ pathClaims[p] = [length |-> pathClaims[p].length,
                                  infoHash |-> pathClaims[p].infoHash,
                                  refs |-> pathClaims[p].refs,
                                  shared |-> pathClaims[p].shared,
                                  deleting |-> pathClaims[p].deleting]
              /\ pathClaims[p].length \in Nat /\ pathClaims[p].refs \in Nat
              /\ pathClaims[p].shared \in Nat /\ pathClaims[p].deleting \in Nat
              /\ pathClaims[p].infoHash \in Torrent \cup {Nobody}
              /\ sharedClaims[p] \in [Torrent -> Nat]
              /\ \A t \in Torrent : sharedClaims[p][t] \in Nat /\ LengthOf[t][p] \in Nat
         /\ Nobody \notin Torrent
  BY ClaimsAssumption DEF TablesInv, ClaimsTypeOK, Claim

\* An entry is updated field by field.
LEMMA AddHoldIs ==
  ASSUME TablesInv, NEW p \in Path, NEW t \in Torrent
  PROVE  /\ AddHold(p, t) \in Claim
         /\ AddHold(p, t).deleting = pathClaims[p].deleting
         /\ Inline(p, t) =>
              /\ AddHold(p, t).refs = pathClaims[p].refs + 1
              /\ AddHold(p, t).shared = pathClaims[p].shared
              /\ AddHold(p, t).infoHash = t
              /\ AddHold(p, t).length = pathClaims[p].length
         /\ ~Inline(p, t) /\ TakesInline(p, t) =>
              /\ AddHold(p, t).refs = 1
              /\ AddHold(p, t).shared = pathClaims[p].shared
              /\ AddHold(p, t).infoHash = t
              /\ AddHold(p, t).length = LengthOf[t][p]
         /\ ~TakesInline(p, t) =>
              /\ AddHold(p, t).refs = pathClaims[p].refs
              /\ AddHold(p, t).shared = pathClaims[p].shared + 1
              /\ AddHold(p, t).infoHash = pathClaims[p].infoHash
              /\ AddHold(p, t).length = pathClaims[p].length
<1> DEFINE c == pathClaims[p]
<1>1. /\ c \in Claim /\ LengthOf[t][p] \in Nat
  BY EntryTypes DEF TablesInv, ClaimsTypeOK
<1>2. CASE Inline(p, t)
  BY <1>1, <1>2 DEF AddHold, TakesInline, Inline, Claim
<1>3. CASE ~Inline(p, t) /\ TakesInline(p, t)
  BY <1>1, <1>3 DEF AddHold, Claim
<1>4. CASE ~TakesInline(p, t)
  BY <1>1, <1>4 DEF AddHold, TakesInline, Claim
<1> QED
  BY <1>2, <1>3, <1>4

\* What is left of an entry when a hold is removed from it.
LEMMA RemoveHoldIs ==
  ASSUME TablesInv, NEW p \in Path, NEW t \in Torrent, Inline(p, t) \/ Shares(p, t)
  PROVE  LET c == pathClaims[p]
             refs == IF Inline(p, t) THEN c.refs - 1 ELSE c.refs
             shared == IF Inline(p, t) THEN c.shared ELSE c.shared - 1
             n == RemoveHold(p, t)
         IN /\ n \in Claim
            /\ n.refs = refs /\ n.shared = shared /\ n.deleting = c.deleting
            /\ refs = 0 /\ shared = 0 /\ c.deleting = 0 => n = Unclaimed
            /\ ~(refs = 0 /\ shared = 0 /\ c.deleting = 0) =>
                 n.length = c.length /\ n.infoHash = c.infoHash
<1> DEFINE c == pathClaims[p]
           removed == IF Inline(p, t) THEN [c EXCEPT !.refs = @ - 1] ELSE [c EXCEPT !.shared = @ - 1]
<1>1. c \in Claim
  BY DEF TablesInv, ClaimsTypeOK
<1>2. /\ removed.refs = IF Inline(p, t) THEN c.refs - 1 ELSE c.refs
      /\ removed.shared = IF Inline(p, t) THEN c.shared ELSE c.shared - 1
      /\ removed.deleting = c.deleting /\ removed.length = c.length
      /\ removed.infoHash = c.infoHash
  BY <1>1 DEF Claim
<1>3. removed \in Claim
  BY <1>1 DEF Claim, Inline, Shares
<1>4. Unclaimed \in Claim
  BY DEF Unclaimed, Claim
<1>5. RemoveHold(p, t) = StoreClaim(removed)
  BY DEF RemoveHold
<1> HIDE DEF removed
<1> QED
  BY <1>2, <1>3, <1>4, <1>5 DEF StoreClaim, Unclaimed

\* A table of tables of counts, changed at one place.
LEMMA Nested ==
  ASSUME NEW A, NEW B, NEW f \in [A -> [B -> Nat]], NEW a \in A, NEW b \in B, NEW n \in Nat
  PROVE  [f EXCEPT ![a][b] = n] \in [A -> [B -> Nat]]
<1>1. f[a] \in [B -> Nat]
  OBVIOUS
<1>2. [f[a] EXCEPT ![b] = n] \in [B -> Nat]
  BY <1>1
<1> QED
  BY <1>2

\* A path somebody has reserved is marked as being deleted.
LEMMA ReservedIsMarked ==
  ASSUME TablesInv, NEW t \in Torrent \cup {Nobody}, NEW F \in SUBSET Path,
         reservations[t][F] > 0, NEW p \in F
  PROVE  pathClaims[p].deleting > 0
<1>1. reservations[t][F] \in 1 .. reservations[t][F]
  BY DEF TablesInv, ClaimsTypeOK
<1>2. <<<<t, F>>, reservations[t][F]>> \in ReservedOn(p)
  BY <1>1, Members
<1>3. pathClaims[p].deleting \in Nat /\ Counts(pathClaims[p].deleting, ReservedOn(p))
  BY DEF TablesInv, ClaimsTypeOK, Claim, DeletingCounted
<1> QED
  BY <1>2, <1>3, OneLess

\* A claim keeps the tables exact.
LEMMA ClaimStep ==
  ASSUME TablesInv, NEW t \in Torrent, NEW K \in SUBSET Path, ClaimPaths(t, K)
  PROVE  TablesInv'
<1>0. /\ \A p \in K : Joinable(p, t)
      /\ holds' = [holds EXCEPT ![t][K] = @ + 1] /\ reservations' = reservations
  BY DEF ClaimPaths
<1>1. \A p \in Path :
        /\ p \in K => pathClaims'[p] = AddHold(p, t)
        /\ p \notin K => pathClaims'[p] = pathClaims[p]
        /\ p \in K /\ ~TakesInline(p, t) =>
             \A u \in Torrent :
               sharedClaims'[p][u] = IF u = t THEN sharedClaims[p][u] + 1 ELSE sharedClaims[p][u]
        /\ ~(p \in K /\ ~TakesInline(p, t)) => sharedClaims'[p] = sharedClaims[p]
  BY DEF ClaimPaths, TablesInv, ClaimsTypeOK
<1>2. \A p \in Path :
        /\ pathClaims[p].length \in Nat /\ pathClaims[p].refs \in Nat
        /\ pathClaims[p].shared \in Nat /\ pathClaims[p].deleting \in Nat
        /\ pathClaims[p].infoHash \in Torrent \cup {Nobody}
        /\ sharedClaims[p] \in [Torrent -> Nat]
        /\ \A u \in Torrent : sharedClaims[p][u] \in Nat /\ LengthOf[u][p] \in Nat
  BY EntryTypes
<1>3. Shifts(t, K, 1)
  BY ClaimMoves
<1>4. \A p \in Path, u \in Torrent :
        /\ OwnRefs(p, u) = IF Inline(p, u) THEN pathClaims[p].refs ELSE sharedClaims[p][u]
        /\ OwnRefs(p, u) \in Nat
        /\ Shares(p, u) <=> sharedClaims[p][u] > 0
  BY OwnRefsIs
<1>5. ClaimsTypeOK'
  <2>1. \A p \in Path : AddHold(p, t) \in Claim
    BY AddHoldIs
  <2>2. pathClaims' \in [Path -> Claim]
    BY <2>1 DEF ClaimPaths, TablesInv, ClaimsTypeOK
  <2>3. \A p \in Path : [sharedClaims[p] EXCEPT ![t] = @ + 1] \in [Torrent -> Nat]
    BY <1>2
  <2>4. sharedClaims' \in [Path -> [Torrent -> Nat]]
    BY <2>3, <1>2 DEF ClaimPaths
  <2>5. holds[t][K] + 1 \in Nat
    BY DEF TablesInv, ClaimsTypeOK
  <2>6. holds' \in [Torrent -> [SUBSET Path -> Nat]]
    BY <2>5, <1>0, Nested DEF TablesInv, ClaimsTypeOK
  <2> QED
    BY <2>2, <2>4, <2>6, <1>0 DEF TablesInv, ClaimsTypeOK
<1>6. HoldsCounted'
  BY <1>0, <1>3, HoldsStayCounted
<1>7. SharesCounted'
  <2> SUFFICES ASSUME NEW p \in Path PROVE SharesMove(p)
    BY SharesStayCounted
  <2>1. CASE p \in K /\ ~TakesInline(p, t)
    <3>1. /\ sharedClaims[p][t] + 1 \in Nat
          /\ pathClaims'[p].shared = pathClaims[p].shared + 1
          /\ \A u \in Torrent :
               sharedClaims'[p][u] = IF u = t THEN sharedClaims[p][t] + 1 ELSE sharedClaims[p][u]
      BY <2>1, <1>1, <1>2, AddHoldIs
    <3> QED
      BY <3>1 DEF SharesMove
  <2>2. CASE ~(p \in K /\ ~TakesInline(p, t))
    BY <2>2, <1>1, <1>2, AddHoldIs DEF SharesMove
  <2> QED
    BY <2>1, <2>2
<1>8. DeletingCounted'
  <2>1. \A p \in Path : pathClaims'[p].deleting = pathClaims[p].deleting
    BY <1>1, AddHoldIs
  <2>2. \A p \in Path : ReservedOn(p)' = ReservedOn(p)
    BY <1>0 DEF ReservedOn
  <2> QED
    BY <2>1, <2>2 DEF TablesInv, DeletingCounted, Counts
<1>9. OneTable' /\ InlineIsTorrent' /\ EmptyIsDropped'
  <2> SUFFICES ASSUME NEW p \in Path
               PROVE  /\ \A u \in Torrent : Inline(p, u)' => sharedClaims'[p][u] = 0
                      /\ pathClaims'[p].refs > 0 => pathClaims'[p].infoHash \in Torrent
                      /\ AllRefs(p)' + pathClaims'[p].deleting = 0 => pathClaims'[p] = Unclaimed
    BY DEF OneTable, InlineIsTorrent, EmptyIsDropped
  <2>1. /\ \A u \in Torrent : Inline(p, u) => sharedClaims[p][u] = 0
        /\ pathClaims[p].refs > 0 => pathClaims[p].infoHash \in Torrent
        /\ AllRefs(p) + pathClaims[p].deleting = 0 => pathClaims[p] = Unclaimed
    BY DEF TablesInv, OneTable, InlineIsTorrent, EmptyIsDropped
  <2>2. CASE p \notin K
    BY <2>1, <2>2, <1>1 DEF Inline, AllRefs
  <2>3. CASE p \in K /\ ~TakesInline(p, t)
    BY <2>1, <2>3, <1>1, <1>2, AddHoldIs DEF Inline, AllRefs, TakesInline, Unclaimed
  <2>4. CASE p \in K /\ TakesInline(p, t)
    BY <2>1, <2>4, <1>1, <1>2, <1>4, AddHoldIs, SharedRow DEF Inline, AllRefs,
       TakesInline, Unclaimed
  <2> QED
    BY <2>2, <2>3, <2>4
<1>10. LengthIsTheirs'
  <2> SUFFICES ASSUME NEW p \in Path, NEW u \in Torrent, OwnRefs(p, u)' > 0
               PROVE  pathClaims'[p].length = LengthOf[u][p]
    BY DEF LengthIsTheirs
  <2>1. \A w \in Torrent : OwnRefs(p, w) > 0 => pathClaims[p].length = LengthOf[w][p]
    BY DEF TablesInv, LengthIsTheirs
  <2>2. OwnRefs(p, u)' = OwnRefs(p, u) + (IF u = t /\ p \in K THEN 1 ELSE 0)
    BY <1>3 DEF Shifts
  <2>3. CASE p \notin K
    BY <2>1, <2>2, <2>3, <1>1, <1>4
  <2>4. CASE p \in K /\ AllRefs(p) = 0
    <3>1. \A w \in Torrent : OwnRefs(p, w) = 0
      BY <2>4, NobodyHolds
    <3>2. u = t
      BY <2>2, <2>4, <3>1
    <3>3. ~Inline(p, t) /\ TakesInline(p, t)
      BY <2>4, <3>1, <1>2, <1>4 DEF AllRefs, TakesInline, Inline
    <3> QED
      BY <2>4, <3>2, <3>3, <1>1, AddHoldIs
  <2>5. CASE p \in K /\ AllRefs(p) > 0
    <3>1. pathClaims[p].length = LengthOf[t][p]
      BY <2>1, <2>5, <1>0 DEF Joinable
    <3>2. pathClaims'[p].length = pathClaims[p].length
      BY <2>5, <3>1, <1>1, AddHoldIs
    <3> QED
      BY <2>1, <2>2, <3>1, <3>2, <1>4
  <2>6. AllRefs(p) \in Nat
    BY <1>2 DEF AllRefs
  <2> QED
    BY <2>3, <2>4, <2>5, <2>6
<1>11. DeletionIsExclusive'
  <2> SUFFICES ASSUME NEW w \in Torrent \cup {Nobody}, NEW F \in SUBSET Path,
                      reservations[w][F] > 0, NEW p \in F, NEW u \in Torrent \ {w}
               PROVE  OwnRefs(p, u)' = 0
    BY <1>0 DEF DeletionIsExclusive
  <2>1. OwnRefs(p, u) = 0
    BY DEF TablesInv, DeletionIsExclusive
  <2>2. OwnRefs(p, u)' = OwnRefs(p, u) + (IF u = t /\ p \in K THEN 1 ELSE 0)
    BY <1>3 DEF Shifts
  <2>3. pathClaims[p].deleting > 0
    BY ReservedIsMarked
  <2> QED
    BY <2>1, <2>2, <2>3, <1>0 DEF Joinable
<1> QED
  BY <1>5, <1>6, <1>7, <1>8, <1>9, <1>10, <1>11 DEF TablesInv

\* A release keeps the tables exact: the inline holder first, then the shared
\* table.
LEMMA ReleaseStep ==
  ASSUME TablesInv, NEW t \in Torrent, NEW K \in SUBSET Path, ReleaseHold(t, K)
  PROVE  TablesInv'
<1>0. /\ holds' = [holds EXCEPT ![t][K] = @ - 1] /\ reservations' = reservations
      /\ Once(holds[t][K])
  BY DEF ReleaseHold
<1>1. \A p \in Path :
        /\ p \in K => pathClaims'[p] = RemoveHold(p, t)
        /\ p \notin K => pathClaims'[p] = pathClaims[p]
        /\ p \in K /\ ~Inline(p, t) /\ Shares(p, t) =>
             \A u \in Torrent :
               sharedClaims'[p][u] = IF u = t THEN sharedClaims[p][u] - 1 ELSE sharedClaims[p][u]
        /\ ~(p \in K /\ ~Inline(p, t) /\ Shares(p, t)) => sharedClaims'[p] = sharedClaims[p]
  BY DEF ReleaseHold, TablesInv, ClaimsTypeOK
<1>2. \A p \in Path :
        /\ pathClaims[p].length \in Nat /\ pathClaims[p].refs \in Nat
        /\ pathClaims[p].shared \in Nat /\ pathClaims[p].deleting \in Nat
        /\ pathClaims[p].infoHash \in Torrent \cup {Nobody}
        /\ sharedClaims[p] \in [Torrent -> Nat]
        /\ \A u \in Torrent : sharedClaims[p][u] \in Nat /\ LengthOf[u][p] \in Nat
  BY EntryTypes
<1>3. Shifts(t, K, -1)
  BY ReleaseMoves
<1>4. \A p \in Path, u \in Torrent :
        /\ OwnRefs(p, u) = IF Inline(p, u) THEN pathClaims[p].refs ELSE sharedClaims[p][u]
        /\ OwnRefs(p, u) \in Nat
        /\ Shares(p, u) <=> sharedClaims[p][u] > 0
        /\ sharedClaims[p][u] <= pathClaims[p].shared
  BY OwnRefsIs, SharedRow
<1>5. \A p \in K : OwnRefs(p, t) > 0
  BY <1>0, HeldIsOwned
<1>6. \A p \in Path : p \in K /\ ~Inline(p, t) => Shares(p, t) /\ pathClaims[p].shared > 0
  <2> SUFFICES ASSUME NEW p \in Path, p \in K, ~Inline(p, t)
               PROVE  Shares(p, t) /\ pathClaims[p].shared > 0
    OBVIOUS
  <2>1. sharedClaims[p][t] > 0
    BY <1>4, <1>5
  <2> QED
    BY <2>1, <1>4 DEF Shares
<1>7. ClaimsTypeOK'
  <2>1. \A p \in Path : p \in K => RemoveHold(p, t) \in Claim
    BY <1>6, RemoveHoldIs
  <2>2. pathClaims' \in [Path -> Claim]
    BY <2>1 DEF ReleaseHold, TablesInv, ClaimsTypeOK
  <2>3. \A p \in Path : Shares(p, t) => [sharedClaims[p] EXCEPT ![t] = @ - 1] \in [Torrent -> Nat]
    BY <1>2, <1>4
  <2>4. sharedClaims' \in [Path -> [Torrent -> Nat]]
    BY <2>3, <1>2 DEF ReleaseHold
  <2>5. holds[t][K] - 1 \in Nat
    BY <1>0 DEF TablesInv, ClaimsTypeOK, Once
  <2>6. holds' \in [Torrent -> [SUBSET Path -> Nat]]
    BY <2>5, <1>0, Nested DEF TablesInv, ClaimsTypeOK
  <2> QED
    BY <2>2, <2>4, <2>6, <1>0 DEF TablesInv, ClaimsTypeOK
<1>8. HoldsCounted'
  BY <1>0, <1>3, HoldsStayCounted
<1>9. SharesCounted'
  <2> SUFFICES ASSUME NEW p \in Path PROVE SharesMove(p)
    BY SharesStayCounted
  <2>1. CASE p \in K /\ ~Inline(p, t)
    <3>1. /\ sharedClaims[p][t] + (-1) \in Nat
          /\ pathClaims'[p].shared = pathClaims[p].shared + (-1)
          /\ \A u \in Torrent :
               sharedClaims'[p][u] = IF u = t THEN sharedClaims[p][t] + (-1) ELSE sharedClaims[p][u]
      BY <2>1, <1>1, <1>2, <1>4, <1>6, RemoveHoldIs DEF Unclaimed
    <3> QED
      BY <3>1 DEF SharesMove
  <2>2. CASE ~(p \in K /\ ~Inline(p, t))
    BY <2>2, <1>1, <1>2, RemoveHoldIs DEF Unclaimed, SharesMove
  <2> QED
    BY <2>1, <2>2
<1>10. DeletingCounted'
  <2>1. \A p \in Path : pathClaims'[p].deleting = pathClaims[p].deleting
    BY <1>1, <1>2, <1>6, RemoveHoldIs DEF Unclaimed
  <2>2. \A p \in Path : ReservedOn(p)' = ReservedOn(p)
    BY <1>0 DEF ReservedOn
  <2> QED
    BY <2>1, <2>2 DEF TablesInv, DeletingCounted, Counts
<1>11. OneTable' /\ InlineIsTorrent' /\ EmptyIsDropped'
  <2> SUFFICES ASSUME NEW p \in Path
               PROVE  /\ \A u \in Torrent : Inline(p, u)' => sharedClaims'[p][u] = 0
                      /\ pathClaims'[p].refs > 0 => pathClaims'[p].infoHash \in Torrent
                      /\ AllRefs(p)' + pathClaims'[p].deleting = 0 => pathClaims'[p] = Unclaimed
    BY DEF OneTable, InlineIsTorrent, EmptyIsDropped
  <2>1. /\ \A u \in Torrent : Inline(p, u) => sharedClaims[p][u] = 0
        /\ pathClaims[p].refs > 0 => pathClaims[p].infoHash \in Torrent
        /\ AllRefs(p) + pathClaims[p].deleting = 0 => pathClaims[p] = Unclaimed
    BY DEF TablesInv, OneTable, InlineIsTorrent, EmptyIsDropped
  <2>2. CASE p \notin K
    BY <2>1, <2>2, <1>1 DEF Inline, AllRefs
  <2>3. CASE p \in K
    <3> DEFINE c == pathClaims[p]
               n == pathClaims'[p]
    <3>1. /\ n.refs = IF Inline(p, t) THEN c.refs - 1 ELSE c.refs
          /\ n.shared = IF Inline(p, t) THEN c.shared ELSE c.shared - 1
          /\ n.deleting = c.deleting
          /\ n = Unclaimed \/ n.infoHash = c.infoHash
          /\ n.refs = 0 /\ n.shared = 0 /\ n.deleting = 0 => n = Unclaimed
      <4>1. n = RemoveHold(p, t) /\ (Inline(p, t) \/ Shares(p, t))
        BY <2>3, <1>1, <1>6
      <4> QED
        BY <4>1, RemoveHoldIs
    <3>2. n \in Claim
      BY <1>7 DEF ClaimsTypeOK
    <3>3. Unclaimed.refs = 0
      BY DEF Unclaimed
    <3>4. \A u \in Torrent : sharedClaims'[p][u] <= sharedClaims[p][u]
      BY <2>3, <1>1, <1>2
    <3>5. \A u \in Torrent : Inline(p, u)' => Inline(p, u)
      BY <3>1, <3>3, <1>2 DEF Inline
    <3>6. \A u \in Torrent : sharedClaims'[p][u] \in Nat
      BY <1>7 DEF ClaimsTypeOK
    <3>7. \A u \in Torrent : Inline(p, u)' => sharedClaims'[p][u] = 0
      BY <3>4, <3>5, <3>6, <2>1
    <3>8. n.refs > 0 => n.infoHash \in Torrent
      BY <3>1, <3>3, <2>1, <1>2
    <3>9. AllRefs(p)' + n.deleting = 0 => n = Unclaimed
      <4>1. n.refs \in Nat /\ n.shared \in Nat /\ n.deleting \in Nat
        BY <3>2 DEF Claim
      <4>2. AllRefs(p)' = n.refs + n.shared
        BY DEF AllRefs
      <4>3. AllRefs(p)' + n.deleting = 0 => n.refs = 0 /\ n.shared = 0 /\ n.deleting = 0
        BY <4>1, <4>2
      <4> QED
        BY <3>1, <4>3
    <3> QED
      BY <3>7, <3>8, <3>9
  <2> QED
    BY <2>2, <2>3
<1>12. LengthIsTheirs'
  <2> SUFFICES ASSUME NEW p \in Path, NEW u \in Torrent, OwnRefs(p, u)' > 0
               PROVE  pathClaims'[p].length = LengthOf[u][p]
    BY DEF LengthIsTheirs
  <2>1. OwnRefs(p, u) > 0
    <3>1. OwnRefs(p, u)' = OwnRefs(p, u) + (IF u = t /\ p \in K THEN -1 ELSE 0)
      BY <1>3 DEF Shifts
    <3> QED
      BY <3>1, <1>4
  <2>2. pathClaims[p].length = LengthOf[u][p]
    BY <2>1 DEF TablesInv, LengthIsTheirs
  <2>3. pathClaims'[p].refs > 0 \/ pathClaims'[p].shared > 0
    <3>1. /\ pathClaims'[p].refs > 0 \/ ~Inline(p, u)'
          /\ pathClaims'[p].shared \in Nat
      BY <1>7 DEF Inline, ClaimsTypeOK, Claim
    <3> QED
      BY <3>1 DEF OwnRefs
  <2>4. pathClaims'[p].length = pathClaims[p].length
    BY <2>3, <1>1, <1>6, RemoveHoldIs DEF Unclaimed
  <2> QED
    BY <2>2, <2>4
<1>13. DeletionIsExclusive'
  <2> SUFFICES ASSUME NEW w \in Torrent \cup {Nobody}, NEW F \in SUBSET Path,
                      reservations[w][F] > 0, NEW p \in F, NEW u \in Torrent \ {w}
               PROVE  OwnRefs(p, u)' = 0
    BY <1>0 DEF DeletionIsExclusive
  <2>1. OwnRefs(p, u) = 0
    BY DEF TablesInv, DeletionIsExclusive
  <2>2. OwnRefs(p, u)' = OwnRefs(p, u) + (IF u = t /\ p \in K THEN -1 ELSE 0)
    BY <1>3 DEF Shifts
  <2> QED
    BY <2>1, <2>2, <1>5
<1> QED
  BY <1>7, <1>8, <1>9, <1>10, <1>11, <1>12, <1>13 DEF TablesInv

\* Marking and unmarking paths changes nothing but deleting counts, and drops
\* an entry left empty.
KeepsClaims(p) ==
  /\ pathClaims'[p].refs = pathClaims[p].refs
  /\ pathClaims'[p].shared = pathClaims[p].shared
  /\ pathClaims'[p] # Unclaimed =>
       /\ pathClaims'[p].length = pathClaims[p].length
       /\ pathClaims'[p].infoHash = pathClaims[p].infoHash
  /\ pathClaims'[p].refs = 0 /\ pathClaims'[p].shared = 0 /\ pathClaims'[p].deleting = 0 =>
       pathClaims'[p] = Unclaimed
  /\ pathClaims'[p] \in Claim

\* Setting and lifting marks keeps the tables exact.
LEMMA MarkStep ==
  ASSUME TablesInv, NEW t \in Torrent \cup {Nobody}, NEW F \in SUBSET Path,
         NEW d \in {-1, 1}, NEW k \in Nat, DeletingMoves(t, F, d, k),
         MarkDeleting(t, F) \/ ReleaseDeleting(t, F),
         \A p \in Path : KeepsClaims(p),
         d = 1 => \A p \in F : \A u \in Torrent \ {t} : OwnRefs(p, u) = 0
  PROVE  TablesInv'
<1>1. \A p \in Path, u \in Torrent : OwnRefs(p, u)' = OwnRefs(p, u)
  BY MarkMoves
<1>2. sharedClaims' = sharedClaims /\ holds' = holds
  BY DEF MarkDeleting, ReleaseDeleting
<1>3. \A u \in Torrent \cup {Nobody}, G \in SUBSET Path :
        reservations'[u][G] = IF u = t /\ G = F THEN k ELSE reservations[u][G]
  BY DEF TablesInv, ClaimsTypeOK, DeletingMoves
<1>4. ClaimsTypeOK'
  <2>1. DOMAIN pathClaims' = Path /\ pathClaims' = [p \in Path |-> pathClaims'[p]]
    BY DEF MarkDeleting, ReleaseDeleting
  <2>2. pathClaims' \in [Path -> Claim]
    BY <2>1 DEF KeepsClaims
  <2>3. reservations' \in [Torrent \cup {Nobody} -> [SUBSET Path -> Nat]]
    BY Nested DEF TablesInv, ClaimsTypeOK, DeletingMoves
  <2> QED
    BY <2>2, <2>3, <1>2 DEF TablesInv, ClaimsTypeOK
<1>5. HoldsCounted'
  <2>1. \A p \in Path, u \in Torrent : HoldsOn(p, u)' = HoldsOn(p, u)
    BY <1>2 DEF HoldsOn
  <2> QED
    BY <2>1, <1>1 DEF TablesInv, HoldsCounted, Counts
<1>6. SharesCounted'
  <2> SUFFICES ASSUME NEW p \in Path PROVE SharesMove(p)
    BY SharesStayCounted
  <2> QED
    BY <1>2 DEF SharesMove, KeepsClaims
<1>7. DeletingCounted'
  BY DeletingStaysCounted
<1>8. \A p \in Path, u \in Torrent : Inline(p, u)' => Inline(p, u)
  BY DEF Inline, Unclaimed, KeepsClaims
<1>9. OneTable'
  BY <1>2, <1>8 DEF TablesInv, OneTable
<1>10. InlineIsTorrent'
  BY DEF TablesInv, InlineIsTorrent, Unclaimed, KeepsClaims
<1>11. EmptyIsDropped'
  <2> SUFFICES ASSUME NEW p \in Path,
                      pathClaims'[p].refs + pathClaims'[p].shared + pathClaims'[p].deleting = 0
               PROVE  pathClaims'[p] = Unclaimed
    BY DEF EmptyIsDropped, AllRefs
  <2>1. /\ pathClaims'[p].refs \in Nat /\ pathClaims'[p].shared \in Nat
        /\ pathClaims'[p].deleting \in Nat
    BY <1>4 DEF ClaimsTypeOK, Claim
  <2>2. \A a, b, c \in Nat : a + b + c = 0 => a = 0 /\ b = 0 /\ c = 0
    OBVIOUS
  <2>3. pathClaims'[p].refs = 0 /\ pathClaims'[p].shared = 0 /\ pathClaims'[p].deleting = 0
    BY <2>1, <2>2
  <2> QED
    BY <2>3 DEF KeepsClaims
<1>12. LengthIsTheirs'
  <2> SUFFICES ASSUME NEW p \in Path, NEW u \in Torrent, OwnRefs(p, u)' > 0
               PROVE  pathClaims'[p].length = LengthOf[u][p]
    BY DEF LengthIsTheirs
  <2>1. pathClaims[p].length = LengthOf[u][p]
    BY <1>1 DEF TablesInv, LengthIsTheirs
  <2>2. pathClaims'[p].refs > 0 \/ pathClaims'[p].shared > 0
    <3>1. pathClaims'[p].refs > 0 \/ ~Inline(p, u)'
      BY DEF Inline
    <3>2. pathClaims'[p].shared \in Nat
      BY <1>4 DEF ClaimsTypeOK, Claim
    <3> QED
      BY <3>1, <3>2 DEF OwnRefs
  <2>3. pathClaims'[p] # Unclaimed
    BY <2>2 DEF Unclaimed
  <2> QED
    BY <2>1, <2>3 DEF KeepsClaims
<1>13. DeletionIsExclusive'
  <2> SUFFICES ASSUME NEW w \in Torrent \cup {Nobody}, NEW G \in SUBSET Path,
                      reservations'[w][G] > 0, NEW p \in G, NEW u \in Torrent \ {w}
               PROVE  OwnRefs(p, u) = 0
    BY <1>1 DEF DeletionIsExclusive
  <2>1. reservations[w][G] > 0 => OwnRefs(p, u) = 0
    BY DEF TablesInv, DeletionIsExclusive
  <2>2. CASE reservations[w][G] > 0
    BY <2>1, <2>2
  <2>3. CASE ~(reservations[w][G] > 0)
    <3>0. reservations[w][G] \in Nat
      BY DEF TablesInv, ClaimsTypeOK
    <3>1. reservations[w][G] = 0 /\ w = t /\ G = F
      BY <2>3, <3>0, <1>3
    <3>2. d = 1
      BY <3>1 DEF DeletingMoves
    <3> QED
      BY <3>1, <3>2
  <2> QED
    BY <2>2, <2>3
<1> QED
  BY <1>4, <1>5, <1>6, <1>7, <1>9, <1>10, <1>11, <1>12, <1>13 DEF TablesInv

\* A reservation marks only paths no other torrent holds.
LEMMA ReserveStep ==
  ASSUME TablesInv, NEW t \in Torrent \cup {Nobody}, NEW F \in SUBSET Path, MarkDeleting(t, F),
         \A p \in F : \A u \in Torrent \ {t} : OwnRefs(p, u) = 0
  PROVE  TablesInv'
<1>1. \A p \in Path :
        pathClaims'[p] = IF p \in F THEN [pathClaims[p] EXCEPT !.deleting = @ + 1]
                         ELSE pathClaims[p]
  BY DEF MarkDeleting
<1>2. \A p \in Path : pathClaims[p] \in Claim
  BY DEF TablesInv, ClaimsTypeOK
<1>3. \A p \in Path : pathClaims[p].refs = 0 /\ pathClaims[p].shared = 0 /\ pathClaims[p].deleting = 0
                        => pathClaims[p] = Unclaimed
  BY DEF TablesInv, EmptyIsDropped, AllRefs
<1> DEFINE k == reservations[t][F] + 1
<1>4. k \in Nat /\ reservations' = [reservations EXCEPT ![t][F] = k]
  BY DEF TablesInv, ClaimsTypeOK, MarkDeleting
<1>5. ASSUME NEW p \in Path
      PROVE  /\ KeepsClaims(p)
             /\ pathClaims'[p].deleting =
                  pathClaims[p].deleting + (IF p \in F THEN 1 ELSE 0)
  <2>1. CASE p \in F
    <3> DEFINE marked == [pathClaims[p] EXCEPT !.deleting = @ + 1]
    <3>1. /\ marked \in Claim /\ marked.refs = pathClaims[p].refs /\ marked.shared = pathClaims[p].shared
          /\ marked.deleting = pathClaims[p].deleting + 1 /\ marked.length = pathClaims[p].length
          /\ marked.infoHash = pathClaims[p].infoHash /\ pathClaims[p].deleting \in Nat
      BY <1>2 DEF Claim
    <3>2. pathClaims'[p] = marked
      BY <2>1, <1>1
    <3> HIDE DEF marked
    <3>3. marked.deleting # 0
      BY <3>1
    <3>4. KeepsClaims(p)
      BY <3>1, <3>2, <3>3 DEF KeepsClaims
    <3>5. pathClaims'[p].deleting = pathClaims[p].deleting + 1
      BY <3>1, <3>2
    <3> QED
      BY <2>1, <3>4, <3>5
  <2>2. CASE p \notin F
    <3>1. pathClaims'[p] = pathClaims[p]
      BY <2>2, <1>1
    <3>2. KeepsClaims(p)
      BY <3>1, <1>2, <1>3 DEF KeepsClaims
    <3>3. pathClaims'[p].deleting = pathClaims[p].deleting + 0
      BY <3>1, <1>2 DEF Claim
    <3> QED
      BY <2>2, <3>2, <3>3
  <2> QED
    BY <2>1, <2>2
<1>6. DeletingMoves(t, F, 1, k)
  BY <1>4, <1>5 DEF DeletingMoves
<1> HIDE DEF k
<1> QED
  BY <1>4, <1>5, <1>6, MarkStep

\* Lifting a reservation leaves no entry behind that nobody uses.
LEMMA UnreserveStep ==
  ASSUME TablesInv, NEW t \in Torrent \cup {Nobody}, NEW F \in SUBSET Path, ReleaseDeleting(t, F)
  PROVE  TablesInv'
<1>1. \A p \in Path :
        pathClaims'[p] = IF p \in F THEN StoreClaim([pathClaims[p] EXCEPT !.deleting = @ - 1])
                         ELSE pathClaims[p]
  BY DEF ReleaseDeleting
<1>2. \A p \in Path : pathClaims[p] \in Claim
  BY DEF TablesInv, ClaimsTypeOK
<1>3. \A p \in Path : pathClaims[p].refs = 0 /\ pathClaims[p].shared = 0 /\ pathClaims[p].deleting = 0
                        => pathClaims[p] = Unclaimed
  BY DEF TablesInv, EmptyIsDropped, AllRefs
<1> DEFINE k == reservations[t][F] - 1
<1>4. k \in Nat /\ k = reservations[t][F] + (-1) /\ reservations' = [reservations EXCEPT ![t][F] = k]
  BY DEF TablesInv, ClaimsTypeOK, ReleaseDeleting, Once
<1>5. \A p \in Path : p \in F => pathClaims[p].deleting > 0
  BY ReservedIsMarked DEF ReleaseDeleting, Once
<1>6. ASSUME NEW p \in Path
      PROVE  /\ KeepsClaims(p)
             /\ pathClaims'[p].deleting =
                  pathClaims[p].deleting + (IF p \in F THEN -1 ELSE 0)
  <2>1. CASE p \in F
    <3> DEFINE without == [pathClaims[p] EXCEPT !.deleting = @ - 1]
    <3>1. /\ without \in Claim /\ without.refs = pathClaims[p].refs /\ without.shared = pathClaims[p].shared
          /\ without.deleting = pathClaims[p].deleting - 1 /\ without.length = pathClaims[p].length
          /\ without.infoHash = pathClaims[p].infoHash
      BY <2>1, <1>2, <1>5 DEF Claim
    <3>2. pathClaims'[p] = StoreClaim(without)
      BY <2>1, <1>1
    <3> HIDE DEF without
    <3>3. pathClaims[p].deleting \in Nat /\ Unclaimed \in Claim
      BY <1>2 DEF Claim, Unclaimed
    <3>4. StoreClaim(without) = without \/ StoreClaim(without) = Unclaimed
      BY DEF StoreClaim
    <3>5. StoreClaim(without) # without =>
            without.refs = 0 /\ without.shared = 0 /\ without.deleting = 0
      BY DEF StoreClaim
    <3>6. Unclaimed.refs = 0 /\ Unclaimed.shared = 0 /\ Unclaimed.deleting = 0
      BY DEF Unclaimed
    <3>7. without.refs = 0 /\ without.shared = 0 /\ without.deleting = 0 =>
            StoreClaim(without) = Unclaimed
      BY DEF StoreClaim
    <3>8. KeepsClaims(p)
      BY <3>1, <3>2, <3>3, <3>4, <3>5, <3>6, <3>7 DEF KeepsClaims
    <3>9. pathClaims'[p].deleting = pathClaims[p].deleting + (-1)
      BY <3>1, <3>2, <3>3, <3>4, <3>5, <3>6
    <3> QED
      BY <2>1, <3>8, <3>9
  <2>2. CASE p \notin F
    <3>1. pathClaims'[p] = pathClaims[p]
      BY <2>2, <1>1
    <3>2. KeepsClaims(p)
      BY <3>1, <1>2, <1>3 DEF KeepsClaims
    <3>3. pathClaims'[p].deleting = pathClaims[p].deleting + 0
      BY <3>1, <1>2 DEF Claim
    <3> QED
      BY <2>2, <3>2, <3>3
  <2> QED
    BY <2>1, <2>2
<1>7. DeletingMoves(t, F, -1, k)
  BY <1>4, <1>6 DEF DeletingMoves
<1> HIDE DEF k
<1> QED
  BY <1>4, <1>6, <1>7, MarkStep

-----------------------------------------------------------------------------
(* The invariant of every behaviour *)

\* The paths a deletion reserves are held by nobody but its torrent, those a
\* move reserves by nobody at all.
LEMMA ReservedAreFree ==
  ASSUME TablesInv, NEW K \in SUBSET Path
  PROVE  /\ \A t \in Torrent, p \in Path : p \in FreePaths(t, K) <=>
              p \in K /\ \A u \in Torrent \ {t} : OwnRefs(p, u) = 0
         /\ \A p \in Path : p \in UnheldPaths(K) <=>
              /\ p \in K /\ pathClaims[p].deleting = 0
              /\ \A u \in Torrent : OwnRefs(p, u) = 0
<1>1. \A t \in Torrent, p \in Path : p \in FreePaths(t, K) <=>
        p \in K /\ \A u \in Torrent \ {t} : OwnRefs(p, u) = 0
  BY AllAreOwn DEF FreePaths
<1>2. \A p \in Path : AllRefs(p) \in Nat /\ pathClaims[p].deleting \in Nat
  <2> SUFFICES ASSUME NEW p \in Path
               PROVE  AllRefs(p) \in Nat /\ pathClaims[p].deleting \in Nat
    OBVIOUS
  <2>1. /\ pathClaims[p].refs \in Nat /\ pathClaims[p].shared \in Nat
        /\ pathClaims[p].deleting \in Nat
    BY EntryTypes
  <2> QED
    BY <2>1 DEF AllRefs
<1>3. \A p \in Path : p \in UnheldPaths(K) <=> p \in K /\ AllRefs(p) = 0 /\ pathClaims[p].deleting = 0
  BY <1>2 DEF UnheldPaths
<1> QED
  BY <1>1, <1>3, NobodyHolds

\* Empty tables are exact.
LEMMA TablesInitially == ClaimsInit => TablesInv
<1> SUFFICES ASSUME ClaimsInit PROVE TablesInv
  OBVIOUS
<1>1. \A p \in Path : pathClaims[p] = Unclaimed
  BY DEF ClaimsInit
<1>2. \A p \in Path : /\ pathClaims[p].refs = 0 /\ pathClaims[p].shared = 0
                      /\ pathClaims[p].deleting = 0
  BY <1>1 DEF Unclaimed
<1>3. \A p \in Path, t \in Torrent : sharedClaims[p][t] = 0 /\ OwnRefs(p, t) = 0 /\ ~Inline(p, t)
  BY <1>2 DEF ClaimsInit, OwnRefs, Inline
<1>4. \A t \in Torrent, K \in SUBSET Path : holds[t][K] = 0
  BY DEF ClaimsInit
<1>5. \A t \in Torrent \cup {Nobody}, F \in SUBSET Path : reservations[t][F] = 0
  BY DEF ClaimsInit
<1>6. ClaimsTypeOK
  BY DEF ClaimsInit, ClaimsTypeOK, Claim, Unclaimed
<1>7. Counts(0, {})
  BY FS_EmptySet DEF Counts
<1>8. HoldsCounted
  <2>1. \A p \in Path, t \in Torrent : HoldsOn(p, t) = {}
    BY <1>4, Members
  <2> QED
    BY <2>1, <1>3, <1>7 DEF HoldsCounted
<1>9. SharesCounted
  <2>1. \A p \in Path : SharersOf(p) = {}
    BY <1>3, Members
  <2> QED
    BY <2>1, <1>2, <1>7 DEF SharesCounted
<1>10. DeletingCounted
  <2>1. \A p \in Path : ReservedOn(p) = {}
    BY <1>5, Members
  <2> QED
    BY <2>1, <1>2, <1>7 DEF DeletingCounted
<1> QED
  BY <1>1, <1>2, <1>3, <1>5, <1>6, <1>8, <1>9, <1>10
  DEF TablesInv, OneTable, InlineIsTorrent, EmptyIsDropped, LengthIsTheirs, DeletionIsExclusive

\* Every step keeps the tables exact.
LEMMA TablesStep == TablesInv /\ [ClaimsNext]_claimVars => TablesInv'
<1> SUFFICES ASSUME TablesInv, [ClaimsNext]_claimVars PROVE TablesInv'
  OBVIOUS
<1> USE ClaimsAssumption
<1>1. \A t \in Torrent : \A K \in FileLists[t] : K \in SUBSET Path
  OBVIOUS
<1>2. CASE \E t \in Torrent : \E K \in FileLists[t] : ClaimPaths(t, K)
  BY <1>1, <1>2, ClaimStep
<1>3. CASE \E t \in Torrent : \E K \in FileLists[t] : ReleaseHold(t, K)
  BY <1>1, <1>3, ReleaseStep
<1>4. CASE \E t \in Torrent : \E K \in FileLists[t] : ClaimFreePaths(t, K)
  <2> PICK t \in Torrent, K \in SUBSET Path : MarkDeleting(t, FreePaths(t, K))
    BY <1>1, <1>4 DEF ClaimFreePaths
  <2>1. FreePaths(t, K) \in SUBSET Path
    BY DEF FreePaths
  <2>2. \A p \in Path : p \in FreePaths(t, K) => \A u \in Torrent \ {t} : OwnRefs(p, u) = 0
    BY AllAreOwn DEF FreePaths
  <2> QED
    BY <2>1, <2>2, ReserveStep
<1>5. CASE \E t \in Torrent : \E K \in FileLists[t] : ClaimUnheldPaths(K)
  <2> PICK K \in SUBSET Path : MarkDeleting(Nobody, UnheldPaths(K))
    BY <1>1, <1>5 DEF ClaimUnheldPaths
  <2>1. UnheldPaths(K) \in SUBSET Path
    BY DEF UnheldPaths
  <2>2. \A p \in UnheldPaths(K) : \A u \in Torrent \ {Nobody} : OwnRefs(p, u) = 0
    BY <2>1, ReservedAreFree
  <2> QED
    BY <2>1, <2>2, ReserveStep
<1>6. CASE \E t \in Torrent \cup {Nobody} : \E F \in SUBSET Path : ReleaseDeleting(t, F)
  BY <1>6, UnreserveStep
<1>7. CASE UNCHANGED claimVars
  <2>1. /\ pathClaims' = pathClaims /\ sharedClaims' = sharedClaims
        /\ holds' = holds /\ reservations' = reservations
    BY <1>7 DEF claimVars
  <2>2. /\ \A p \in Path, t \in Torrent : /\ HoldsOn(p, t)' = HoldsOn(p, t)
                                       /\ OwnRefs(p, t)' = OwnRefs(p, t)
                                       /\ Inline(p, t)' <=> Inline(p, t)
        /\ \A p \in Path : /\ SharersOf(p)' = SharersOf(p)
                          /\ ReservedOn(p)' = ReservedOn(p)
                          /\ AllRefs(p)' = AllRefs(p)
    BY <2>1 DEF HoldsOn, SharersOf, ReservedOn, AllRefs, OwnRefs, Inline
  <2>3. ClaimsTypeOK' /\ InlineIsTorrent' /\ OneTable' /\ EmptyIsDropped'
    BY <2>1 DEF TablesInv, ClaimsTypeOK, InlineIsTorrent, OneTable, EmptyIsDropped, Inline, AllRefs
  <2>4. HoldsCounted'
    <3> SUFFICES ASSUME NEW p \in Path, NEW t \in Torrent
                 PROVE  Counts(OwnRefs(p, t)', HoldsOn(p, t)')
      BY DEF HoldsCounted, Counts
    <3>1. Counts(OwnRefs(p, t), HoldsOn(p, t))
      BY DEF TablesInv, HoldsCounted
    <3>2. HoldsOn(p, t)' = HoldsOn(p, t) /\ OwnRefs(p, t)' = OwnRefs(p, t)
      BY <2>1 DEF HoldsOn, OwnRefs, Inline
    <3> QED
      BY <3>1, <3>2 DEF Counts
  <2>5. SharesCounted' /\ DeletingCounted'
    BY <2>1, <2>2 DEF TablesInv, SharesCounted, DeletingCounted, Counts
  <2>6. LengthIsTheirs' /\ DeletionIsExclusive'
    BY <2>1 DEF TablesInv, LengthIsTheirs, DeletionIsExclusive, OwnRefs, Inline
  <2> QED
    BY <2>3, <2>4, <2>5, <2>6 DEF TablesInv
<1> QED
  BY <1>2, <1>3, <1>4, <1>5, <1>6, <1>7 DEF ClaimsNext

\* The tables are always what the outstanding releases say.
THEOREM TablesInvariant == ClaimsSpec => []TablesInv
  BY TablesInitially, TablesStep, PTL DEF ClaimsSpec

\* The claims of path_claims.go are exact: they lose and keep no reference, no
\* deletion takes a path another torrent holds, and the torrents that hold a
\* path agree on its length.
THEOREM ClaimsExact == ClaimsSpec => []ClaimsAreExact
<1>1. TablesInv => HoldersAgreeOnLength
  BY DEF TablesInv, LengthIsTheirs, HoldersAgreeOnLength
<1>2. TablesInv => NothingLeftBehind
  <2> SUFFICES ASSUME TablesInv, Drained, NEW p \in Path
               PROVE  pathClaims[p] = Unclaimed
    BY DEF NothingLeftBehind
  <2>1. \A t \in Torrent : OwnRefs(p, t) = 0
    <3> SUFFICES ASSUME NEW t \in Torrent PROVE OwnRefs(p, t) = 0
      OBVIOUS
    <3>1. HoldsOn(p, t) = {}
      BY Members DEF Drained
    <3> QED
      BY <3>1, OwnRefsIs, NoneLeft DEF TablesInv, HoldsCounted
  <2>2. AllRefs(p) = 0
    BY <2>1, NobodyHolds
  <2>3. pathClaims[p].deleting = 0
    <3>1. ReservedOn(p) = {}
      BY Members DEF Drained
    <3> QED
      BY <3>1, EntryTypes, NoneLeft DEF TablesInv, DeletingCounted
  <2> QED
    BY <2>2, <2>3 DEF TablesInv, EmptyIsDropped
<1>3. TablesInv => ClaimsAreExact
  BY <1>1, <1>2 DEF TablesInv, ClaimsAreExact
<1> QED
  BY <1>3, TablesInvariant, PTL

-----------------------------------------------------------------------------
(* The tables implement PathOwnership *)

\* Each operation is, in terms of holders and reservations, the operation of
\* PathOwnership of that name.
LEMMA ClaimIsClaim ==
  ASSUME TablesInv, TablesInv', NEW t \in Torrent, NEW K \in SUBSET Path, ClaimPaths(t, K)
  PROVE  Ownership!Claim(t, K)
<1>1. Shifts(t, K, 1)
  BY ClaimMoves
<1>2. \A p \in Path : pathClaims'[p].deleting = pathClaims[p].deleting
  BY AddHoldIs DEF ClaimPaths
<1>3. ASSUME NEW p \in K PROVE Ownership!MayClaim(t, p)
  <2>1. Joinable(p, t)
    BY DEF ClaimPaths
  <2>2. AllRefs(p) > 0 \/ \A u \in Torrent : OwnRefs(p, u) = 0
    <3>1. pathClaims[p].refs \in Nat /\ pathClaims[p].shared \in Nat
      BY EntryTypes
    <3>2. AllRefs(p) \in Nat
      BY <3>1 DEF AllRefs
    <3> QED
      BY <3>2, NobodyHolds
  <2>3. \A u \in Torrent : OwnRefs(p, u) > 0 => pathClaims[p].length = LengthOf[u][p]
    BY DEF TablesInv, LengthIsTheirs
  <2> QED
    BY <2>1, <2>2, <2>3 DEF Joinable, Ownership!MayClaim, Ownership!Others
<1>4. [p \in Path |-> [u \in Torrent |-> OwnRefs(p, u)']] =
        [p \in Path |-> IF p \in K
                        THEN [[u \in Torrent |-> OwnRefs(p, u)] EXCEPT ![t] = @ + 1]
                        ELSE [u \in Torrent |-> OwnRefs(p, u)]]
  <2> SUFFICES ASSUME NEW p \in Path
               PROVE  [u \in Torrent |-> OwnRefs(p, u)'] =
                        IF p \in K THEN [[u \in Torrent |-> OwnRefs(p, u)] EXCEPT ![t] = @ + 1]
                        ELSE [u \in Torrent |-> OwnRefs(p, u)]
    OBVIOUS
  <2>1. \A u \in Torrent : /\ OwnRefs(p, u) \in Nat
                           /\ OwnRefs(p, u)' = OwnRefs(p, u) + (IF u = t /\ p \in K THEN 1 ELSE 0)
    BY <1>1, OwnRefsIs DEF Shifts
  <2> QED
    BY <2>1
<1> QED
  BY <1>2, <1>3, <1>4 DEF Ownership!Claim

\* A release of the tables is the release of PathOwnership.
LEMMA ReleaseIsRelease ==
  ASSUME TablesInv, NEW t \in Torrent, NEW K \in SUBSET Path, ReleaseHold(t, K)
  PROVE  Ownership!Release(t, K)
<1>1. Shifts(t, K, -1)
  BY ReleaseMoves
<1>2. \A p \in Path : p \in K => Inline(p, t) \/ Shares(p, t)
  <2> SUFFICES ASSUME NEW p \in Path, p \in K, ~Inline(p, t) PROVE Shares(p, t)
    OBVIOUS
  <2>1. OwnRefs(p, t) > 0
    BY HeldIsOwned DEF ReleaseHold
  <2> QED
    BY <2>1, OwnRefsIs
<1>3. \A p \in Path : pathClaims'[p].deleting = pathClaims[p].deleting
  BY <1>2, RemoveHoldIs DEF ReleaseHold
<1>4. \A p \in K : OwnRefs(p, t) > 0
  BY HeldIsOwned DEF ReleaseHold
<1>5. [p \in Path |-> [u \in Torrent |-> OwnRefs(p, u)']] =
        [p \in Path |-> IF p \in K
                        THEN [[u \in Torrent |-> OwnRefs(p, u)] EXCEPT ![t] = @ - 1]
                        ELSE [u \in Torrent |-> OwnRefs(p, u)]]
  <2> SUFFICES ASSUME NEW p \in Path
               PROVE  [u \in Torrent |-> OwnRefs(p, u)'] =
                        IF p \in K THEN [[u \in Torrent |-> OwnRefs(p, u)] EXCEPT ![t] = @ - 1]
                        ELSE [u \in Torrent |-> OwnRefs(p, u)]
    OBVIOUS
  <2>1. \A u \in Torrent : /\ OwnRefs(p, u) \in Nat
                           /\ OwnRefs(p, u)' = OwnRefs(p, u) + (IF u = t /\ p \in K THEN -1 ELSE 0)
    BY <1>1, OwnRefsIs DEF Shifts
  <2> QED
    BY <2>1
<1> QED
  BY <1>3, <1>4, <1>5 DEF Ownership!Release

\* So are reservations for a deletion and for a move.
LEMMA ReserveIsReserve ==
  ASSUME TablesInv, NEW K \in SUBSET Path
  PROVE  /\ \A t \in Torrent : ClaimFreePaths(t, K) => Ownership!ReserveForDeletion(t, K)
         /\ ClaimUnheldPaths(K) => Ownership!ReserveForMove(K)
<1>1. ASSUME NEW t \in Torrent \cup {Nobody}, NEW F \in SUBSET Path, MarkDeleting(t, F)
      PROVE  /\ Ownership!Reserved(F)
             /\ [p \in Path |-> [u \in Torrent |-> OwnRefs(p, u)']] =
                  [p \in Path |-> [u \in Torrent |-> OwnRefs(p, u)]]
  <2>1. \A p \in Path, u \in Torrent : OwnRefs(p, u)' = OwnRefs(p, u)
    BY <1>1, MarkMoves
  <2>2. \A p \in Path : pathClaims'[p].deleting = pathClaims[p].deleting + (IF p \in F THEN 1 ELSE 0)
    BY <1>1 DEF MarkDeleting, TablesInv, ClaimsTypeOK, Claim
  <2> QED
    BY <2>1, <2>2 DEF Ownership!Reserved
<1>2. ASSUME NEW t \in Torrent, ClaimFreePaths(t, K)
      PROVE  Ownership!ReserveForDeletion(t, K)
  <2>1. FreePaths(t, K) = {p \in K : Ownership!Others(t, p) = {}}
    <3> SUFFICES ASSUME NEW p \in Path, p \in K
                 PROVE  p \in FreePaths(t, K) <=> Ownership!Others(t, p) = {}
      BY DEF FreePaths
    <3>1. \A u \in Torrent : OwnRefs(p, u) \in Nat
      BY OwnRefsIs
    <3>2. Ownership!Others(t, p) = {u \in Torrent \ {t} : OwnRefs(p, u) > 0}
      BY DEF Ownership!Others
    <3>3. Ownership!Others(t, p) = {} <=> \A u \in Torrent \ {t} : OwnRefs(p, u) = 0
      BY <3>1, <3>2
    <3>4. p \in FreePaths(t, K) <=> AllRefs(p) <= OwnRefs(p, t)
      BY DEF FreePaths
    <3> QED
      BY <3>3, <3>4, AllAreOwn
  <2>2. PICK F \in SUBSET Path : F = FreePaths(t, K)
    BY DEF FreePaths
  <2>3. MarkDeleting(t, F)
    BY <1>2, <2>2 DEF ClaimFreePaths
  <2>4. Ownership!Reserved(F)
    BY <1>1, <2>3
  <2>5. [p \in Path |-> [u \in Torrent |-> OwnRefs(p, u)']] =
          [p \in Path |-> [u \in Torrent |-> OwnRefs(p, u)]]
    BY <1>1, <2>3
  <2> QED
    BY <2>1, <2>2, <2>4, <2>5 DEF Ownership!ReserveForDeletion, Ownership!Reserved
<1>3. ASSUME ClaimUnheldPaths(K)
      PROVE  Ownership!ReserveForMove(K)
  <2> DEFINE Unheld == {p \in K : /\ [q \in Path |-> pathClaims[q].deleting][p] = 0
                                  /\ \A u \in Torrent :
                                       [q \in Path |-> [w \in Torrent |-> OwnRefs(q, w)]][p][u] = 0}
  <2>1. UnheldPaths(K) = Unheld
    BY ReservedAreFree DEF UnheldPaths
  <2>2. PICK F \in SUBSET Path : F = UnheldPaths(K)
    BY DEF UnheldPaths
  <2>3. MarkDeleting(Nobody, F)
    BY <1>3, <2>2 DEF ClaimUnheldPaths
  <2>4. Ownership!Reserved(F)
    BY <1>1, <2>3
  <2>5. [p \in Path |-> [u \in Torrent |-> OwnRefs(p, u)']] =
          [p \in Path |-> [u \in Torrent |-> OwnRefs(p, u)]]
    BY <1>1, <2>3
  <2> QED
    BY <2>1, <2>2, <2>4, <2>5 DEF Ownership!ReserveForMove, Ownership!Reserved
<1> QED
  BY <1>2, <1>3

\* And so is the end of either.
LEMMA UnreserveIsUnreserve ==
  ASSUME TablesInv, NEW t \in Torrent \cup {Nobody}, NEW F \in SUBSET Path, ReleaseDeleting(t, F)
  PROVE  Ownership!Unreserve(F)
<1>1. \A p \in Path, u \in Torrent : OwnRefs(p, u)' = OwnRefs(p, u)
  BY MarkMoves
<1>2. \A p \in F : pathClaims[p].deleting > 0
  BY ReservedIsMarked DEF ReleaseDeleting, Once
<1>3. \A p \in Path : pathClaims'[p].deleting = pathClaims[p].deleting - (IF p \in F THEN 1 ELSE 0)
  BY DEF ReleaseDeleting, StoreClaim, Unclaimed, TablesInv, ClaimsTypeOK, Claim
<1> QED
  BY <1>1, <1>2, <1>3 DEF Ownership!Unreserve

\* Whatever table a claim is in and wherever it moves, the code's operations are
\* those of the table of holders and reservations anybody would write.
THEOREM OwnershipImplemented == ClaimsSpec => ClaimsImplementOwnership
<1> USE ClaimsAssumption
<1>1. ClaimsInit => Ownership!Init
  BY DEF ClaimsInit, Ownership!Init, OwnRefs, Inline, Unclaimed
<1>2. TablesInv /\ TablesInv' /\ [ClaimsNext]_claimVars => [Ownership!Next]_Ownership!vars
  <2> SUFFICES ASSUME TablesInv, TablesInv', [ClaimsNext]_claimVars
               PROVE  [Ownership!Next]_Ownership!vars
    OBVIOUS
  <2>1. \A t \in Torrent : \A K \in FileLists[t] : K \in SUBSET Path
    OBVIOUS
  <2>2. CASE \E t \in Torrent : \E K \in FileLists[t] : ClaimPaths(t, K)
    BY <2>1, <2>2, ClaimIsClaim DEF Ownership!Next
  <2>3. CASE \E t \in Torrent : \E K \in FileLists[t] : ReleaseHold(t, K)
    BY <2>1, <2>3, ReleaseIsRelease DEF Ownership!Next
  <2>4. CASE \E t \in Torrent : \E K \in FileLists[t] : ClaimFreePaths(t, K)
    BY <2>1, <2>4, ReserveIsReserve DEF Ownership!Next
  <2>5. CASE \E t \in Torrent : \E K \in FileLists[t] : ClaimUnheldPaths(K)
    BY <2>1, <2>5, ReserveIsReserve DEF Ownership!Next
  <2>6. CASE \E t \in Torrent \cup {Nobody} : \E F \in SUBSET Path : ReleaseDeleting(t, F)
    BY <2>6, UnreserveIsUnreserve DEF Ownership!Next
  <2>7. CASE UNCHANGED claimVars
    BY <2>7 DEF claimVars, Ownership!vars, OwnRefs, Inline
  <2> QED
    BY <2>2, <2>3, <2>4, <2>5, <2>6, <2>7 DEF ClaimsNext
<1> QED
  BY <1>1, <1>2, TablesInvariant, PTL DEF ClaimsSpec, ClaimsImplementOwnership, Ownership!Spec

-----------------------------------------------------------------------------
(***************************************************************************)
(* Theorems about CrashContainment, for any torrents, number of runs and   *)
(* changes: what session.json keeps through crashes, restores and power    *)
(* losses, and what the next start makes of a crash.                       *)
(***************************************************************************)

----------------------------------------------------------------------------
(* Typing                                                                  *)

EntryType == [paused : BOOLEAN, quarantined : BOOLEAN, component : {"", "session", "restore"}]
SessionType == [paused : BOOLEAN, autoPaused : BOOLEAN, quarantined : BOOLEAN]
Wish == {"running", "paused", "absent"}
\* Maps from some of the torrents.
Maps(f, T) == DOMAIN f \subseteq Torrents /\ \A t \in DOMAIN f : f[t] \in T

DiskTypeOK ==
    /\ Maps(saved, EntryType)
    /\ \A c \in crashFiles : c.run \in Nat
    /\ sentinel \in [is : {"none", "unreadable", "written"}, start : Nat, stable : BOOLEAN]
    /\ streak \in Nat

ProcessTypeOK ==
    /\ run \in Nat /\ phase \in {"down", "restoring", "running"}
    /\ startPaused \in BOOLEAN /\ unsaved \in BOOLEAN
    /\ Maps(previous.crashes, {"session", "restore"})
    /\ todo \subseteq DOMAIN saved /\ (phase # "restoring" => todo = {})
    /\ Maps(loaded, SessionType) /\ Maps(unrestored, EntryType)

HistoryTypeOK ==
    /\ intent \in [Torrents -> Wish] /\ savedIntent \in [Torrents -> Wish]
    /\ blamed \subseteq Torrents /\ lastBlamed \subseteq Torrents /\ lastRestoring \subseteq Torrents
    /\ ends \in Seq({"clean", "early", "stable", "blamed", "power"})

CrashTypeOK == DiskTypeOK /\ ProcessTypeOK /\ HistoryTypeOK

----------------------------------------------------------------------------
(* What session.json lists is what the user wished at the last save, what  *)
(* a running program would save is what the user wishes now, and a start   *)
(* works its way from the one to the other without losing an entry.        *)

Faithful(e, wish) == ~e.quarantined => (e.paused <=> wish = "paused")
Matches(f, wishes) ==
    /\ DOMAIN f = {t \in Torrents : wishes[t] # "absent"}
    /\ \A t \in DOMAIN f : Faithful(f[t], wishes[t])

SavedMatches == Matches(saved, savedIntent)
RestoreMatches ==
    phase = "restoring" =>
        /\ intent = savedIntent
        /\ todo \cup DOMAIN loaded \cup DOMAIN unrestored = DOMAIN saved
        /\ \A t \in DOMAIN Snapshot : Faithful(Snapshot[t], intent[t])
RunMatches ==
    phase = "running" => Matches(Snapshot, intent) /\ (~unsaved => intent = savedIntent)

SavesInv == CrashTypeOK /\ SavedMatches /\ RestoreMatches /\ RunMatches

----------------------------------------------------------------------------
(* The sentinel on disk is of the last run, and so are the newest crash    *)
(* files: the next start finds there whom to blame.                        *)

Alive == phase # "down"

SentinelIsOfRun ==
    /\ Alive => sentinel.is = "written"
    /\ sentinel.is = "written" => sentinel.start = run
    /\ \A c \in crashFiles : c.run <= run /\ (Alive => c.run < run)

Reported(t) == \E c \in crashFiles : c.run = run /\ c.torrent = t
ReportedRestoring(t) ==
    \E c \in crashFiles : c.run = run /\ c.torrent = t /\ c.component = "restore"

BlameIsReported ==
    /\ lastRestoring \subseteq lastBlamed
    /\ ~Alive /\ lastBlamed # {} => sentinel.is = "written"
    /\ ~Alive => \A t \in lastBlamed : Reported(t)
    /\ ~Alive => \A t \in lastRestoring : ReportedRestoring(t)

BlameIsKnown ==
    Alive => /\ lastBlamed \subseteq DOMAIN previous.crashes
             /\ \A t \in lastRestoring : previous.crashes[t] = "restore"

BlameInv == CrashTypeOK /\ SentinelIsOfRun /\ BlameIsReported /\ BlameIsKnown /\ CrashIsContained

----------------------------------------------------------------------------
(* How the last run ended can be read off the disk, and the streak counts  *)
(* the unexplained ends before it.                                         *)

NamedNow == {c \in crashFiles : c.run >= run /\ c.torrent \in Torrents}
EndIsRead ==
    ~Alive => /\ ends = <<>> => sentinel.is = "none" /\ streak = 0
              /\ ends # <<>> =>
                   /\ ends[1] = "clean" => sentinel.is = "none"
                   /\ ends[1] = "stable" => sentinel.stable
                   /\ ends[1] = "blamed" => sentinel.is = "written" /\ NamedNow # {}
                   /\ ends[1] = "early" =>
                        sentinel.is = "written" /\ ~sentinel.stable /\ NamedNow = {}

Unexplained(i) == i \in DOMAIN ends /\ ends[i] \in {"early", "power"}
StreakCounts ==
    /\ Alive => /\ streak >= 1 => Unexplained(1)
                /\ streak >= 2 => Unexplained(2)
                /\ 1 \in DOMAIN ends /\ ends[1] = "early" => streak >= 1
                /\ {1, 2} \subseteq DOMAIN ends /\ ends[1] = "early" /\ ends[2] = "early" => streak >= 2
                /\ previous.pauseAll <=> streak >= 2
    /\ ~Alive => /\ streak >= 1 => Unexplained(2)
                 /\ 2 \in DOMAIN ends /\ ends[2] = "early" => streak >= 1

StreakInv == CrashTypeOK /\ SentinelIsOfRun /\ EndIsRead /\ StreakCounts

----------------------------------------------------------------------------
(* Maps and sequences                                                      *)

\* What Put does, for any map from torrents.
LEMMA PutFacts ==
    ASSUME NEW f, NEW T, NEW t \in Torrents, NEW v \in T, Maps(f, T)
    PROVE  /\ Maps(Put(f, t, v), T)
           /\ DOMAIN Put(f, t, v) = DOMAIN f \cup {t}
           /\ Put(f, t, v)[t] = v
           /\ \A s \in DOMAIN f : s # t => Put(f, t, v)[s] = f[s]
  BY DEF Put, Maps

\* What Drop does, for any map from torrents.
LEMMA DropFacts ==
    ASSUME NEW f, NEW T, NEW t \in Torrents, Maps(f, T)
    PROVE  /\ Maps(Drop(f, t), T)
           /\ DOMAIN Drop(f, t) = DOMAIN f \ {t}
           /\ \A s \in DOMAIN Drop(f, t) : Drop(f, t)[s] = f[s]
  BY DEF Drop, Kept, Maps

\* The empty map is a map to anything.
LEMMA NothingFacts == DOMAIN Nothing = {} /\ \A T : Maps(Nothing, T)
  BY DEF Nothing, Maps

\* An end joins the history in front of those before it.
LEMMA EndFacts ==
    ASSUME NEW S, NEW s \in Seq(S), NEW e \in S
    PROVE  /\ <<e>> \o s \in Seq(S) /\ <<e>> \o s # <<>>
           /\ (<<e>> \o s)[1] = e
           /\ 2 \in DOMAIN (<<e>> \o s) <=> 1 \in DOMAIN s
           /\ 1 \in DOMAIN s => (<<e>> \o s)[2] = s[1]
  <1>1. <<e>> \in Seq(S) /\ Len(<<e>>) = 1 /\ <<e>>[1] = e
    OBVIOUS
  <1>2. <<e>> \o s \in Seq(S) /\ Len(<<e>> \o s) = 1 + Len(s)
    BY <1>1
  <1>3. Len(s) \in Nat /\ DOMAIN s = 1 .. Len(s) /\ DOMAIN (<<e>> \o s) = 1 .. (1 + Len(s))
    BY <1>2
  <1>4. (<<e>> \o s)[1] = e
    BY <1>1
  <1>5. ASSUME 1 \in DOMAIN s PROVE (<<e>> \o s)[2] = s[1]
    BY <1>1, <1>3, <1>5
  <1>. QED BY <1>2, <1>3, <1>4, <1>5

\* What the start makes of the crash files: those since the last one began name
\* their torrents, a crash in restoring before any other.
LEMMA AttributedFacts ==
    ASSUME NEW start
    PROVE  /\ Maps(attributedCrashes(start), {"session", "restore"})
           /\ \A c \in crashFiles : c.run >= start /\ c.torrent \in Torrents =>
                /\ c.torrent \in DOMAIN attributedCrashes(start)
                /\ c.component = "restore" => attributedCrashes(start)[c.torrent] = "restore"
           /\ \A t \in DOMAIN attributedCrashes(start) :
                \E c \in crashFiles : c.run >= start /\ c.torrent \in Torrents /\ c.torrent = t
  <1>. DEFINE named == {c \in Since(start) : c.torrent \in Torrents}
  <1>1. \A c \in named : c \in crashFiles /\ c.run >= start /\ c.torrent \in Torrents
    BY DEF Since
  <1>2. \A c \in crashFiles : c.run >= start /\ c.torrent \in Torrents => c \in named
    BY DEF Since
  <1>. HIDE DEF named
  <1>3. attributedCrashes(start) =
          [t \in {c.torrent : c \in named} |->
             IF \E c \in named : c.torrent = t /\ c.component = "restore" THEN "restore" ELSE "session"]
    BY DEF attributedCrashes, named
  <1>4. Maps(attributedCrashes(start), {"session", "restore"})
    BY <1>1, <1>3 DEF Maps
  <1>5. \A c \in named :
          /\ c.torrent \in DOMAIN attributedCrashes(start)
          /\ c.component = "restore" => attributedCrashes(start)[c.torrent] = "restore"
    BY <1>3
  <1>6. \A t \in DOMAIN attributedCrashes(start) : \E c \in named : c.torrent = t
    BY <1>3
  <1>. QED BY <1>1, <1>2, <1>4, <1>5, <1>6

\* What a save writes: an entry for every torrent loaded or unrestored.
LEMMA SnapshotFacts ==
    ASSUME Maps(loaded, SessionType), Maps(unrestored, EntryType)
    PROVE  /\ Maps(Snapshot, EntryType)
           /\ DOMAIN Snapshot = DOMAIN loaded \cup DOMAIN unrestored
           /\ \A t \in DOMAIN loaded :
                /\ Snapshot[t].paused = (loaded[t].paused /\ ~loaded[t].autoPaused)
                /\ Snapshot[t].quarantined = loaded[t].quarantined
           /\ \A t \in DOMAIN unrestored \ DOMAIN loaded : Snapshot[t] = unrestored[t]
  BY Zenon, SMT DEF Snapshot, Maps, Entry, EntryType, SessionType

----------------------------------------------------------------------------
(* Typing is preserved                                                     *)

\* What the start decides of a listed torrent is an entry or a session.
LEMMA RestoredTyped ==
    ASSUME CrashTypeOK, NEW t \in todo, todo \subseteq DOMAIN saved
    PROVE  Restored(t) \in SessionType /\ Failed(t) \in EntryType /\ Untouched(t) \in EntryType
  <1>1. saved[t] \in EntryType
    BY DEF CrashTypeOK, DiskTypeOK, Maps
  <1>2. Quarantined(t) \in BOOLEAN /\ Pauses(t) \in BOOLEAN
    BY <1>1 DEF Quarantined, Pauses, Fresh, EntryType
  <1>3. Component(t) \in {"", "session", "restore"}
    BY <1>1 DEF Component, Fresh, EntryType, CrashTypeOK, ProcessTypeOK, Maps
  <1>. QED BY <1>1, <1>2, <1>3 DEF Restored, Failed, Untouched, Entry, EntryType, SessionType

\* A start types what it makes of the crash files.
LEMMA StartRunTyped == CrashTypeOK /\ (\E flag \in BOOLEAN : StartRun(flag)) => CrashTypeOK'
  <1>. SUFFICES ASSUME CrashTypeOK, NEW flag \in BOOLEAN, StartRun(flag) PROVE CrashTypeOK'
    OBVIOUS
  <1>. DEFINE crashes == IF sentinel.is = "written" THEN attributedCrashes(sentinel.start) ELSE Nothing
  <1>1. Maps(crashes, {"session", "restore"})
    BY AttributedFacts, NothingFacts
  <1>2. streak' = NewStreak(crashes) /\ streak' \in Nat
    BY DEF StartRun, NewStreak, CrashTypeOK, DiskTypeOK
  <1>3. previous'.crashes = crashes
    BY DEF StartRun
  <1>. HIDE DEF crashes
  <1>4. DiskTypeOK'
    BY <1>2 DEF StartRun, Sentinel, CrashTypeOK, DiskTypeOK, ProcessTypeOK
  <1>5. ProcessTypeOK'
    <2>1. Maps(loaded', SessionType) /\ Maps(unrestored', EntryType)
      BY NothingFacts DEF StartRun
    <2>2. Maps(previous'.crashes, {"session", "restore"})
      BY <1>1, <1>3
    <2>3. run' \in Nat /\ phase' = "restoring" /\ todo' \subseteq DOMAIN saved'
      BY DEF StartRun, CrashTypeOK, ProcessTypeOK
    <2>4. startPaused' \in BOOLEAN /\ unsaved' \in BOOLEAN
      BY DEF StartRun
    <2>. QED BY <2>1, <2>2, <2>3, <2>4 DEF ProcessTypeOK
  <1>6. HistoryTypeOK'
    BY DEF StartRun, CrashTypeOK, HistoryTypeOK
  <1>. QED BY <1>4, <1>5, <1>6 DEF CrashTypeOK

\* Restoring an entry makes a session of it, or an unrestored entry.
LEMMA RestoreOneTyped == CrashTypeOK /\ (\E t \in Torrents : RestoreOne(t)) => CrashTypeOK'
  <1>. SUFFICES ASSUME CrashTypeOK, NEW t \in Torrents, RestoreOne(t) PROVE CrashTypeOK'
    OBVIOUS
  <1>1. t \in todo /\ todo \subseteq DOMAIN saved
    BY DEF RestoreOne, CrashTypeOK, ProcessTypeOK
  <1>2. Restored(t) \in SessionType /\ Failed(t) \in EntryType /\ Untouched(t) \in EntryType
    BY <1>1, RestoredTyped
  <1>3. Maps(loaded', SessionType) /\ Maps(unrestored', EntryType)
    <2>1. Maps(loaded, SessionType) /\ Maps(unrestored, EntryType)
      BY DEF CrashTypeOK, ProcessTypeOK
    <2>2. /\ Maps(Put(loaded, t, Restored(t)), SessionType)
          /\ Maps(Put(unrestored, t, Failed(t)), EntryType)
          /\ Maps(Put(unrestored, t, Untouched(t)), EntryType)
      BY <1>2, <2>1, PutFacts
    <2>. QED BY <2>1, <2>2 DEF RestoreOne
  <1>4. DiskTypeOK' /\ HistoryTypeOK'
    BY DEF RestoreOne, stateDir, history, CrashTypeOK, DiskTypeOK, HistoryTypeOK
  <1>5. ProcessTypeOK'
    BY <1>3 DEF RestoreOne, stateDir, CrashTypeOK, ProcessTypeOK
  <1>. QED BY <1>4, <1>5 DEF CrashTypeOK

\* What is saved while nothing is left to restore is well-typed.
LEMMA SaveTyped == CrashTypeOK /\ (FinishRestore \/ SaveLoop) => CrashTypeOK'
  <1>. SUFFICES ASSUME CrashTypeOK, FinishRestore \/ SaveLoop PROVE CrashTypeOK'
    OBVIOUS
  <1>1. Maps(saved', EntryType)
    BY SnapshotFacts DEF FinishRestore, SaveLoop, Save, CrashTypeOK, ProcessTypeOK
  <1>2. todo = {} /\ todo' = {}
    BY DEF FinishRestore, SaveLoop, CanSave, CrashTypeOK, ProcessTypeOK
  <1>3. DiskTypeOK' /\ HistoryTypeOK'
    BY <1>1 DEF FinishRestore, SaveLoop, Save, CrashTypeOK, DiskTypeOK, HistoryTypeOK
  <1>4. ProcessTypeOK'
    BY <1>2 DEF FinishRestore, SaveLoop, Save, CrashTypeOK, ProcessTypeOK
  <1>. QED BY <1>3, <1>4 DEF CrashTypeOK

\* What the user does to a torrent of a running program.
UserStep(t) == PauseTorrent(t) \/ ResumeTorrent(t) \/ RemoveTorrent(t) \/ AddTorrent(t)

\* What the user asks for keeps every type.
LEMMA UserTyped == CrashTypeOK /\ (\E t \in Torrents : UserStep(t)) => CrashTypeOK'
  <1>. SUFFICES ASSUME CrashTypeOK, NEW t \in Torrents, UserStep(t) PROVE CrashTypeOK'
    OBVIOUS
  <1>. DEFINE fresh == [paused |-> FALSE, autoPaused |-> FALSE, quarantined |-> FALSE]
  <1>0. fresh \in SessionType
    BY DEF SessionType
  <1>1. Maps(loaded', SessionType) /\ Maps(unrestored', EntryType)
    <2>0. Maps(loaded, SessionType) /\ Maps(unrestored, EntryType)
      BY DEF CrashTypeOK, ProcessTypeOK
    <2>1. CASE PauseTorrent(t)
      BY <2>0, <2>1 DEF PauseTorrent, Maps, SessionType
    <2>2. CASE ResumeTorrent(t)
      BY <1>0, <2>0, <2>2 DEF ResumeTorrent, Maps
    <2>3. CASE RemoveTorrent(t)
      BY <2>0, <2>3, DropFacts DEF RemoveTorrent
    <2>4. CASE AddTorrent(t)
      BY <1>0, <2>0, <2>4, PutFacts DEF AddTorrent
    <2>. QED BY <2>1, <2>2, <2>3, <2>4 DEF UserStep
  <1>2. \E want \in Wish : Change(t, want)
    BY DEF UserStep, PauseTorrent, ResumeTorrent, RemoveTorrent, AddTorrent, Wish
  <1>3. DiskTypeOK'
    BY <1>2 DEF Change, stateDir, CrashTypeOK, DiskTypeOK
  <1>4. ProcessTypeOK'
    BY <1>1, <1>2 DEF Change, stateDir, CrashTypeOK, ProcessTypeOK
  <1>5. HistoryTypeOK'
    <2>1. intent' \in [Torrents -> Wish] /\ savedIntent' = savedIntent /\ ends' = ends
      BY <1>2 DEF Change, CrashTypeOK, HistoryTypeOK
    <2>2. blamed' \subseteq Torrents /\ lastBlamed' \subseteq Torrents /\ lastRestoring' \subseteq Torrents
      BY DEF UserStep, PauseTorrent, ResumeTorrent, RemoveTorrent, AddTorrent, Forgiven,
             CrashTypeOK, HistoryTypeOK
    <2>. QED BY <2>1, <2>2 DEF CrashTypeOK, HistoryTypeOK
  <1>. QED BY <1>3, <1>4, <1>5 DEF CrashTypeOK

\* Only a bit of the sentinel changes when the run becomes stable.
LEMMA StableTyped == CrashTypeOK /\ MarkStable => CrashTypeOK'
  <1>. SUFFICES ASSUME CrashTypeOK, MarkStable PROVE CrashTypeOK'
    OBVIOUS
  <1>. QED BY DEF MarkStable, process, history, CrashTypeOK, DiskTypeOK, ProcessTypeOK,
              HistoryTypeOK

\* An end of a run, of whatever kind.
EndStep == (\E t \in Torrents : SessionCrash(t)) \/ Dies \/ PowerFails \/ \E u \in BOOLEAN : CloseRun(u)
How == {"clean", "early", "stable", "blamed", "power"}

\* What an end leaves of the process is nothing.
LEMMA EndFrame ==
    EndStep =>
        /\ phase' = "down" /\ phase # "down"
        /\ todo' = {} /\ loaded' = Nothing /\ unrestored' = Nothing /\ unsaved' = FALSE
        /\ UNCHANGED <<streak, run, startPaused, previous, intent>>
        /\ \E how \in How : ends' = <<how>> \o ends
        /\ \/ UNCHANGED <<saved, savedIntent>>
           \/ phase = "running" /\ saved' = Snapshot /\ savedIntent' = intent
  BY Zenon DEF EndStep, SessionCrash, Dies, PowerFails, CloseRun, Ends, How

\* However a run ends, what it leaves on disk and in the history is well-
\* typed.
LEMMA EndTyped == CrashTypeOK /\ EndStep => CrashTypeOK'
  <1>. SUFFICES ASSUME CrashTypeOK, EndStep PROVE CrashTypeOK'
    OBVIOUS
  <1>1. Maps(saved', EntryType)
    BY EndFrame, SnapshotFacts DEF CrashTypeOK, DiskTypeOK, ProcessTypeOK
  <1>2. \A c \in crashFiles' : c.run \in Nat
    <2>1. ASSUME NEW c \in crashFiles' PROVE c \in crashFiles \/ c.run = run
      <3>1. CASE \E t \in Torrents : SessionCrash(t)
        BY <2>1, <3>1 DEF SessionCrash
      <3>2. CASE Dies \/ PowerFails
        BY <2>1, <3>2 DEF Dies, PowerFails
      <3>3. CASE \E u \in BOOLEAN : CloseRun(u)
        BY <2>1, <3>3 DEF CloseRun
      <3>. QED BY <3>1, <3>2, <3>3 DEF EndStep
    <2>. QED BY <2>1, EndFrame DEF CrashTypeOK, DiskTypeOK, ProcessTypeOK
  <1>3. sentinel' \in [is : {"none", "unreadable", "written"}, start : Nat, stable : BOOLEAN]
    <2>1. sentinel' \in {NoSentinel, Torn, sentinel}
      BY Zenon DEF EndStep, SessionCrash, Dies, PowerFails, CloseRun
    <2>. DEFINE S == [is : {"none", "unreadable", "written"}, start : Nat, stable : BOOLEAN]
    <2>2. NoSentinel \in S /\ Torn \in S
      BY DEF NoSentinel, Torn, Sentinel
    <2>3. sentinel \in S
      BY DEF CrashTypeOK, DiskTypeOK
    <2>. QED BY <2>1, <2>2, <2>3
  <1>4. DiskTypeOK'
    BY <1>1, <1>2, <1>3, EndFrame DEF CrashTypeOK, DiskTypeOK
  <1>5. ProcessTypeOK'
    BY EndFrame, NothingFacts DEF CrashTypeOK, ProcessTypeOK
  <1>6. ends' \in Seq(How)
    <2>1. PICK how \in How : ends' = <<how>> \o ends
      BY EndFrame
    <2>. QED BY <2>1, EndFacts DEF CrashTypeOK, HistoryTypeOK, How
  <1>7. blamed' \subseteq Torrents /\ lastBlamed' \subseteq Torrents /\ lastRestoring' \subseteq Torrents
    BY DEF EndStep, SessionCrash, Dies, PowerFails, CloseRun, CrashTypeOK, HistoryTypeOK
  <1>8. HistoryTypeOK'
    BY <1>6, <1>7, EndFrame DEF How, CrashTypeOK, HistoryTypeOK
  <1>. QED BY <1>4, <1>5, <1>8 DEF CrashTypeOK

\* Every step is one of these.
LEMMA StepKinds ==
    [CrashNext]_crashVars =>
        \/ \E flag \in BOOLEAN : StartRun(flag)
        \/ \E t \in Torrents : RestoreOne(t)
        \/ FinishRestore \/ SaveLoop
        \/ \E t \in Torrents : UserStep(t)
        \/ MarkStable \/ EndStep \/ UNCHANGED crashVars
  BY Zenon DEF CrashNext, UserStep, EndStep

\* Every step keeps the types.
LEMMA TypeStep == CrashTypeOK /\ [CrashNext]_crashVars => CrashTypeOK'
  <1>1. CrashTypeOK /\ UNCHANGED crashVars => CrashTypeOK'
    BY DEF crashVars, stateDir, process, history, CrashTypeOK, DiskTypeOK,
       ProcessTypeOK, HistoryTypeOK
  <1>. QED BY <1>1, StepKinds, StartRunTyped, RestoreOneTyped, SaveTyped, UserTyped,
              StableTyped, EndTyped

----------------------------------------------------------------------------
(* Saves keep to what the user wishes                                      *)

\* The three maps from torrents are typed.
LEMMA TypedMaps ==
    CrashTypeOK => Maps(loaded, SessionType) /\ Maps(unrestored, EntryType) /\ Maps(saved, EntryType)
  BY DEF CrashTypeOK, DiskTypeOK, ProcessTypeOK

\* What a start makes of an entry it neither quarantines nor changes: the pause
\* it adds is its own, and is not saved.
LEMMA RestoredFaithful ==
    ASSUME CrashTypeOK, NEW t \in todo, NEW wish, Faithful(saved[t], wish)
    PROVE  /\ ~Restored(t).quarantined =>
                ((Restored(t).paused /\ ~Restored(t).autoPaused) <=> wish = "paused")
           /\ Faithful(Failed(t), wish) /\ Faithful(Untouched(t), wish)
  <1>1. saved[t] \in EntryType
    BY DEF CrashTypeOK, DiskTypeOK, ProcessTypeOK, Maps
  <1>2. ~Quarantined(t) => ~saved[t].quarantined
    BY <1>1 DEF Quarantined, EntryType
  <1>3. ~Quarantined(t) => (saved[t].paused <=> wish = "paused")
    BY <1>2 DEF Faithful
  <1>4. saved[t].paused => Pauses(t)
    BY DEF Pauses
  <1>5. ~Restored(t).quarantined =>
          ((Restored(t).paused /\ ~Restored(t).autoPaused) <=> wish = "paused")
    BY <1>3, <1>4 DEF Restored
  <1>6. Faithful(Failed(t), wish)
    BY <1>3 DEF Faithful, Failed, Entry
  <1>7. Faithful(Untouched(t), wish)
    BY DEF Faithful, Untouched, Entry
  <1>. QED BY <1>5, <1>6, <1>7

\* Restoring an entry moves it from those to restore to a session or to those
\* unrestored, as the user left it.
LEMMA RestoreOneSaves == SavesInv /\ (\E t \in Torrents : RestoreOne(t)) => SavesInv'
  <1>. SUFFICES ASSUME SavesInv, NEW t \in Torrents, RestoreOne(t) PROVE SavesInv'
    OBVIOUS
  <1>1. CrashTypeOK /\ CrashTypeOK'
    BY RestoreOneTyped DEF SavesInv
  <1>2. /\ t \in todo /\ todo' = todo \ {t} /\ phase = "restoring" /\ phase' = "restoring"
        /\ UNCHANGED <<saved, savedIntent, intent>>
    BY DEF RestoreOne, stateDir, history
  <1>3. t \in DOMAIN saved /\ Faithful(saved[t], intent[t])
    BY <1>1, <1>2 DEF SavesInv, SavedMatches, RestoreMatches, Matches, CrashTypeOK, ProcessTypeOK
  <1>4. Restored(t) \in SessionType /\ Failed(t) \in EntryType /\ Untouched(t) \in EntryType
    BY <1>1, <1>2, RestoredTyped DEF CrashTypeOK, ProcessTypeOK
  <1>5. /\ ~Restored(t).quarantined =>
             ((Restored(t).paused /\ ~Restored(t).autoPaused) <=> intent[t] = "paused")
        /\ Faithful(Failed(t), intent[t]) /\ Faithful(Untouched(t), intent[t])
    BY <1>1, <1>2, <1>3, RestoredFaithful
  <1>6. /\ DOMAIN loaded' \cup DOMAIN unrestored' = DOMAIN loaded \cup DOMAIN unrestored \cup {t}
        /\ \A s \in DOMAIN loaded' : s # t => s \in DOMAIN loaded /\ loaded'[s] = loaded[s]
        /\ \A s \in DOMAIN unrestored' : s # t => s \in DOMAIN unrestored /\ unrestored'[s] = unrestored[s]
        /\ \A s \in DOMAIN loaded : s # t => s \in DOMAIN loaded'
        /\ \/ t \in DOMAIN loaded' /\ loaded'[t] = Restored(t)
           \/ t \in DOMAIN loaded /\ t \in DOMAIN loaded' /\ loaded'[t] = loaded[t]
           \/ t \notin DOMAIN loaded' /\ unrestored'[t] \in {Failed(t), Untouched(t)}
    <2>0. Maps(loaded, SessionType) /\ Maps(unrestored, EntryType)
      BY <1>1, TypedMaps
    <2>1. CASE loaded' = Put(loaded, t, Restored(t)) /\ unrestored' = unrestored
      <3>1. /\ DOMAIN loaded' = DOMAIN loaded \cup {t} /\ loaded'[t] = Restored(t)
            /\ \A s \in DOMAIN loaded : s # t => loaded'[s] = loaded[s]
        BY <2>1 DEF Put
      <3>. QED BY <2>1, <3>1
    <2>2. CASE /\ unrestored' \in {Put(unrestored, t, Failed(t)), Put(unrestored, t, Untouched(t))}
               /\ loaded' = loaded
      <3>1. /\ DOMAIN unrestored' = DOMAIN unrestored \cup {t}
            /\ unrestored'[t] \in {Failed(t), Untouched(t)}
            /\ \A s \in DOMAIN unrestored : s # t => unrestored'[s] = unrestored[s]
        BY <2>2 DEF Put
      <3>. QED BY <2>2, <3>1
    <2>. QED BY <2>1, <2>2 DEF RestoreOne
  <1>7. \A s \in DOMAIN Snapshot' : Faithful(Snapshot'[s], intent[s])
    <2>. SUFFICES ASSUME NEW s \in DOMAIN Snapshot' PROVE Faithful(Snapshot'[s], intent[s])
      OBVIOUS
    <2>0. /\ DOMAIN Snapshot = DOMAIN loaded \cup DOMAIN unrestored
          /\ DOMAIN Snapshot' = DOMAIN loaded' \cup DOMAIN unrestored'
          /\ \A u \in DOMAIN Snapshot : Faithful(Snapshot[u], intent[u])
      BY <1>1, <1>2, TypedMaps, SnapshotFacts DEF SavesInv, RestoreMatches, Snapshot
    <2>1. \A u \in DOMAIN loaded' :
            /\ Snapshot'[u].paused = (loaded'[u].paused /\ ~loaded'[u].autoPaused)
            /\ Snapshot'[u].quarantined = loaded'[u].quarantined
      BY DEF Snapshot, Entry
    <2>2. \A u \in DOMAIN unrestored' \ DOMAIN loaded' : Snapshot'[u] = unrestored'[u]
      BY DEF Snapshot
    <2>3. \A u \in DOMAIN loaded :
            /\ Snapshot[u].paused = (loaded[u].paused /\ ~loaded[u].autoPaused)
            /\ Snapshot[u].quarantined = loaded[u].quarantined
      BY DEF Snapshot, Entry
    <2>4. \A u \in DOMAIN unrestored \ DOMAIN loaded : Snapshot[u] = unrestored[u]
      BY DEF Snapshot
    <2>5. CASE s = t
      <3>1. CASE t \in DOMAIN loaded' /\ loaded'[t] = Restored(t)
        BY <1>5, <2>1, <2>5, <3>1 DEF Faithful
      <3>2. CASE t \in DOMAIN loaded /\ t \in DOMAIN loaded' /\ loaded'[t] = loaded[t]
        BY <2>0, <2>1, <2>3, <2>5, <3>2 DEF Faithful
      <3>3. CASE t \notin DOMAIN loaded' /\ unrestored'[t] \in {Failed(t), Untouched(t)}
        BY <1>5, <2>0, <2>2, <2>5, <3>3
      <3>. QED BY <1>6, <3>1, <3>2, <3>3
    <2>6. CASE s # t /\ s \in DOMAIN loaded'
      BY <1>6, <2>0, <2>1, <2>3, <2>6 DEF Faithful
    <2>7. CASE s # t /\ s \notin DOMAIN loaded'
      BY <1>6, <2>0, <2>2, <2>4, <2>7
    <2>. QED BY <2>5, <2>6, <2>7
  <1>8. RestoreMatches'
    BY <1>2, <1>3, <1>6, <1>7 DEF SavesInv, RestoreMatches
  <1>9. SavedMatches' /\ RunMatches'
    BY <1>2 DEF SavesInv, SavedMatches, RunMatches
  <1>. QED BY <1>1, <1>8, <1>9 DEF SavesInv

\* A save writes a snapshot that matches what the user wishes.
LEMMA SaveSaves == SavesInv /\ (FinishRestore \/ SaveLoop) => SavesInv'
  <1>. SUFFICES ASSUME SavesInv, FinishRestore \/ SaveLoop PROVE SavesInv'
    OBVIOUS
  <1>1. CrashTypeOK /\ CrashTypeOK'
    BY SaveTyped DEF SavesInv
  <1>2. /\ saved' = Snapshot /\ savedIntent' = intent /\ intent' = intent /\ phase' = "running"
        /\ loaded' = loaded /\ unrestored' = unrestored
    BY DEF FinishRestore, SaveLoop, CanSave, Save
  <1>3. Snapshot' = Snapshot
    BY <1>2 DEF Snapshot
  <1>4. Matches(Snapshot, intent)
    <2>1. CASE FinishRestore
      <3>1. DOMAIN Snapshot = DOMAIN saved /\ intent = savedIntent
        BY <1>1, <2>1, TypedMaps, SnapshotFacts DEF FinishRestore, SavesInv, RestoreMatches
      <3>. QED BY <2>1, <3>1 DEF FinishRestore, SavesInv, SavedMatches, RestoreMatches, Matches
    <2>2. CASE SaveLoop
      BY <2>2 DEF SaveLoop, CanSave, SavesInv, RunMatches
    <2>. QED BY <2>1, <2>2
  <1>5. SavedMatches' /\ RestoreMatches' /\ RunMatches'
    BY <1>2, <1>3, <1>4 DEF SavedMatches, RestoreMatches, RunMatches
  <1>. QED BY <1>1, <1>5 DEF SavesInv


\* A change of one torrent's wish keeps a snapshot matching when the others'
\* entries stay and its own follows.
LEMMA ChangeMatches ==
    ASSUME CrashTypeOK, Matches(Snapshot, intent),
           NEW t \in Torrents, NEW want \in Wish, intent' = [intent EXCEPT ![t] = want],
           DOMAIN Snapshot' = IF want = "absent" THEN DOMAIN Snapshot \ {t} ELSE DOMAIN Snapshot \cup {t},
           \A s \in DOMAIN Snapshot \ {t} :
              /\ Snapshot'[s].paused = Snapshot[s].paused
              /\ Snapshot'[s].quarantined = Snapshot[s].quarantined,
           want # "absent" => Faithful(Snapshot'[t], want)
    PROVE  Matches(Snapshot', intent')
  <1>1. intent'[t] = want /\ \A s \in Torrents : s # t => intent'[s] = intent[s]
    BY DEF CrashTypeOK, HistoryTypeOK
  <1>2. DOMAIN Snapshot = {s \in Torrents : intent[s] # "absent"}
    BY DEF Matches
  <1>3. DOMAIN Snapshot' = {s \in Torrents : intent'[s] # "absent"}
    BY <1>1, <1>2
  <1>4. ASSUME NEW s \in DOMAIN Snapshot' PROVE Faithful(Snapshot'[s], intent'[s])
    <2>1. CASE s = t
      BY <1>1, <1>4, <2>1
    <2>2. CASE s # t
      <3>1. s \in DOMAIN Snapshot /\ s \in Torrents /\ Faithful(Snapshot[s], intent[s])
        BY <1>2, <1>4, <2>2 DEF Matches
      <3>. QED BY <1>1, <2>2, <3>1 DEF Faithful
    <2>. QED BY <2>1, <2>2
  <1>. QED BY <1>3, <1>4 DEF Matches

\* The fields of a snapshot, before a step and after it.
Listed(s) == IF s \in DOMAIN loaded THEN loaded[s].paused /\ ~loaded[s].autoPaused ELSE unrestored[s].paused
ListedQuarantined(s) == IF s \in DOMAIN loaded THEN loaded[s].quarantined ELSE unrestored[s].quarantined

\* The snapshot in those terms.
LEMMA SnapshotFields ==
    /\ DOMAIN Snapshot = DOMAIN loaded \cup DOMAIN unrestored
    /\ \A s \in DOMAIN Snapshot :
         Snapshot[s].paused = Listed(s) /\ Snapshot[s].quarantined = ListedQuarantined(s)
  BY DEF Snapshot, Entry, Listed, ListedQuarantined

\* The same of the state after a step.
LEMMA SnapshotFieldsNext ==
    /\ DOMAIN Snapshot' = DOMAIN loaded' \cup DOMAIN unrestored'
    /\ \A s \in DOMAIN Snapshot' :
         Snapshot'[s].paused = Listed(s)' /\ Snapshot'[s].quarantined = ListedQuarantined(s)'
  BY DEF Snapshot, Entry, Listed, ListedQuarantined

\* What the user does to a torrent, the snapshot follows.
LEMMA UserSaves == SavesInv /\ (\E t \in Torrents : UserStep(t)) => SavesInv'
  <1>. SUFFICES ASSUME SavesInv, NEW t \in Torrents, UserStep(t) PROVE SavesInv'
    OBVIOUS
  <1>1. CrashTypeOK /\ CrashTypeOK'
    BY UserTyped DEF SavesInv
  <1>2. /\ phase = "running" /\ phase' = "running" /\ unsaved' = TRUE
        /\ UNCHANGED <<saved, savedIntent>>
    BY DEF UserStep, PauseTorrent, ResumeTorrent, RemoveTorrent, AddTorrent, Running,
       Change, stateDir
  <1>3. Matches(Snapshot, intent)
    BY <1>2 DEF SavesInv, RunMatches
  <1>4. Maps(loaded, SessionType) /\ Maps(unrestored, EntryType)
    BY <1>1, TypedMaps
  <1>5. Matches(Snapshot', intent')
    <2>1. CASE PauseTorrent(t)
      <3>1. /\ DOMAIN loaded' = DOMAIN loaded /\ t \in DOMAIN loaded /\ unrestored' = unrestored
            /\ \A s \in DOMAIN loaded : s # t => loaded'[s] = loaded[s]
            /\ loaded'[t].paused /\ ~loaded'[t].autoPaused
        BY <1>4, <2>1 DEF PauseTorrent, Running, Maps, SessionType
      <3>2. intent' = [intent EXCEPT ![t] = "paused"]
        BY <2>1 DEF PauseTorrent, Change
      <3>3. DOMAIN Snapshot' = DOMAIN Snapshot \cup {t}
        BY <3>1, SnapshotFields, SnapshotFieldsNext
      <3>4. \A s \in DOMAIN Snapshot \ {t} :
            Snapshot'[s].paused = Snapshot[s].paused /\ Snapshot'[s].quarantined = Snapshot[s].quarantined
        BY <3>1, <3>3, SnapshotFields, SnapshotFieldsNext DEF Listed, ListedQuarantined
      <3>5. Snapshot'[t].paused
        <4>1. t \in DOMAIN Snapshot' /\ t \in DOMAIN loaded'
          BY <3>1, <3>3
        <4>2. Snapshot'[t].paused = Listed(t)'
          BY <4>1, SnapshotFieldsNext
        <4>. QED BY <3>1, <4>1, <4>2 DEF Listed
      <3>. QED BY <1>1, <1>3, <3>2, <3>3, <3>4, <3>5, ChangeMatches DEF Wish, Faithful
    <2>2. CASE ResumeTorrent(t)
      <3>1. /\ DOMAIN loaded' = DOMAIN loaded /\ t \in DOMAIN loaded /\ unrestored' = unrestored
            /\ \A s \in DOMAIN loaded : s # t => loaded'[s] = loaded[s]
            /\ ~loaded'[t].paused
        BY <2>2 DEF ResumeTorrent, Running
      <3>2. intent' = [intent EXCEPT ![t] = "running"]
        BY <2>2 DEF ResumeTorrent, Change
      <3>3. DOMAIN Snapshot' = DOMAIN Snapshot \cup {t}
        BY <3>1, SnapshotFields, SnapshotFieldsNext
      <3>4. \A s \in DOMAIN Snapshot \ {t} :
            Snapshot'[s].paused = Snapshot[s].paused /\ Snapshot'[s].quarantined = Snapshot[s].quarantined
        BY <3>1, <3>3, SnapshotFields, SnapshotFieldsNext DEF Listed, ListedQuarantined
      <3>5. ~Snapshot'[t].paused
        <4>1. t \in DOMAIN Snapshot' /\ t \in DOMAIN loaded'
          BY <3>1, <3>3
        <4>2. Snapshot'[t].paused = Listed(t)'
          BY <4>1, SnapshotFieldsNext
        <4>. QED BY <3>1, <4>1, <4>2 DEF Listed
      <3>. QED BY <1>1, <1>3, <3>2, <3>3, <3>4, <3>5, ChangeMatches DEF Wish, Faithful
    <2>3. CASE RemoveTorrent(t)
      <3>1. /\ DOMAIN loaded' = DOMAIN loaded \ {t} /\ DOMAIN unrestored' = DOMAIN unrestored \ {t}
            /\ \A s \in DOMAIN loaded : s # t => loaded'[s] = loaded[s]
            /\ \A s \in DOMAIN unrestored : s # t => unrestored'[s] = unrestored[s]
        BY <1>4, <2>3, DropFacts DEF RemoveTorrent
      <3>2. intent' = [intent EXCEPT ![t] = "absent"]
        BY <2>3 DEF RemoveTorrent, Change
      <3>3. /\ DOMAIN Snapshot' = DOMAIN Snapshot \ {t}
            /\ \A s \in DOMAIN Snapshot \ {t} :
                 Snapshot'[s].paused = Snapshot[s].paused /\ Snapshot'[s].quarantined = Snapshot[s].quarantined
        BY <3>1, SnapshotFields, SnapshotFieldsNext DEF Listed, ListedQuarantined
      <3>. QED BY <1>1, <1>3, <3>2, <3>3, ChangeMatches DEF Wish
    <2>4. CASE AddTorrent(t)
      <3>0. [paused |-> FALSE, autoPaused |-> FALSE, quarantined |-> FALSE] \in SessionType
        BY DEF SessionType
      <3>1. /\ DOMAIN loaded' = DOMAIN loaded \cup {t} /\ unrestored' = unrestored
            /\ \A s \in DOMAIN loaded : s # t => loaded'[s] = loaded[s]
            /\ ~loaded'[t].paused
        BY <2>4 DEF AddTorrent, Put
      <3>2. intent' = [intent EXCEPT ![t] = "running"]
        BY <2>4 DEF AddTorrent, Change
      <3>3. DOMAIN Snapshot' = DOMAIN Snapshot \cup {t}
        BY <3>1, SnapshotFields, SnapshotFieldsNext
      <3>4. \A s \in DOMAIN Snapshot \ {t} :
            Snapshot'[s].paused = Snapshot[s].paused /\ Snapshot'[s].quarantined = Snapshot[s].quarantined
        BY <3>1, <3>3, SnapshotFields, SnapshotFieldsNext DEF Listed, ListedQuarantined
      <3>5. ~Snapshot'[t].paused
        <4>1. t \in DOMAIN Snapshot' /\ t \in DOMAIN loaded'
          BY <3>1, <3>3
        <4>2. Snapshot'[t].paused = Listed(t)'
          BY <4>1, SnapshotFieldsNext
        <4>. QED BY <3>1, <4>1, <4>2 DEF Listed
      <3>. QED BY <1>1, <1>3, <3>2, <3>3, <3>4, <3>5, ChangeMatches DEF Wish, Faithful
    <2>. QED BY <2>1, <2>2, <2>3, <2>4 DEF UserStep
  <1>. QED BY <1>1, <1>2, <1>5 DEF SavesInv, SavedMatches, RestoreMatches, RunMatches

\* Neither a start nor an end changes what is saved, but for a close, which saves.
LEMMA EdgeSaves ==
    SavesInv /\ ((\E flag \in BOOLEAN : StartRun(flag)) \/ MarkStable \/ EndStep) => SavesInv'
  <1>. SUFFICES ASSUME SavesInv, (\E flag \in BOOLEAN : StartRun(flag)) \/ MarkStable \/ EndStep
                PROVE  SavesInv'
    OBVIOUS
  <1>1. CrashTypeOK /\ CrashTypeOK'
    BY StartRunTyped, StableTyped, EndTyped DEF SavesInv
  <1>2. CASE \E flag \in BOOLEAN : StartRun(flag)
    <2>1. /\ saved' = saved /\ savedIntent' = savedIntent /\ intent' = savedIntent
          /\ phase' = "restoring" /\ todo' = DOMAIN saved /\ loaded' = Nothing /\ unrestored' = Nothing
      BY <1>2 DEF StartRun
    <2>2. DOMAIN Snapshot' = {} /\ DOMAIN loaded' = {} /\ DOMAIN unrestored' = {}
      BY <2>1, NothingFacts, SnapshotFieldsNext
    <2>. QED BY <1>1, <2>1, <2>2 DEF SavesInv, SavedMatches, RestoreMatches, RunMatches
  <1>3. CASE MarkStable
    <2>1. UNCHANGED <<saved, savedIntent, intent, phase, todo, loaded, unrestored, unsaved>>
      BY <1>3 DEF MarkStable, process, history
    <2>2. Snapshot' = Snapshot
      BY <2>1 DEF Snapshot
    <2>. QED BY <1>1, <2>1, <2>2 DEF SavesInv, SavedMatches, RestoreMatches, RunMatches
  <1>4. CASE EndStep
    <2>1. Matches(saved', savedIntent')
      BY <1>4, EndFrame DEF SavesInv, SavedMatches, RunMatches
    <2>. QED BY <1>1, <1>4, <2>1, EndFrame DEF SavesInv, SavedMatches, RestoreMatches, RunMatches
  <1>. QED BY <1>2, <1>3, <1>4

\* Every step keeps what is saved, and what would be saved, to the user's
\* wishes.
LEMMA SavesStep == SavesInv /\ [CrashNext]_crashVars => SavesInv'
  <1>1. ASSUME SavesInv, UNCHANGED crashVars PROVE SavesInv'
    <2>1. CrashTypeOK'
      BY <1>1, TypeStep DEF SavesInv
    <2>2. UNCHANGED <<saved, savedIntent, intent, phase, todo, loaded, unrestored, unsaved>>
      BY <1>1 DEF crashVars, stateDir, process, history
    <2>3. Snapshot' = Snapshot
      BY <2>2 DEF Snapshot
    <2>. QED BY <1>1, <2>1, <2>2, <2>3 DEF SavesInv, SavedMatches, RestoreMatches, RunMatches
  <1>. QED BY <1>1, StepKinds, RestoreOneSaves, SaveSaves, UserSaves, EdgeSaves

\* A torrent leaves session.json only by a save of a run it was removed in.
LEMMA SavedStep ==
    SavesInv /\ [CrashNext]_crashVars => \A t \in DOMAIN saved \ DOMAIN saved' : intent[t] = "absent"
  <1>. SUFFICES ASSUME SavesInv, [CrashNext]_crashVars, NEW t \in DOMAIN saved \ DOMAIN saved'
                PROVE  intent[t] = "absent"
    OBVIOUS
  <1>0. t \in Torrents /\ CrashTypeOK
    BY DEF SavesInv, SavedMatches, Matches
  <1>1. CASE FinishRestore
    BY <1>0, <1>1, TypedMaps, SnapshotFields DEF FinishRestore, Save, SavesInv, RestoreMatches
  <1>2. CASE SaveLoop
    BY <1>0, <1>2 DEF SaveLoop, CanSave, Save, SavesInv, RunMatches, Matches
  <1>3. CASE EndStep
    BY <1>0, <1>3, EndFrame DEF SavesInv, RunMatches, Matches
  <1>4. CASE \/ \E flag \in BOOLEAN : StartRun(flag)
             \/ \E u \in Torrents : RestoreOne(u) \/ UserStep(u)
             \/ MarkStable \/ UNCHANGED crashVars
    <2>1. saved' = saved
      BY <1>4 DEF StartRun, RestoreOne, UserStep, PauseTorrent, ResumeTorrent,
         RemoveTorrent, AddTorrent, Change, MarkStable, crashVars, stateDir
    <2>. QED BY <2>1
  <1>. QED BY <1>1, <1>2, <1>3, <1>4, StepKinds

\* What is saved is what the user wishes whenever no save is owed.
LEMMA SavesImply == SavesInv => IntentIsSaved
  <1>. SUFFICES ASSUME SavesInv, phase = "running", ~unsaved PROVE
         /\ DOMAIN saved = Wanted
         /\ \A t \in Wanted : ~saved[t].quarantined => (saved[t].paused <=> intent[t] = "paused")
    BY DEF IntentIsSaved
  <1>. QED BY DEF SavesInv, SavedMatches, RunMatches, Matches, Faithful, Wanted

----------------------------------------------------------------------------
(* The next start knows whom the last run blamed                           *)

\* A step of a run that leaves the files of the start alone keeps what is known
\* of the last run, when it only forgives torrents.
LEMMA RunBlame ==
    ASSUME BlameInv, CrashTypeOK',
           phase # "down", phase' # "down", UNCHANGED <<run, previous, crashFiles, startPaused>>,
           sentinel'.is = sentinel.is, sentinel'.start = sentinel.start,
           lastBlamed' \subseteq lastBlamed, lastRestoring' \subseteq lastRestoring,
           lastRestoring' \subseteq lastBlamed',
           \A t \in lastBlamed' \cap DOMAIN loaded' : loaded'[t].paused /\ loaded'[t].quarantined,
           startPaused \/ lastRestoring' \cap DOMAIN loaded' = {}
    PROVE  BlameInv'
  <1>1. SentinelIsOfRun'
    BY DEF BlameInv, SentinelIsOfRun, Alive
  <1>2. BlameIsReported'
    BY DEF BlameInv, BlameIsReported, Alive
  <1>3. BlameIsKnown'
    BY DEF BlameInv, BlameIsKnown, Alive
  <1>4. CrashIsContained'
    BY DEF CrashIsContained
  <1>. QED BY <1>1, <1>2, <1>3, <1>4 DEF BlameInv

\* The start finds the crash files of the run it follows.
LEMMA StartBlame == BlameInv /\ (\E flag \in BOOLEAN : StartRun(flag)) => BlameInv'
  <1>. SUFFICES ASSUME BlameInv, NEW flag \in BOOLEAN, StartRun(flag) PROVE BlameInv'
    OBVIOUS
  <1>1. CrashTypeOK /\ CrashTypeOK'
    BY StartRunTyped DEF BlameInv
  <1>2. /\ ~Alive /\ phase' = "restoring" /\ run' = run + 1 /\ run \in Nat
        /\ sentinel' = Sentinel("written", run + 1, FALSE)
        /\ loaded' = Nothing /\ UNCHANGED <<crashFiles, lastBlamed, lastRestoring>>
        /\ \A c \in crashFiles : c.run \in Nat
    BY <1>1 DEF StartRun, Alive, CrashTypeOK, ProcessTypeOK, DiskTypeOK
  <1>3. SentinelIsOfRun'
    BY <1>2 DEF Sentinel, BlameInv, SentinelIsOfRun, Alive
  <1>4. BlameIsReported'
    BY <1>2 DEF BlameInv, BlameIsReported, Alive
  <1>5. ASSUME lastBlamed # {}
        PROVE  /\ previous'.crashes = attributedCrashes(run)
               /\ lastBlamed \subseteq DOMAIN attributedCrashes(run)
               /\ \A t \in lastRestoring : attributedCrashes(run)[t] = "restore"
    <2>1. sentinel.is = "written" /\ sentinel.start = run
      BY <1>2, <1>5 DEF BlameInv, BlameIsReported, SentinelIsOfRun
    <2>2. previous'.crashes = attributedCrashes(run)
      BY <2>1 DEF StartRun
    <2>3. lastBlamed \subseteq Torrents /\ lastRestoring \subseteq Torrents
      BY <1>1 DEF CrashTypeOK, HistoryTypeOK
    <2>4. \A t \in lastBlamed : Reported(t)
      BY <1>2 DEF BlameInv, BlameIsReported
    <2>5. \A t \in lastRestoring : ReportedRestoring(t)
      BY <1>2 DEF BlameInv, BlameIsReported
    <2>6. lastBlamed \subseteq DOMAIN attributedCrashes(run)
      BY <1>2, <2>3, <2>4, AttributedFacts DEF Reported
    <2>7. \A t \in lastRestoring : attributedCrashes(run)[t] = "restore"
      BY <1>2, <2>3, <2>5, AttributedFacts DEF ReportedRestoring
    <2>. QED BY <2>2, <2>6, <2>7
  <1>6. BlameIsKnown'
    <2>1. CASE lastBlamed = {}
      BY <1>2, <2>1 DEF BlameInv, BlameIsReported, BlameIsKnown
    <2>2. CASE lastBlamed # {}
      BY <1>2, <1>5, <2>2 DEF BlameIsKnown
    <2>. QED BY <2>1, <2>2
  <1>7. CrashIsContained'
    BY <1>2, NothingFacts DEF CrashIsContained
  <1>. QED BY <1>1, <1>3, <1>4, <1>6, <1>7 DEF BlameInv

\* A restored torrent that the last run blamed is quarantined, and stays
\* unloaded when it was blamed for its restore.
LEMMA RestoreBlame == BlameInv /\ (\E t \in Torrents : RestoreOne(t)) => BlameInv'
  <1>. SUFFICES ASSUME BlameInv, NEW t \in Torrents, RestoreOne(t) PROVE BlameInv'
    OBVIOUS
  <1>1. CrashTypeOK /\ CrashTypeOK'
    BY RestoreOneTyped DEF BlameInv
  <1>2. /\ phase = "restoring" /\ phase' = "restoring"
        /\ UNCHANGED <<run, previous, crashFiles, startPaused, sentinel, lastBlamed, lastRestoring>>
    BY DEF RestoreOne, stateDir, history
  <1>3. /\ \A s \in lastBlamed \cap DOMAIN loaded : loaded[s].paused /\ loaded[s].quarantined
        /\ startPaused \/ lastRestoring \cap DOMAIN loaded = {}
        /\ lastBlamed \subseteq DOMAIN previous.crashes
        /\ \A s \in lastRestoring : previous.crashes[s] = "restore"
        /\ lastRestoring \subseteq lastBlamed
    BY <1>2 DEF BlameInv, CrashIsContained, BlameIsKnown, BlameIsReported, Alive
  <1>4. CASE loaded' = loaded
    BY <1>1, <1>2, <1>3, <1>4, RunBlame
  <1>5. CASE ~StaysUnloaded(t) /\ loaded' = Put(loaded, t, Restored(t))
    <2>1. t \in lastBlamed => Restored(t).paused /\ Restored(t).quarantined
      BY <1>3 DEF Restored, Pauses, Quarantined, Fresh
    <2>2. t \in lastRestoring => startPaused
      BY <1>3, <1>5 DEF StaysUnloaded, Quarantined, Fresh, Component
    <2>3. /\ DOMAIN loaded' = DOMAIN loaded \cup {t} /\ loaded'[t] = Restored(t)
          /\ \A s \in DOMAIN loaded : s # t => loaded'[s] = loaded[s]
      BY <1>5 DEF Put
    <2>4. \A s \in lastBlamed \cap DOMAIN loaded' : loaded'[s].paused /\ loaded'[s].quarantined
      BY <1>3, <2>1, <2>3
    <2>5. startPaused \/ lastRestoring \cap DOMAIN loaded' = {}
      BY <1>3, <2>2, <2>3
    <2>. QED BY <1>1, <1>2, <1>3, <2>4, <2>5, RunBlame
  <1>. QED BY <1>4, <1>5 DEF RestoreOne

\* Only the user lifts a quarantine, and the torrent is forgiven with it.
LEMMA UserBlame == BlameInv /\ (\E t \in Torrents : UserStep(t)) => BlameInv'
  <1>. SUFFICES ASSUME BlameInv, NEW t \in Torrents, UserStep(t) PROVE BlameInv'
    OBVIOUS
  <1>1. CrashTypeOK /\ CrashTypeOK'
    BY UserTyped DEF BlameInv
  <1>2. /\ phase = "running" /\ phase' = "running"
        /\ UNCHANGED <<run, previous, crashFiles, startPaused, sentinel>>
    BY DEF UserStep, PauseTorrent, ResumeTorrent, RemoveTorrent, AddTorrent, Running,
       Change, stateDir
  <1>3. /\ \A s \in lastBlamed \cap DOMAIN loaded : loaded[s].paused /\ loaded[s].quarantined
        /\ startPaused \/ lastRestoring \cap DOMAIN loaded = {}
        /\ lastRestoring \subseteq lastBlamed
    BY <1>2 DEF BlameInv, CrashIsContained, BlameIsReported
  <1>4. CASE PauseTorrent(t)
    <2>1. /\ lastBlamed' = lastBlamed /\ lastRestoring' = lastRestoring
          /\ DOMAIN loaded' = DOMAIN loaded /\ \A s \in DOMAIN loaded : s # t => loaded'[s] = loaded[s]
      BY <1>4 DEF PauseTorrent
    <2>2. t \in DOMAIN loaded /\ loaded[t] \in SessionType
      BY <1>1, <1>4, TypedMaps DEF PauseTorrent, Running, Maps
    <2>3. loaded'[t].paused /\ loaded'[t].quarantined = loaded[t].quarantined
      BY <1>4, <2>2 DEF PauseTorrent, SessionType
    <2>. QED BY <1>1, <1>2, <1>3, <2>1, <2>3, RunBlame
  <1>5. CASE Forgiven(t) /\ \A s \in DOMAIN loaded' : s # t => s \in DOMAIN loaded /\ loaded'[s] = loaded[s]
    BY <1>1, <1>2, <1>3, <1>5, RunBlame DEF Forgiven
  <1>6. ASSUME ~PauseTorrent(t)
        PROVE  Forgiven(t) /\ \A s \in DOMAIN loaded' : s # t => s \in DOMAIN loaded /\ loaded'[s] = loaded[s]
    <2>1. CASE ResumeTorrent(t)
      BY <2>1 DEF ResumeTorrent
    <2>2. CASE RemoveTorrent(t)
      BY <2>2 DEF RemoveTorrent, Drop, Kept
    <2>3. CASE AddTorrent(t)
      BY <2>3 DEF AddTorrent, Put
    <2>. QED BY <1>6, <2>1, <2>2, <2>3 DEF UserStep
  <1>. QED BY <1>4, <1>5, <1>6

\* A save, the stability of a run and a stutter leave the blame as it is.
LEMMA OtherBlame == BlameInv /\ (FinishRestore \/ SaveLoop \/ MarkStable \/ UNCHANGED crashVars) => BlameInv'
  <1>. SUFFICES ASSUME BlameInv, FinishRestore \/ SaveLoop \/ MarkStable \/ UNCHANGED crashVars PROVE BlameInv'
    OBVIOUS
  <1>1. CrashTypeOK /\ CrashTypeOK'
    <2>1. [CrashNext]_crashVars
      BY DEF CrashNext
    <2>. QED BY <2>1, TypeStep DEF BlameInv
  <1>2. /\ UNCHANGED <<run, previous, crashFiles, startPaused, loaded, lastBlamed, lastRestoring>>
        /\ phase = "down" <=> phase' = "down"
    BY DEF FinishRestore, SaveLoop, CanSave, Save, MarkStable, process, history, crashVars, stateDir
  <1>3. sentinel'.is = sentinel.is /\ sentinel'.start = sentinel.start
    <2>1. CASE MarkStable
      BY <1>1, <2>1 DEF MarkStable, CrashTypeOK, DiskTypeOK
    <2>2. CASE FinishRestore \/ SaveLoop \/ UNCHANGED crashVars
      BY <2>2 DEF FinishRestore, SaveLoop, crashVars, stateDir
    <2>. QED BY <2>1, <2>2
  <1>4. CASE phase # "down"
    <2>1. phase \in {"restoring", "running"}
      BY <1>1, <1>4 DEF CrashTypeOK, ProcessTypeOK
    <2>. QED BY <1>1, <1>2, <1>3, <1>4, <2>1, RunBlame DEF BlameInv, CrashIsContained,
                BlameIsReported
  <1>5. CASE phase = "down"
    <2>1. SentinelIsOfRun' /\ BlameIsReported' /\ BlameIsKnown'
      BY <1>2, <1>3, <1>5 DEF BlameInv, SentinelIsOfRun, BlameIsReported, BlameIsKnown,
         Alive, Reported, ReportedRestoring
    <2>2. CrashIsContained'
      BY <1>2, <1>5 DEF CrashIsContained
    <2>. QED BY <1>1, <2>1, <2>2 DEF BlameInv
  <1>. QED BY <1>4, <1>5

\* A run that ends by a crash of a torrent's leaves its file and the sentinel; one
\* that ends otherwise blames no torrent.
LEMMA EndBlame == BlameInv /\ EndStep => BlameInv'
  <1>. SUFFICES ASSUME BlameInv, EndStep PROVE BlameInv'
    OBVIOUS
  <1>1. CrashTypeOK /\ CrashTypeOK'
    BY EndTyped DEF BlameInv
  <1>2. /\ Alive /\ ~Alive' /\ run' = run /\ run \in Nat /\ phase' = "down"
        /\ sentinel.is = "written" /\ sentinel.start = run
        /\ \A c \in crashFiles : c.run \in Nat /\ c.run < run
    BY <1>1, EndFrame DEF Alive, BlameInv, SentinelIsOfRun, CrashTypeOK, ProcessTypeOK, DiskTypeOK
  <1>3. CrashIsContained' /\ BlameIsKnown'
    BY <1>2 DEF CrashIsContained, BlameIsKnown
  <1>4. SentinelIsOfRun' /\ BlameIsReported'
    <2>1. CASE \E t \in Torrents : SessionCrash(t)
      <3>1. PICK t \in Torrents : SessionCrash(t)
        BY <2>1
      <3>2. PICK c \in {"restore", "session"} :
              /\ crashFiles' = crashFiles \cup {[run |-> run, torrent |-> t, component |-> c]}
              /\ lastRestoring' = IF c = "restore" THEN {t} ELSE {}
        BY <3>1 DEF SessionCrash
      <3>3. lastBlamed' = {t} /\ sentinel' = sentinel
        BY <3>1 DEF SessionCrash
      <3>4. SentinelIsOfRun'
        BY <1>2, <3>2, <3>3 DEF SentinelIsOfRun
      <3>5. Reported(t)' /\ (t \in lastRestoring' => ReportedRestoring(t)')
        <4>. DEFINE crash == [run |-> run, torrent |-> t, component |-> c]
        <4>1. crash \in crashFiles' /\ crash.run = run' /\ crash.torrent = t /\ crash.component = c
          BY <1>2, <3>2
        <4>2. t \in lastRestoring' => crash.component = "restore"
          BY <3>2, <4>1
        <4>. HIDE DEF crash
        <4>. QED BY <4>1, <4>2 DEF Reported, ReportedRestoring
      <3>. QED BY <1>2, <3>2, <3>3, <3>4, <3>5 DEF BlameIsReported
    <2>2. CASE Dies \/ PowerFails \/ \E u \in BOOLEAN : CloseRun(u)
      <3>1. lastBlamed' = {} /\ lastRestoring' = {}
        BY <2>2 DEF Dies, PowerFails, CloseRun
      <3>2. sentinel' \in {NoSentinel, Torn, sentinel}
        BY Zenon, <2>2 DEF Dies, PowerFails, CloseRun
      <3>3. sentinel'.is = "written" => sentinel'.start = run
        BY <1>2, <3>2 DEF NoSentinel, Torn, Sentinel
      <3>4. \A c \in crashFiles' : c.run <= run
        <4>1. \A c \in crashFiles' : c \in crashFiles \/ c.run = run
          <5>1. CASE Dies \/ PowerFails
            BY <5>1 DEF Dies, PowerFails
          <5>2. CASE \E u \in BOOLEAN : CloseRun(u)
            BY <5>2 DEF CloseRun
          <5>. QED BY <2>2, <5>1, <5>2
        <4>. QED BY <1>2, <4>1
      <3>5. SentinelIsOfRun'
        BY <1>2, <3>3, <3>4 DEF SentinelIsOfRun
      <3>6. BlameIsReported'
        BY <3>1 DEF BlameIsReported
      <3>. QED BY <3>5, <3>6
    <2>. QED BY <2>1, <2>2 DEF EndStep
  <1>. QED BY <1>1, <1>3, <1>4 DEF BlameInv

\* Every step keeps what is known of the crash of the last run.
LEMMA BlameStep == BlameInv /\ [CrashNext]_crashVars => BlameInv'
  BY StepKinds, StartBlame, RestoreBlame, UserBlame, OtherBlame, EndBlame

----------------------------------------------------------------------------
(* The streak counts the unexplained ends                                  *)

\* A start counts one more end that nothing explains, or begins again at 0; it
\* reads on disk which.
LEMMA StartStreak == StreakInv /\ (\E flag \in BOOLEAN : StartRun(flag)) => StreakInv'
  <1>. SUFFICES ASSUME StreakInv, NEW flag \in BOOLEAN, StartRun(flag) PROVE StreakInv'
    OBVIOUS
  <1>1. CrashTypeOK /\ CrashTypeOK'
    BY StartRunTyped DEF StreakInv
  <1>. DEFINE crashes == IF sentinel.is = "written" THEN attributedCrashes(sentinel.start) ELSE Nothing
  <1>2. /\ phase = "down" /\ phase' = "restoring" /\ run' = run + 1 /\ run \in Nat
        /\ sentinel' = Sentinel("written", run + 1, FALSE) /\ UNCHANGED <<crashFiles, ends>>
        /\ streak \in Nat /\ ends \in Seq(How) /\ \A c \in crashFiles : c.run \in Nat
    BY <1>1 DEF StartRun, CrashTypeOK, ProcessTypeOK, DiskTypeOK, HistoryTypeOK, How
  <1>3. streak' = NewStreak(crashes) /\ (previous'.pauseAll <=> streak' >= 2)
    BY DEF StartRun
  <1>4. SentinelIsOfRun'
    BY <1>2 DEF Sentinel, StreakInv, SentinelIsOfRun, Alive
  <1>5. EndIsRead'
    BY <1>2 DEF EndIsRead, Alive
  <1>6. sentinel.is = "written" => (DOMAIN crashes # {} <=> NamedNow # {})
    <2>. SUFFICES ASSUME sentinel.is = "written"
                  PROVE  DOMAIN attributedCrashes(run) # {} <=> NamedNow # {}
      BY DEF StreakInv, SentinelIsOfRun
    <2>. QED BY AttributedFacts DEF NamedNow
  <1>7. sentinel.is # "written" => DOMAIN crashes = {}
    BY NothingFacts
  <1>8. streak' = IF sentinel.is = "none" \/ DOMAIN crashes # {} \/ sentinel.stable THEN 0 ELSE streak + 1
    BY <1>3 DEF NewStreak
  <1>. HIDE DEF crashes
  <1>9. ends # <<>> => 1 \in DOMAIN ends /\ ends[1] \in How
    BY <1>2
  <1>10. 1 \in DOMAIN ends => ends # <<>>
    BY <1>2
  <1>11. streak' >= 1 => Unexplained(1) /\ streak' = streak + 1
    <2>. SUFFICES ASSUME streak' >= 1 PROVE Unexplained(1) /\ streak' = streak + 1
      OBVIOUS
    <2>1. sentinel.is # "none" /\ DOMAIN crashes = {} /\ ~sentinel.stable /\ streak' = streak + 1
      BY <1>8
    <2>2. ends # <<>>
      BY <1>2, <2>1 DEF StreakInv, EndIsRead, Alive
    <2>3. ends[1] \notin {"clean", "stable", "blamed"}
      BY <1>2, <1>6, <2>1, <2>2 DEF StreakInv, EndIsRead, Alive
    <2>. QED BY <1>9, <2>1, <2>2, <2>3 DEF Unexplained, How
  <1>12. 1 \in DOMAIN ends /\ ends[1] = "early" => streak' = streak + 1
    BY <1>2, <1>6, <1>8, <1>10 DEF StreakInv, EndIsRead, Alive
  <1>13. StreakCounts'
    <2>0. streak' \in Nat
      BY <1>1 DEF CrashTypeOK, DiskTypeOK
    <2>1. streak' >= 2 => Unexplained(2)
      <3>1. streak' >= 2 => streak' = streak + 1
        BY <1>11, <2>0
      <3>2. streak' >= 2 => streak >= 1
        BY <1>2, <2>0, <3>1
      <3>. QED BY <1>2, <3>2 DEF StreakInv, StreakCounts, Alive
    <2>2. {1, 2} \subseteq DOMAIN ends /\ ends[1] = "early" /\ ends[2] = "early" => streak' >= 2
      BY <1>2, <1>12 DEF StreakInv, StreakCounts, Alive
    <2>3. 1 \in DOMAIN ends /\ ends[1] = "early" => streak' >= 1
      BY <1>2, <1>12
    <2>. QED BY <1>2, <1>3, <1>11, <2>1, <2>2, <2>3 DEF StreakCounts, Alive, Unexplained
  <1>. QED BY <1>1, <1>4, <1>5, <1>13 DEF StreakInv

\* What a run does before its end changes neither the streak nor the history.
LEMMA RunStreak ==
    StreakInv /\ (\/ \E t \in Torrents : RestoreOne(t) \/ UserStep(t)
                  \/ FinishRestore \/ SaveLoop \/ MarkStable \/ UNCHANGED crashVars) => StreakInv'
  <1>. SUFFICES ASSUME StreakInv,
                       \/ \E t \in Torrents : RestoreOne(t) \/ UserStep(t)
                       \/ FinishRestore \/ SaveLoop \/ MarkStable \/ UNCHANGED crashVars
                PROVE  StreakInv'
    OBVIOUS
  <1>1. CrashTypeOK /\ CrashTypeOK'
    <2>1. [CrashNext]_crashVars
      BY DEF CrashNext, UserStep
    <2>. QED BY <2>1, TypeStep DEF StreakInv
  <1>2. UNCHANGED <<crashFiles, streak, run, previous, ends>> /\ (phase = "down" <=> phase' = "down")
    BY DEF RestoreOne, UserStep, PauseTorrent, ResumeTorrent, RemoveTorrent, AddTorrent,
       Running, Change, FinishRestore, SaveLoop, CanSave, Save, MarkStable, process,
       history, crashVars, stateDir
  <1>3. sentinel'.is = sentinel.is /\ sentinel'.start = sentinel.start /\ (phase = "down" => sentinel' = sentinel)
    <2>1. CASE MarkStable
      BY <1>1, <2>1 DEF MarkStable, CrashTypeOK, DiskTypeOK
    <2>2. CASE \/ \E t \in Torrents : RestoreOne(t) \/ UserStep(t)
               \/ FinishRestore \/ SaveLoop \/ UNCHANGED crashVars
      BY <2>2 DEF RestoreOne, UserStep, PauseTorrent, ResumeTorrent, RemoveTorrent,
         AddTorrent, Change, FinishRestore, SaveLoop, crashVars, stateDir
    <2>. QED BY <2>1, <2>2
  <1>4. SentinelIsOfRun'
    BY <1>2, <1>3 DEF StreakInv, SentinelIsOfRun, Alive
  <1>5. EndIsRead'
    BY <1>2, <1>3 DEF StreakInv, EndIsRead, NamedNow, Alive
  <1>6. StreakCounts'
    BY <1>2 DEF StreakInv, StreakCounts, Unexplained, Alive
  <1>. QED BY <1>1, <1>4, <1>5, <1>6 DEF StreakInv

\* Every end leaves on the disk what tells the next start which end it was.
LEMMA EndStreak == StreakInv /\ EndStep => StreakInv'
  <1>. SUFFICES ASSUME StreakInv, EndStep PROVE StreakInv'
    OBVIOUS
  <1>1. CrashTypeOK /\ CrashTypeOK'
    BY EndTyped DEF StreakInv
  <1>2. /\ Alive /\ phase' = "down" /\ ~Alive' /\ UNCHANGED <<run, streak>> /\ run \in Nat /\ streak \in Nat
        /\ sentinel.is = "written" /\ sentinel.start = run
        /\ \A c \in crashFiles : c.run \in Nat /\ c.run < run
        /\ ends \in Seq(How)
    BY <1>1, EndFrame DEF Alive, StreakInv, SentinelIsOfRun, CrashTypeOK, ProcessTypeOK,
       DiskTypeOK, HistoryTypeOK, How
  <1>3. NamedNow = {}
    BY <1>2 DEF NamedNow
  <1>4. PICK how \in How : ends' = <<how>> \o ends
    BY EndFrame
  <1>5. /\ ends' # <<>> /\ ends'[1] = how
        /\ 2 \in DOMAIN ends' <=> 1 \in DOMAIN ends
        /\ 1 \in DOMAIN ends => ends'[2] = ends[1]
    BY <1>2, <1>4, EndFacts
  <1>6. StreakCounts'
    BY <1>2, <1>5 DEF StreakInv, StreakCounts, Unexplained
  <1>7. SentinelIsOfRun' /\ EndIsRead'
    <2>1. CASE \E t \in Torrents : SessionCrash(t)
      <3>1. PICK t \in Torrents : SessionCrash(t)
        BY <2>1
      <3>2. PICK c \in {"restore", "session"} :
              crashFiles' = crashFiles \cup {[run |-> run, torrent |-> t, component |-> c]}
        BY <3>1 DEF SessionCrash
      <3>3. sentinel' = sentinel /\ ends'[1] = "blamed"
        BY <1>2, <3>1, EndFacts DEF SessionCrash, Ends, How
      <3>4. SentinelIsOfRun'
        BY <1>2, <3>2, <3>3 DEF SentinelIsOfRun
      <3>5. [run |-> run, torrent |-> t, component |-> c] \in NamedNow'
        BY <1>2, <3>2 DEF NamedNow
      <3>. QED BY <1>2, <1>5, <3>3, <3>4, <3>5 DEF EndIsRead
    <2>2. CASE Dies
      <3>1. /\ sentinel' = sentinel /\ crashFiles' = crashFiles
            /\ ends'[1] = IF sentinel.stable THEN "stable" ELSE "early"
        BY <1>2, <2>2, EndFacts DEF Dies, Ends, How
      <3>2. NamedNow' = {}
        BY <1>2, <1>3, <3>1 DEF NamedNow
      <3>. QED BY <1>2, <1>5, <3>1, <3>2 DEF EndIsRead, SentinelIsOfRun
    <2>3. CASE PowerFails
      <3>1. /\ sentinel' \in {NoSentinel, Torn, sentinel} /\ crashFiles' = crashFiles
            /\ ends'[1] = "power"
        BY <1>2, <2>3, EndFacts DEF PowerFails, Ends, How
      <3>2. sentinel'.is = "written" => sentinel'.start = run
        BY <1>2, <3>1 DEF NoSentinel, Torn, Sentinel
      <3>. QED BY <1>2, <1>5, <3>1, <3>2 DEF EndIsRead, SentinelIsOfRun
    <2>4. CASE \E u \in BOOLEAN : CloseRun(u)
      <3>1. PICK u \in BOOLEAN : CloseRun(u)
        BY <2>4
      <3>2. /\ sentinel' = IF u THEN sentinel ELSE NoSentinel
            /\ crashFiles' = IF u THEN crashFiles \cup {[run |-> run, torrent |-> "unattributed", component |-> "session"]}
                             ELSE crashFiles
            /\ ends' = <<IF ~u THEN "clean" ELSE IF sentinel.stable THEN "stable" ELSE "early">> \o ends
        BY <3>1 DEF CloseRun
      <3>3. ends'[1] = IF ~u THEN "clean" ELSE IF sentinel.stable THEN "stable" ELSE "early"
        BY <1>2, <3>2, EndFacts DEF How
      <3>4. NamedNow' = {}
        BY <1>2, <1>3, <3>2, CrashAssumption DEF NamedNow
      <3>5. SentinelIsOfRun'
        BY <1>2, <3>2 DEF SentinelIsOfRun, NoSentinel, Sentinel
      <3>. QED BY <1>2, <1>5, <3>2, <3>3, <3>4, <3>5 DEF EndIsRead, NoSentinel, Sentinel
    <2>. QED BY <2>1, <2>2, <2>3, <2>4 DEF EndStep
  <1>. QED BY <1>1, <1>6, <1>7 DEF StreakInv

\* Every step keeps the streak to the ends.
LEMMA StreakStep == StreakInv /\ [CrashNext]_crashVars => StreakInv'
  <1>1. [CrashNext]_crashVars =>
          \/ \E flag \in BOOLEAN : StartRun(flag)
          \/ \E t \in Torrents : RestoreOne(t) \/ UserStep(t)
          \/ FinishRestore \/ SaveLoop \/ MarkStable \/ EndStep \/ UNCHANGED crashVars
    BY StepKinds
  <1>. QED BY <1>1, StartStreak, RunStreak, EndStreak

\* A start pauses everything after two such ends in a row, and only then.
LEMMA StreakImplies == StreakInv => PausedAfterTwo
  <1>. SUFFICES ASSUME StreakInv, Alive PROVE
         /\ Len(ends) >= 2 /\ ends[1] = "early" /\ ends[2] = "early" => previous.pauseAll
         /\ previous.pauseAll => Len(ends) >= 2 /\ \A i \in {1, 2} : ends[i] \in {"early", "power"}
    BY DEF PausedAfterTwo, Alive
  <1>1. ends \in Seq(How) /\ DOMAIN ends = 1 .. Len(ends) /\ Len(ends) \in Nat /\ streak \in Nat
    BY DEF StreakInv, CrashTypeOK, HistoryTypeOK, DiskTypeOK, How
  <1>2. Len(ends) >= 2 => {1, 2} \subseteq DOMAIN ends
    BY <1>1
  <1>3. 2 \in DOMAIN ends => Len(ends) >= 2
    BY <1>1
  <1>. QED BY <1>1, <1>2, <1>3 DEF StreakInv, StreakCounts, Unexplained

----------------------------------------------------------------------------
(* Theorems                                                                *)

\* Before the first run nothing has happened, and every torrent is listed as
\* running.
LEMMA CrashInitInv == CrashInit => SavesInv /\ BlameInv /\ StreakInv
  <1>. SUFFICES ASSUME CrashInit PROVE SavesInv /\ BlameInv /\ StreakInv
    OBVIOUS
  <1>1. /\ DOMAIN saved = Torrents
        /\ \A t \in Torrents : saved[t] = Entry(FALSE, FALSE, "") /\ savedIntent[t] = "running"
    BY DEF CrashInit
  <1>2. CrashTypeOK
    <2>1. DiskTypeOK
      <3>0. Entry(FALSE, FALSE, "") \in EntryType
        BY DEF Entry, EntryType
      <3>1. Maps(saved, EntryType)
        BY <1>1, <3>0 DEF Maps
      <3>2. sentinel \in [is : {"none", "unreadable", "written"}, start : Nat, stable : BOOLEAN]
        BY DEF CrashInit, NoSentinel, Sentinel
      <3>. QED BY <3>1, <3>2 DEF CrashInit, DiskTypeOK
    <2>2. ProcessTypeOK
      BY NothingFacts DEF CrashInit, ProcessTypeOK
    <2>3. HistoryTypeOK
      <3>1. intent \in [Torrents -> Wish] /\ savedIntent \in [Torrents -> Wish]
        BY DEF CrashInit, Wish
      <3>2. ends \in Seq({"clean", "early", "stable", "blamed", "power"})
        <4>1. ends = <<>>
          BY DEF CrashInit
        <4>. QED BY <4>1
      <3>. QED BY <3>1, <3>2 DEF CrashInit, HistoryTypeOK
    <2>. QED BY <2>1, <2>2, <2>3 DEF CrashTypeOK
  <1>3. SavedMatches /\ RestoreMatches /\ RunMatches
    <2>1. DOMAIN saved = {t \in Torrents : savedIntent[t] # "absent"}
      BY <1>1
    <2>2. \A t \in DOMAIN saved : Faithful(saved[t], savedIntent[t])
      <3>1. ~Entry(FALSE, FALSE, "").paused
        BY DEF Entry
      <3>. QED BY <1>1, <3>1 DEF Faithful
    <2>3. phase = "down"
      BY DEF CrashInit
    <2>. QED BY <2>1, <2>2, <2>3 DEF SavedMatches, RestoreMatches, RunMatches, Matches
  <1>4. SentinelIsOfRun /\ BlameIsReported /\ BlameIsKnown /\ CrashIsContained
    BY DEF CrashInit, NoSentinel, Sentinel, SentinelIsOfRun, BlameIsReported, BlameIsKnown,
           CrashIsContained, Alive
  <1>5. EndIsRead /\ StreakCounts
    <2>1. ends = <<>> /\ phase = "down" /\ streak = 0
      BY DEF CrashInit
    <2>2. sentinel.is = "none"
      BY DEF CrashInit, NoSentinel, Sentinel
    <2>. QED BY <2>1, <2>2 DEF EndIsRead, StreakCounts, Alive
  <1>. QED BY <1>2, <1>3, <1>4, <1>5 DEF SavesInv, BlameInv, StreakInv

\* Through crashes, power losses and restores that fail, session.json lists the
\* user's torrents as the user left them, and loses one only when the user removed it.
THEOREM SavesAreFaithful == CrashSpec => NothingForgotten
  <1>1. CrashInit => SavesInv
    BY CrashInitInv
  <1>2. SavesInv /\ [CrashNext]_crashVars => SavesInv'
    BY SavesStep
  <1>3. SavesInv => IntentIsSaved
    BY SavesImply
  <1>4. SavesInv /\ [CrashNext]_crashVars =>
          [\A t \in DOMAIN saved \ DOMAIN saved' : intent[t] = "absent"]_crashVars
    BY SavedStep
  <1>. QED BY <1>1, <1>2, <1>3, <1>4, PTL DEF CrashSpec, NothingForgotten

\* The start after a crash quarantines the torrent it is blamed on, and two early
\* ends that nothing explains pause every torrent, never fewer.
THEOREM CrashContained == CrashSpec => []CrashesAreContained
  <1>1. CrashInit => BlameInv /\ StreakInv
    BY CrashInitInv
  <1>2. BlameInv /\ StreakInv /\ [CrashNext]_crashVars => (BlameInv /\ StreakInv)'
    BY BlameStep, StreakStep
  <1>3. BlameInv /\ StreakInv => CrashesAreContained
    BY StreakImplies DEF BlameInv, CrashesAreContained
  <1>. QED BY <1>1, <1>2, <1>3, PTL DEF CrashSpec

-----------------------------------------------------------------------------
(***************************************************************************)
(* Theorems about ResumeCheckpoint, for any files, pieces and stamps: what *)
(* a start restores without hashing is right on disk, whatever crashed,    *)
(* lost power, failed or was changed by another program before; and what a *)
(* session makes is recorded, so that a start need not hash it again.      *)
(***************************************************************************)

----------------------------------------------------------------------------
(* Typing                                                                  *)

Ids == [Files -> Nat]
FileType == [stamp : Nat, parts : SUBSET Pieces, syncedStamp : Nat, syncedParts : SUBSET Pieces]
DirtyType == [Files -> SUBSET {"meta", "sync"}]
StateType == [is : BOOLEAN, ids : Ids, verified : SUBSET Pieces, completed : SUBSET Pieces]

PayloadTypeOK ==
    /\ disk \in [Files -> FileType] /\ clock \in Nat
    /\ edited \subseteq Files /\ written \subseteq Files /\ excused \subseteq Pieces
    /\ stateFile \in StateType /\ syncedState \in StateType
    /\ plan \in Plans

SessionTypeOK ==
    /\ power \in {"up", "down"}
    /\ held \subseteq Pieces /\ unverified \subseteq Pieces /\ toHash \subseteq Pieces
    /\ jobs \in [Pieces -> SUBSET Files] /\ finishing \subseteq Pieces
    /\ paused \in BOOLEAN /\ closing \in BOOLEAN /\ stateDirty \in BOOLEAN

StorageTypeOK ==
    /\ unmarked \subseteq Pieces \X Files
    /\ dirty \in DirtyType /\ trusted \in Ids
    /\ checkpoint \in [valid : BOOLEAN, complete : BOOLEAN, ids : Ids,
                       verified : SUBSET Pieces, completed : SUBSET Pieces]
    /\ mapped \subseteq Files /\ mappedDirty \subseteq Files /\ unstamped \subseteq Files
    /\ flush \in [stage : {"idle", "settle", "swap", "sweep", "hint"}, durable : BOOLEAN,
                  verified : SUBSET Pieces, completed : SUBSET Pieces,
                  taken : DirtyType, at : Nat \ {0}, before : Nat, ids : Ids]

ResumeTypeOK == PayloadTypeOK /\ SessionTypeOK /\ StorageTypeOK

----------------------------------------------------------------------------
(* What a state file vouches for                                           *)

\* On the disk d, where the file still has the stamp recorded for it, a piece
\* recorded as verified is there, and a power loss leaves it there; save the
\* pieces in `but`.
Vouches(d, but, ids, verified) ==
    \A f \in Files, p \in verified \ but :
        f \in Overlaps[p] /\ ids[f] # 0 =>
            /\ d[f].stamp = ids[f] => p \in d[f].parts /\ p \in d[f].syncedParts
            /\ d[f].syncedStamp = ids[f] => p \in d[f].syncedParts

RecordsAreTrue ==
    /\ Vouches(disk, excused, stateFile.ids, stateFile.verified)
    /\ Vouches(disk, excused, syncedState.ids, syncedState.verified)
    /\ Vouches(disk, excused, checkpoint.ids, checkpoint.verified)
    /\ Vouches(disk, excused, flush.ids, flush.verified)

\* No stamp is from the future, so the next is new.
Past(ids) == \A f \in Files : ids[f] <= clock
StampsArePast ==
    /\ \A f \in Files : disk[f].stamp <= clock /\ disk[f].syncedStamp <= clock
    /\ Past(stateFile.ids) /\ Past(syncedState.ids) /\ Past(checkpoint.ids) /\ Past(flush.ids)
    /\ Past(trusted) /\ flush.before <= clock

\* Nothing is left of a process that ended.
DownIsClear ==
    ~Up => /\ held = {} /\ finishing = {} /\ unmarked = {} /\ mapped = {} /\ mappedDirty = {}
           /\ edited = {} /\ written = {} /\ flush = Idle
           /\ \A p \in Pieces : jobs[p] = {}
           /\ \A f \in Files : dirty[f] = {}

\* A piece is being written, finished or held, and a write is marked before its
\* file is done.
WritesAreNew ==
    /\ \A p \in held \cup finishing : jobs[p] = {}
    /\ \A p \in Pieces : jobs[p] \subseteq Overlaps[p]
    /\ \A p \in Pieces, f \in Files : <<p, f>> \in unmarked => f \in jobs[p]
    /\ mappedDirty \subseteq mapped
    /\ IF plan.mmap THEN unmarked = {} ELSE mapped = {}

\* The program claims to have piece p in file f.
Claims(p, f) ==
    /\ f \in Overlaps[p]
    /\ p \in held \cup finishing \/ (jobs[p] # {} /\ f \notin jobs[p]) \/ <<p, f>> \in unmarked

\* What is claimed is there, unless another program changed the file; then this
\* run has not written it, and its stamp gives the change away.
ClaimsAreTrue ==
    /\ \A f \in Files, p \in Pieces \ excused :
         Claims(p, f) => p \in disk[f].parts \/ f \in edited \ written
    /\ \A f \in edited \ written : trusted[f] # disk[f].stamp
    /\ \A f \in Files :
         f \notin written =>
            /\ dirty[f] = {} /\ flush.taken[f] = {} /\ f \notin mappedDirty
            /\ \A p \in Pieces : <<p, f>> \notin unmarked
            /\ flush.ids[f] # 0 => flush.ids[f] = trusted[f]

\* Files the sweep has still to sync, or could not.
Unswept(f) == "sync" \in flush.taken[f] /\ (f >= flush.at \/ flush.ids[f] = 0)

\* What a power loss would take is being written, or its file is due to be synced.
Unsynced(f) == disk[f].parts \ disk[f].syncedParts
SyncsAreOwed ==
    Up => \A f \in Files : \A p \in Unsynced(f) :
            /\ p \in held \cup finishing \/ jobs[p] # {}
            /\ f \in Overlaps[p] /\ (p \in held \cup finishing \/ f \notin jobs[p]) =>
                 "sync" \in dirty[f] \/ f \in mappedDirty \/ (flush.stage = "sweep" /\ Unswept(f))

\* ... by the flush under way, if it is to record the piece.
FlushSyncs ==
    /\ flush.stage # "idle" => flush.verified \subseteq held
    /\ flush.stage = "settle" => plan.mmap
    /\ flush.stage # "sweep" => flush.at = 1 /\ flush.before = 0
    /\ \A f \in Files : /\ flush.stage # "sweep" => flush.taken[f] = {} /\ flush.ids[f] = 0
                        /\ flush.ids[f] # 0 => f < flush.at
    /\ \A f \in Files : \A p \in flush.verified \cap Unsynced(f) :
         f \in Overlaps[p] =>
            /\ flush.stage = "swap" => "sync" \in dirty[f]
            /\ flush.stage = "sweep" => Unswept(f)

CheckpointInv ==
    /\ ResumeTypeOK /\ StampsArePast /\ DownIsClear /\ RecordsAreTrue
    /\ WritesAreNew /\ ClaimsAreTrue /\ SyncsAreOwed /\ FlushSyncs

----------------------------------------------------------------------------
(* The disk                                                                *)

\* The assumption on the constants, in the forms the proofs use.
LEMMA Constants ==
    /\ Files \subseteq Nat \ {0} /\ \A p \in Pieces : Overlaps[p] \subseteq Files
    /\ \A f \in Files : f <= NumFiles
    /\ Plans \subseteq [mmap : BOOLEAN, wanted : SUBSET Pieces, clock : Nat]
  BY ResumeAssumption DEF Files

\* Nothing but the stamps of the files in S moves, to a new one.
LEMMA StampedFacts ==
    ASSUME ResumeTypeOK, NEW S
    PROVE  /\ Stamped(S, disk) \in [Files -> FileType]
           /\ \A f \in Files :
                /\ Stamped(S, disk)[f].stamp = IF f \in S THEN clock + 1 ELSE disk[f].stamp
                /\ Stamped(S, disk)[f].parts = disk[f].parts
                /\ Stamped(S, disk)[f].syncedStamp = disk[f].syncedStamp
                /\ Stamped(S, disk)[f].syncedParts = disk[f].syncedParts
  <1>1. disk \in [Files -> FileType] /\ clock \in Nat
    BY DEF ResumeTypeOK, PayloadTypeOK
  <1>2. ASSUME NEW f \in Files PROVE [disk[f] EXCEPT !.stamp = clock + 1] \in FileType
    BY <1>1 DEF FileType
  <1>3. Stamped(S, disk) \in [Files -> FileType]
    BY <1>1, <1>2 DEF Stamped
  <1>. QED BY <1>1, <1>3 DEF Stamped, FileType

\* What may become of a file: parts are added, its stamp moves, it is synced, and
\* a power loss takes it back to its last sync, or takes what was written since.
Evolves(d, e, now) ==
    \A f \in Files :
        \/ e[f].stamp = d[f].stamp /\ e[f].syncedStamp = d[f].syncedStamp
           /\ d[f].parts \subseteq e[f].parts /\ e[f].syncedParts = d[f].syncedParts
        \/ e[f].stamp > now /\ e[f].syncedStamp = d[f].syncedStamp
           /\ e[f].syncedParts = d[f].syncedParts
        \/ e[f].stamp = d[f].stamp /\ e[f].syncedStamp = d[f].stamp
           /\ e[f].parts = d[f].parts /\ e[f].syncedParts = d[f].parts
        \/ e[f].stamp = d[f].syncedStamp /\ e[f].syncedStamp = d[f].syncedStamp
           /\ e[f].parts = d[f].syncedParts /\ e[f].syncedParts = d[f].syncedParts
        \/ e[f].stamp = d[f].stamp /\ e[f].syncedStamp = d[f].stamp
           /\ e[f].parts = d[f].parts \cap d[f].syncedParts
           /\ e[f].syncedParts = d[f].parts \cap d[f].syncedParts

\* A record stays true through all of that.
LEMMA VouchesKept ==
    ASSUME NEW d, NEW e, NEW now \in Nat, NEW but, NEW more, NEW ids \in Ids, NEW verified,
           e \in [Files -> FileType], Vouches(d, but, ids, verified), Evolves(d, e, now),
           but \subseteq more, \A f \in Files : ids[f] <= now
    PROVE  Vouches(e, more, ids, verified)
  <1>. SUFFICES ASSUME NEW f \in Files, NEW p \in verified \ more, f \in Overlaps[p], ids[f] # 0
                PROVE  /\ e[f].stamp = ids[f] => p \in e[f].parts /\ p \in e[f].syncedParts
                       /\ e[f].syncedStamp = ids[f] => p \in e[f].syncedParts
    BY DEF Vouches
  <1>1. /\ d[f].stamp = ids[f] => p \in d[f].parts /\ p \in d[f].syncedParts
        /\ d[f].syncedStamp = ids[f] => p \in d[f].syncedParts
    BY DEF Vouches
  <1>2. ids[f] \in Nat /\ e[f].stamp \in Nat /\ ids[f] <= now
    BY DEF Ids, FileType
  <1>3. e[f].stamp > now => e[f].stamp # ids[f]
    BY <1>2
  <1>. QED BY <1>1, <1>3 DEF Evolves

\* A record of nothing vouches for nothing.
LEMMA NothingVouched ==
    ASSUME NEW d, NEW but, NEW ids, NEW verified, \A f \in Files : ids[f] = 0
    PROVE  Vouches(d, but, ids, verified)
  BY DEF Vouches

\* Dropping stamps or pieces from a record leaves it true.
LEMMA VouchesLess ==
    ASSUME NEW d, NEW but, NEW ids, NEW verified, NEW ids2, NEW verified2,
           Vouches(d, but, ids, verified), verified2 \subseteq verified,
           \A f \in Files : ids2[f] \in {0, ids[f]}
    PROVE  Vouches(d, but, ids2, verified2)
  BY DEF Vouches

\* A piece found on disk, with nothing of it unsynced, need not be excused.
LEMMA VouchesForgiven ==
    ASSUME NEW d, NEW but, NEW ids, NEW verified, NEW p, Vouches(d, but, ids, verified),
           \A f \in Overlaps[p] : p \in d[f].parts /\ p \in d[f].syncedParts
    PROVE  Vouches(d, but \ {p}, ids, verified)
  BY DEF Vouches

\* The four records, for the frames.
RecordsTyped == stateFile.ids \in Ids /\ syncedState.ids \in Ids /\ checkpoint.ids \in Ids /\ flush.ids \in Ids

\* The types of what the records hold.
LEMMA RecordTypes == ResumeTypeOK => RecordsTyped /\ trusted \in Ids /\ flush.before \in Nat /\ clock \in Nat
  BY DEF ResumeTypeOK, PayloadTypeOK, StorageTypeOK, StateType, RecordsTyped

\* A step that lets files evolve, excuses more and leaves the records alone, or
\* drops them, keeps them true and their stamps past.
LEMMA RecordsKept ==
    ASSUME ResumeTypeOK, ResumeTypeOK', RecordsAreTrue, StampsArePast, Evolves(disk, disk', clock),
           excused \subseteq excused',
           stateFile'.ids = stateFile.ids /\ stateFile'.verified = stateFile.verified,
           syncedState'.ids = syncedState.ids /\ syncedState'.verified = syncedState.verified,
           \/ checkpoint'.ids = checkpoint.ids /\ checkpoint'.verified = checkpoint.verified
           \/ \A f \in Files : checkpoint'.ids[f] = 0,
           \/ flush'.ids = flush.ids /\ flush'.verified = flush.verified
           \/ \A f \in Files : flush'.ids[f] = 0
    PROVE  RecordsAreTrue'
  <1>1. clock \in Nat /\ disk' \in [Files -> FileType] /\ RecordsTyped
    BY RecordTypes DEF ResumeTypeOK, PayloadTypeOK
  <1>2. /\ Vouches(disk', excused', stateFile.ids, stateFile.verified)
        /\ Vouches(disk', excused', syncedState.ids, syncedState.verified)
        /\ Vouches(disk', excused', checkpoint.ids, checkpoint.verified)
        /\ Vouches(disk', excused', flush.ids, flush.verified)
    BY <1>1, VouchesKept DEF RecordsAreTrue, StampsArePast, Past, RecordsTyped
  <1>3. Vouches(disk', excused', checkpoint'.ids, checkpoint'.verified)
    BY <1>2, NothingVouched
  <1>4. Vouches(disk', excused', flush'.ids, flush'.verified)
    BY <1>2, NothingVouched
  <1>. QED BY <1>2, <1>3, <1>4 DEF RecordsAreTrue

\* Nothing changes in a file.
LEMMA EvolvesNothing == \A d, now : Evolves(d, d, now)
  BY DEF Evolves

\* A step that changes no file, record or stamp.
LEMMA RecordsFrame ==
    ASSUME RecordsAreTrue, StampsArePast,
           UNCHANGED <<disk, clock, excused, stateFile, syncedState, checkpoint, flush, trusted>>
    PROVE  RecordsAreTrue' /\ StampsArePast'
  BY DEF RecordsAreTrue, StampsArePast, Past

\* Time moves on, and files take stamps of it.
LEMMA StampsKept ==
    ASSUME ResumeTypeOK, ResumeTypeOK', StampsArePast, clock' >= clock,
           \A f \in Files : /\ disk'[f].stamp <= clock \/ disk'[f].stamp <= clock'
                            /\ disk'[f].syncedStamp <= clock \/ disk'[f].syncedStamp <= clock',
           UNCHANGED <<stateFile, syncedState, checkpoint, trusted, flush>>
    PROVE  StampsArePast'
  <1>1. \A a, b, c \in Nat : a <= b /\ c >= b => a <= c
    OBVIOUS
  <1>2. clock \in Nat /\ clock' \in Nat /\ RecordsTyped /\ trusted \in Ids /\ flush.before \in Nat
        /\ disk' \in [Files -> FileType]
    BY RecordTypes DEF ResumeTypeOK, PayloadTypeOK
  <1>3. \A ids \in Ids : Past(ids) => \A f \in Files : ids[f] <= clock'
    BY <1>1, <1>2 DEF Past, Ids
  <1>4. \A f \in Files : disk'[f].stamp <= clock' /\ disk'[f].syncedStamp <= clock'
    BY <1>1, <1>2 DEF FileType
  <1>5. flush.before <= clock'
    BY <1>1, <1>2 DEF StampsArePast
  <1>. QED BY <1>2, <1>3, <1>4, <1>5 DEF StampsArePast, Past, RecordsTyped

\* The next stamp is none of those trusted.
LEMMA NextIsNew ==
    ResumeTypeOK /\ StampsArePast =>
        /\ clock + 1 \in Nat /\ clock + 1 > clock /\ clock \in Nat
        /\ \A f \in Files : trusted[f] # clock + 1
  <1>. SUFFICES ASSUME ResumeTypeOK, StampsArePast
                PROVE  /\ clock + 1 \in Nat /\ clock + 1 > clock /\ clock \in Nat
                       /\ \A f \in Files : trusted[f] # clock + 1
    OBVIOUS
  <1>1. clock \in Nat /\ \A f \in Files : trusted[f] \in Nat /\ trusted[f] <= clock
    BY RecordTypes DEF StampsArePast, Past, Ids
  <1>. QED BY <1>1

----------------------------------------------------------------------------
(* Steps in memory                                                         *)

\* A step that changes none of what the invariant speaks of.
LEMMA PlainFrame ==
    ASSUME CheckpointInv, ResumeTypeOK',
           UNCHANGED <<disk, clock, edited, written, excused, stateFile, syncedState, plan, power>>,
           UNCHANGED <<held, jobs, finishing, unmarked, dirty, trusted, checkpoint, mapped, mappedDirty, flush>>
    PROVE  CheckpointInv'
  <1>1. RecordsAreTrue' /\ StampsArePast'
    BY RecordsFrame DEF CheckpointInv
  <1>2. DownIsClear'
    BY DEF CheckpointInv, DownIsClear, Up
  <1>3. WritesAreNew'
    BY DEF CheckpointInv, WritesAreNew
  <1>4. ClaimsAreTrue'
    BY DEF CheckpointInv, ClaimsAreTrue, Claims
  <1>5. SyncsAreOwed'
    BY DEF CheckpointInv, SyncsAreOwed, Up, Unsynced, Unswept
  <1>6. FlushSyncs'
    BY DEF CheckpointInv, FlushSyncs, Unsynced, Unswept
  <1>. QED BY <1>1, <1>2, <1>3, <1>4, <1>5, <1>6 DEF CheckpointInv

\* The user pauses, resumes or closes the session.
LEMMA UserInv == CheckpointInv /\ (SetPaused \/ BeginClose) => CheckpointInv'
  <1>. SUFFICES ASSUME CheckpointInv, SetPaused \/ BeginClose PROVE CheckpointInv'
    OBVIOUS
  <1>1. UNCHANGED <<payload, stateFiles, power, held, unverified, toHash, jobs, finishing, storage, flush, bounds>>
    BY DEF SetPaused, BeginClose
  <1>2. paused' \in BOOLEAN /\ closing' \in BOOLEAN /\ stateDirty' \in BOOLEAN
    BY DEF SetPaused, BeginClose, CheckpointInv, ResumeTypeOK, SessionTypeOK
  <1>3. ResumeTypeOK'
    BY <1>1, <1>2 DEF payload, stateFiles, storage, bounds, CheckpointInv, ResumeTypeOK,
       PayloadTypeOK, SessionTypeOK, StorageTypeOK
  <1>. QED BY <1>1, <1>3, PlainFrame DEF payload, stateFiles, storage, bounds

\* A piece nobody has is queued for its write.
LEMMA QueueWriteInv == CheckpointInv /\ (\E p \in Pieces : QueueWrite(p)) => CheckpointInv'
  <1>. SUFFICES ASSUME CheckpointInv, NEW p \in Pieces, QueueWrite(p) PROVE CheckpointInv'
    OBVIOUS
  <1>0. /\ UNCHANGED <<disk, clock, edited, written, excused, stateFile, syncedState, plan, power, held>>
        /\ UNCHANGED <<finishing, unmarked, dirty, trusted, checkpoint, mapped, mappedDirty, flush>>
        /\ Up /\ p \notin held \cup finishing /\ jobs[p] = {}
    BY DEF QueueWrite, payload, stateFiles, storage, bounds
  <1>1. ResumeTypeOK'
    <2>1. jobs' \in [Pieces -> SUBSET Files]
      BY Constants DEF QueueWrite, CheckpointInv, ResumeTypeOK, SessionTypeOK
    <2>. QED BY <2>1 DEF QueueWrite, payload, stateFiles, storage, bounds,
                CheckpointInv, ResumeTypeOK, PayloadTypeOK, SessionTypeOK, StorageTypeOK
  <1>2. jobs'[p] = Overlaps[p] /\ \A q \in Pieces : q # p => jobs'[q] = jobs[q]
    BY DEF QueueWrite, CheckpointInv, ResumeTypeOK, SessionTypeOK
  <1>3. RecordsAreTrue' /\ StampsArePast'
    BY <1>0, RecordsFrame DEF CheckpointInv
  <1>4. DownIsClear'
    BY <1>0 DEF DownIsClear, Up
  <1>5. WritesAreNew'
    <2>1. \A q \in Pieces : jobs'[q] \subseteq Overlaps[q]
      BY <1>2 DEF CheckpointInv, WritesAreNew
    <2>2. \A q \in held \cup finishing : q \in Pieces /\ q # p
      BY <1>0 DEF CheckpointInv, ResumeTypeOK, SessionTypeOK
    <2>3. \A q \in held \cup finishing : jobs'[q] = {}
      BY <1>2, <2>2 DEF CheckpointInv, WritesAreNew
    <2>4. \A q \in Pieces, f \in Files : <<q, f>> \in unmarked => f \in jobs'[q]
      BY <1>0, <1>2 DEF CheckpointInv, WritesAreNew
    <2>. QED BY <1>0, <2>1, <2>3, <2>4 DEF CheckpointInv, WritesAreNew
  <1>6. ClaimsAreTrue'
    <2>1. \A f \in Files, q \in Pieces : Claims(q, f)' => Claims(q, f)
      BY <1>0, <1>2 DEF Claims
    <2>. QED BY <1>0, <2>1 DEF CheckpointInv, ClaimsAreTrue
  <1>7. SyncsAreOwed'
    <2>. SUFFICES ASSUME NEW f \in Files, NEW q \in Unsynced(f)'
                  PROVE  /\ q \in held \cup finishing \/ jobs'[q] # {}
                         /\ f \in Overlaps[q] /\ (q \in held \cup finishing \/ f \notin jobs'[q]) =>
                              \/ "sync" \in dirty[f] \/ f \in mappedDirty
                              \/ flush.stage = "sweep" /\ Unswept(f)
      BY <1>0 DEF SyncsAreOwed, Unswept
    <2>1. q \in Unsynced(f) /\ q \in Pieces
      BY <1>0 DEF Unsynced, CheckpointInv, ResumeTypeOK, PayloadTypeOK, FileType
    <2>2. q # p
      BY <1>0, <2>1 DEF CheckpointInv, SyncsAreOwed
    <2>. QED BY <1>0, <1>2, <2>1, <2>2 DEF CheckpointInv, SyncsAreOwed
  <1>8. FlushSyncs'
    BY <1>0 DEF CheckpointInv, FlushSyncs, Unsynced, Unswept
  <1>. QED BY <1>1, <1>3, <1>4, <1>5, <1>6, <1>7, <1>8 DEF CheckpointInv

\* A read maps a file.
LEMMA ReadMappedInv == CheckpointInv /\ (\E f \in Files : ReadMapped(f)) => CheckpointInv'
  <1>. SUFFICES ASSUME CheckpointInv, NEW f \in Files, ReadMapped(f) PROVE CheckpointInv'
    OBVIOUS
  <1>0. /\ UNCHANGED <<disk, clock, edited, written, excused, stateFile, syncedState, plan, power, held>>
        /\ UNCHANGED <<jobs, finishing, unmarked, dirty, trusted, checkpoint, mappedDirty, flush>>
        /\ Up /\ plan.mmap /\ mapped' = mapped \cup {f}
    BY DEF ReadMapped, payload, stateFiles, session, bounds
  <1>1. ResumeTypeOK'
    BY <1>0 DEF ReadMapped, session, CheckpointInv, ResumeTypeOK, PayloadTypeOK,
       SessionTypeOK, StorageTypeOK
  <1>2. RecordsAreTrue' /\ StampsArePast'
    BY <1>0, RecordsFrame DEF CheckpointInv
  <1>3. DownIsClear'
    BY <1>0 DEF DownIsClear, Up
  <1>4. WritesAreNew'
    BY <1>0 DEF CheckpointInv, WritesAreNew
  <1>5. ClaimsAreTrue'
    BY <1>0 DEF CheckpointInv, ClaimsAreTrue, Claims
  <1>6. SyncsAreOwed'
    BY <1>0 DEF CheckpointInv, SyncsAreOwed, Up, Unsynced, Unswept
  <1>7. FlushSyncs'
    BY <1>0 DEF CheckpointInv, FlushSyncs, Unsynced, Unswept
  <1>. QED BY <1>1, <1>2, <1>3, <1>4, <1>5, <1>6, <1>7 DEF CheckpointInv

\* A written piece becomes a held one.
LEMMA FinishPieceInv == CheckpointInv /\ (\E p \in Pieces : FinishPiece(p)) => CheckpointInv'
  <1>. SUFFICES ASSUME CheckpointInv, NEW p \in Pieces, FinishPiece(p) PROVE CheckpointInv'
    OBVIOUS
  <1>0. /\ UNCHANGED <<disk, clock, edited, written, excused, stateFile, syncedState, plan, power>>
        /\ UNCHANGED <<jobs, unmarked, dirty, trusted, checkpoint, mapped, mappedDirty, flush>>
        /\ Up /\ p \in finishing /\ finishing' = finishing \ {p} /\ held' = held \cup {p}
        /\ held' \cup finishing' = held \cup finishing
    BY DEF FinishPiece, payload, stateFiles, storage, bounds
  <1>1. ResumeTypeOK'
    BY <1>0 DEF FinishPiece, storage, CheckpointInv, ResumeTypeOK, PayloadTypeOK,
       SessionTypeOK, StorageTypeOK
  <1>2. RecordsAreTrue' /\ StampsArePast'
    BY <1>0, RecordsFrame DEF CheckpointInv
  <1>3. DownIsClear'
    BY <1>0 DEF DownIsClear, Up
  <1>4. WritesAreNew'
    BY <1>0 DEF CheckpointInv, WritesAreNew
  <1>5. ClaimsAreTrue'
    BY <1>0 DEF CheckpointInv, ClaimsAreTrue, Claims
  <1>6. SyncsAreOwed'
    BY <1>0 DEF CheckpointInv, SyncsAreOwed, Up, Unsynced, Unswept
  <1>7. FlushSyncs'
    BY <1>0 DEF CheckpointInv, FlushSyncs, Unsynced, Unswept
  <1>. QED BY <1>1, <1>2, <1>3, <1>4, <1>5, <1>6, <1>7 DEF CheckpointInv

\* The hasher finds a piece, which then is on disk and synced, or does not.
LEMMA HashPieceInv == CheckpointInv /\ (\E p \in Pieces : HashPiece(p)) => CheckpointInv'
  <1>. SUFFICES ASSUME CheckpointInv, NEW p \in Pieces, HashPiece(p) PROVE CheckpointInv'
    OBVIOUS
  <1>0. /\ UNCHANGED <<disk, clock, edited, written, stateFile, syncedState, plan, power>>
        /\ UNCHANGED <<jobs, finishing, unmarked, dirty, trusted, checkpoint, mappedDirty, flush>>
        /\ Up /\ held' = (IF Found(p) THEN held \cup {p} ELSE held)
        /\ excused' = (IF p \in held \/ ~Found(p) THEN excused ELSE excused \ {p})
        /\ mapped' = (IF plan.mmap THEN mapped \cup Overlaps[p] ELSE mapped)
    BY DEF HashPiece, stateFiles, bounds
  <1>1. ResumeTypeOK'
    BY <1>0, Constants DEF HashPiece, CheckpointInv, ResumeTypeOK, PayloadTypeOK,
       SessionTypeOK, StorageTypeOK
  <1>2. DownIsClear'
    BY <1>0 DEF DownIsClear, Up
  <1>3. WritesAreNew'
    BY <1>0 DEF CheckpointInv, WritesAreNew, Found
  <1>4. StampsArePast'
    BY <1>0 DEF CheckpointInv, StampsArePast, Past
  <1>5. CASE Found(p) /\ p \notin held
    <2>0. held' = held \cup {p} /\ excused' = excused \ {p} /\ jobs[p] = {} /\ p \notin finishing
      BY <1>0, <1>5 DEF Found
    <2>1. \A f \in Overlaps[p] : f \in Files /\ p \in disk[f].parts
      BY <1>5, Constants DEF Found, OnDisk
    <2>2. \A f \in Files : p \notin Unsynced(f)
      BY <1>0, <1>5, <2>0 DEF CheckpointInv, SyncsAreOwed
    <2>3. \A f \in Overlaps[p] : p \in disk[f].parts /\ p \in disk[f].syncedParts
      BY <2>1, <2>2 DEF Unsynced
    <2>4. RecordsAreTrue'
      <3>1. /\ Vouches(disk, excused \ {p}, stateFile.ids, stateFile.verified)
            /\ Vouches(disk, excused \ {p}, syncedState.ids, syncedState.verified)
            /\ Vouches(disk, excused \ {p}, checkpoint.ids, checkpoint.verified)
            /\ Vouches(disk, excused \ {p}, flush.ids, flush.verified)
        BY <2>3, VouchesForgiven DEF CheckpointInv, RecordsAreTrue
      <3>. QED BY <1>0, <2>0, <3>1 DEF RecordsAreTrue
    <2>5. ClaimsAreTrue'
      <3>1. \A f \in Files, q \in Pieces : Claims(q, f)' => Claims(q, f) \/ (q = p /\ f \in Overlaps[p])
        BY <1>0, <2>0 DEF Claims
      <3>2. \A f \in Files, q \in Pieces \ (excused \ {p}) :
              Claims(q, f)' => q \in disk[f].parts \/ f \in edited \ written
        <4>. SUFFICES ASSUME NEW f \in Files, NEW q \in Pieces \ (excused \ {p}), Claims(q, f)'
                      PROVE  q \in disk[f].parts \/ f \in edited \ written
          OBVIOUS
        <4>1. CASE q = p /\ f \in Overlaps[p]
          BY <2>1, <4>1
        <4>2. CASE Claims(q, f) /\ q \notin excused
          BY <4>2 DEF CheckpointInv, ClaimsAreTrue
        <4>3. CASE Claims(q, f) /\ q = p
          BY <2>1, <4>3 DEF Claims
        <4>. QED BY <3>1, <4>1, <4>2, <4>3
      <3>. QED BY <1>0, <2>0, <3>2 DEF CheckpointInv, ClaimsAreTrue
    <2>6. SyncsAreOwed'
      <3>1. \A f \in Files : Unsynced(f)' = Unsynced(f) /\ Unswept(f)' = Unswept(f)
        BY <1>0 DEF Unsynced, Unswept
      <3>. QED BY <1>0, <2>0, <2>2, <3>1 DEF CheckpointInv, SyncsAreOwed, Up
    <2>7. FlushSyncs'
      BY <1>0, <2>0 DEF CheckpointInv, FlushSyncs, Unsynced, Unswept
    <2>. QED BY <1>1, <1>2, <1>3, <1>4, <2>4, <2>5, <2>6, <2>7 DEF CheckpointInv
  <1>6. CASE p \in held \/ ~Found(p)
    <2>0. held' = held /\ excused' = excused
      BY <1>0, <1>6
    <2>1. RecordsAreTrue'
      BY <1>0, <2>0, RecordsFrame DEF CheckpointInv
    <2>2. ClaimsAreTrue'
      BY <1>0, <2>0 DEF CheckpointInv, ClaimsAreTrue, Claims
    <2>3. SyncsAreOwed'
      BY <1>0, <2>0 DEF CheckpointInv, SyncsAreOwed, Up, Unsynced, Unswept
    <2>4. FlushSyncs'
      BY <1>0, <2>0 DEF CheckpointInv, FlushSyncs, Unsynced, Unswept
    <2>. QED BY <1>1, <1>2, <1>3, <1>4, <2>1, <2>2, <2>3, <2>4 DEF CheckpointInv
  <1>. QED BY <1>5, <1>6

----------------------------------------------------------------------------
(* Writes, and changes by others                                           *)

\* The disk, as the invariant sees it.
LEMMA DiskTypes ==
    ResumeTypeOK => /\ disk \in [Files -> FileType] /\ clock \in Nat /\ trusted \in Ids
                    /\ jobs \in [Pieces -> SUBSET Files] /\ dirty \in DirtyType
                    /\ \A f \in Files : disk[f].parts \subseteq Pieces
  BY DEF ResumeTypeOK, PayloadTypeOK, SessionTypeOK, StorageTypeOK, FileType

\* A file is written, and its stamp moves.
LEMMA WriteDisk ==
    ASSUME ResumeTypeOK, NEW p \in Pieces, NEW f \in Files,
           disk' = [Stamped({f}, disk) EXCEPT ![f].parts = @ \cup {p}]
    PROVE  /\ disk' \in [Files -> FileType]
           /\ disk'[f].stamp = clock + 1 /\ disk'[f].parts = disk[f].parts \cup {p}
           /\ \A g \in Files : /\ disk'[g].syncedStamp = disk[g].syncedStamp
                               /\ disk'[g].syncedParts = disk[g].syncedParts
                               /\ g # f => disk'[g].stamp = disk[g].stamp /\ disk'[g].parts = disk[g].parts
  <1>1. PICK d \in [Files -> FileType] : d = Stamped({f}, disk)
    BY StampedFacts
  <1>2. disk' = [d EXCEPT ![f] = [d[f] EXCEPT !.parts = d[f].parts \cup {p}]]
    BY <1>1
  <1>3. [d[f] EXCEPT !.parts = d[f].parts \cup {p}] \in FileType
    BY <1>1 DEF FileType
  <1>4. disk' \in [Files -> FileType]
    BY <1>2, <1>3
  <1>5. disk'[f] = [d[f] EXCEPT !.parts = d[f].parts \cup {p}] /\ \A g \in Files : g # f => disk'[g] = d[g]
    BY <1>2
  <1>6. /\ disk'[f].stamp = d[f].stamp /\ disk'[f].parts = d[f].parts \cup {p}
        /\ disk'[f].syncedStamp = d[f].syncedStamp /\ disk'[f].syncedParts = d[f].syncedParts
    <2>1. PICK r \in FileType : r = d[f]
      BY <1>1
    <2>2. disk'[f] = [r EXCEPT !.parts = r.parts \cup {p}]
      BY <1>5, <2>1
    <2>. QED BY <2>1, <2>2 DEF FileType
  <1>. QED BY <1>1, <1>4, <1>5, <1>6, StampedFacts

\* Fewer or no pieces are left in a file, whose stamp moves.
LEMMA EditDisk ==
    ASSUME ResumeTypeOK, NEW f \in Files, NEW lost \in {{}, disk[f].parts},
           disk' = [Stamped({f}, disk) EXCEPT ![f].parts = @ \ lost]
    PROVE  /\ disk' \in [Files -> FileType]
           /\ disk'[f].stamp = clock + 1 /\ disk'[f].parts \subseteq disk[f].parts
           /\ \A g \in Files : /\ disk'[g].syncedStamp = disk[g].syncedStamp
                               /\ disk'[g].syncedParts = disk[g].syncedParts
                               /\ g # f => disk'[g].stamp = disk[g].stamp /\ disk'[g].parts = disk[g].parts
  <1>1. PICK d \in [Files -> FileType] : d = Stamped({f}, disk)
    BY StampedFacts
  <1>2. disk' = [d EXCEPT ![f] = [d[f] EXCEPT !.parts = d[f].parts \ lost]]
    BY <1>1
  <1>3. [d[f] EXCEPT !.parts = d[f].parts \ lost] \in FileType
    BY <1>1 DEF FileType
  <1>4. disk' \in [Files -> FileType]
    BY <1>2, <1>3
  <1>5. disk'[f] = [d[f] EXCEPT !.parts = d[f].parts \ lost] /\ \A g \in Files : g # f => disk'[g] = d[g]
    BY <1>2
  <1>6. /\ disk'[f].stamp = d[f].stamp /\ disk'[f].parts = d[f].parts \ lost
        /\ disk'[f].syncedStamp = d[f].syncedStamp /\ disk'[f].syncedParts = d[f].syncedParts
    <2>1. PICK r \in FileType : r = d[f]
      BY <1>1
    <2>2. disk'[f] = [r EXCEPT !.parts = r.parts \ lost]
      BY <1>5, <2>1
    <2>. QED BY <2>1, <2>2 DEF FileType
  <1>. QED BY <1>1, <1>4, <1>5, <1>6, StampedFacts

\* Touching a file another program changed excuses the pieces in it.
LEMMA TouchesFacts ==
    ASSUME NEW S, Touches(S)
    PROVE  /\ written' = written \cup S /\ edited' = edited /\ excused \subseteq excused'
           /\ \A f \in S \cap edited : In(f) \subseteq excused'
           /\ ResumeTypeOK /\ S \subseteq Files => written' \subseteq Files /\ excused' \subseteq Pieces
  BY DEF Touches, In, ResumeTypeOK, PayloadTypeOK

\* A piece is written to a file that is not mapped: the file takes a new
\* stamp, and the write is not marked yet.
LEMMA WriteFileAtInv == CheckpointInv /\ (\E p \in Pieces, f \in Files : WriteFileAt(p, f)) => CheckpointInv'
  <1>. SUFFICES ASSUME CheckpointInv, NEW p \in Pieces, NEW f \in Files, WriteFileAt(p, f) PROVE CheckpointInv'
    OBVIOUS
  <1>0. /\ UNCHANGED <<stateFile, syncedState, plan, power, held, jobs, finishing>>
        /\ UNCHANGED <<dirty, trusted, checkpoint, mapped, mappedDirty, flush>>
        /\ Up /\ ~plan.mmap /\ f \in jobs[p] /\ clock' = clock + 1 /\ unmarked' = unmarked \cup {<<p, f>>}
        /\ disk' = [Stamped({f}, disk) EXCEPT ![f].parts = @ \cup {p}]
        /\ Touches({f})
    BY DEF WriteFileAt, stateFiles, session, bounds
  <1>t. ResumeTypeOK
    BY DEF CheckpointInv
  <1>d. /\ disk' \in [Files -> FileType]
        /\ disk'[f].stamp = clock + 1 /\ disk'[f].parts = disk[f].parts \cup {p}
        /\ \A g \in Files : /\ disk'[g].syncedStamp = disk[g].syncedStamp
                            /\ disk'[g].syncedParts = disk[g].syncedParts
                            /\ g # f => disk'[g].stamp = disk[g].stamp /\ disk'[g].parts = disk[g].parts
    BY <1>0, <1>t, WriteDisk
  <1>e. /\ written' = written \cup {f} /\ edited' = edited /\ excused \subseteq excused'
        /\ f \in edited => In(f) \subseteq excused'
        /\ written' \subseteq Files /\ excused' \subseteq Pieces
    BY <1>0, <1>t, TouchesFacts
  <1>1. ResumeTypeOK'
    <2>1. PayloadTypeOK'
      BY <1>0, <1>t, <1>d, <1>e, NextIsNew DEF CheckpointInv, ResumeTypeOK, PayloadTypeOK
    <2>2. SessionTypeOK'
      BY <1>t DEF WriteFileAt, session, ResumeTypeOK, SessionTypeOK
    <2>3. StorageTypeOK'
      BY <1>0, <1>t DEF WriteFileAt, ResumeTypeOK, StorageTypeOK
    <2>. QED BY <2>1, <2>2, <2>3 DEF ResumeTypeOK
  <1>2. RecordsAreTrue'
    <2>1. Evolves(disk, disk', clock)
      <3>1. clock + 1 > clock
        BY <1>t, DiskTypes
      <3>. QED BY <1>d, <3>1 DEF Evolves
    <2>. QED BY <1>0, <1>t, <1>1, <1>e, <2>1, RecordsKept DEF CheckpointInv
  <1>3. StampsArePast'
    <2>1. clock' >= clock
      BY <1>0, <1>t, DiskTypes
    <2>2. \A g \in Files : disk[g].stamp <= clock /\ disk[g].syncedStamp <= clock
      BY DEF CheckpointInv, StampsArePast
    <2>3. \A g \in Files : disk'[g].stamp <= clock \/ disk'[g].stamp <= clock'
      <3>1. clock + 1 <= clock'
        BY <1>0, <1>t, DiskTypes
      <3>. QED BY <1>d, <2>2, <3>1
    <2>. QED BY <1>0, <1>t, <1>d, <1>1, <2>1, <2>2, <2>3, StampsKept DEF CheckpointInv
  <1>4. DownIsClear'
    BY <1>0 DEF DownIsClear, Up
  <1>5. WritesAreNew'
    BY <1>0 DEF CheckpointInv, WritesAreNew
  <1>6. ClaimsAreTrue'
    <2>1. ASSUME NEW g \in Files, NEW q \in Pieces \ excused', Claims(q, g)'
          PROVE  q \in disk'[g].parts \/ g \in edited' \ written'
      <3>1. CASE q = p /\ g = f
        BY <1>d, <3>1
      <3>2. CASE Claims(q, g)
        <4>1. q \in disk[g].parts \/ g \in edited \ written
          BY <1>e, <3>2 DEF CheckpointInv, ClaimsAreTrue
        <4>2. disk[g].parts \subseteq disk'[g].parts
          BY <1>d
        <4>3. g = f /\ g \in edited => q \in In(f)
          BY <3>2 DEF Claims, In
        <4>. QED BY <1>e, <2>1, <4>1, <4>2, <4>3
      <3>. QED BY <1>0, <2>1, <3>1, <3>2 DEF Claims
    <2>2. \A g \in edited' \ written' : trusted'[g] # disk'[g].stamp
      <3>2. \A g \in edited \ written : g \in Files /\ trusted[g] # disk[g].stamp
        BY <1>t DEF CheckpointInv, ClaimsAreTrue, ResumeTypeOK, PayloadTypeOK
      <3>3. \A g \in edited' \ written' : g \in edited \ written /\ g # f
        BY <1>e
      <3>. QED BY <1>0, <1>d, <3>2, <3>3
    <2>3. \A g \in Files : g \notin written' =>
            /\ dirty'[g] = {} /\ flush'.taken[g] = {} /\ g \notin mappedDirty'
            /\ \A q \in Pieces : <<q, g>> \notin unmarked'
            /\ flush'.ids[g] # 0 => flush'.ids[g] = trusted'[g]
      BY <1>0, <1>e DEF CheckpointInv, ClaimsAreTrue
    <2>. QED BY <2>1, <2>2, <2>3 DEF ClaimsAreTrue
  <1>7. \A g \in Files : \A q \in Unsynced(g)' : q \in Unsynced(g) \/ (q = p /\ g = f)
    BY <1>d DEF Unsynced
  <1>8. p \notin held \cup finishing
    BY <1>0 DEF CheckpointInv, WritesAreNew
  <1>9. SyncsAreOwed'
    BY <1>0, <1>7, <1>8 DEF CheckpointInv, SyncsAreOwed, Up, Unswept
  <1>10. FlushSyncs'
    BY <1>0, <1>7, <1>8 DEF CheckpointInv, FlushSyncs, Unswept
  <1>. QED BY <1>1, <1>2, <1>3, <1>4, <1>5, <1>6, <1>9, <1>10 DEF CheckpointInv

\* The write is marked, and the piece finished once no file of it is left.
LEMMA MarkWrittenInv == CheckpointInv /\ (\E p \in Pieces, f \in Files : MarkWritten(p, f)) => CheckpointInv'
  <1>. SUFFICES ASSUME CheckpointInv, NEW p \in Pieces, NEW f \in Files, MarkWritten(p, f) PROVE CheckpointInv'
    OBVIOUS
  <1>0. /\ UNCHANGED <<disk, clock, edited, written, excused, stateFile, syncedState, plan, power, held>>
        /\ UNCHANGED <<trusted, checkpoint, mapped, mappedDirty, flush>>
        /\ Up /\ <<p, f>> \in unmarked /\ unmarked' = unmarked \ {<<p, f>>}
    BY DEF MarkWritten, payload, stateFiles, bounds
  <1>t. ResumeTypeOK
    BY DEF CheckpointInv
  <1>j. /\ jobs' \in [Pieces -> SUBSET Files] /\ jobs'[p] = jobs[p] \ {f}
        /\ \A q \in Pieces : q # p => jobs'[q] = jobs[q]
        /\ finishing' = (IF jobs'[p] = {} THEN finishing \cup {p} ELSE finishing)
    BY <1>t, DiskTypes DEF MarkWritten, Wrote
  <1>k. /\ dirty' \in DirtyType /\ dirty'[f] = {"meta", "sync"}
        /\ \A g \in Files : g # f => dirty'[g] = dirty[g]
    <2>1. {"meta", "sync"} \in SUBSET {"meta", "sync"} /\ dirty \in [Files -> SUBSET {"meta", "sync"}]
      BY <1>t, DiskTypes DEF DirtyType
    <2>2. dirty' = [dirty EXCEPT ![f] = {"meta", "sync"}]
      BY DEF MarkWritten
    <2>. QED BY <2>1, <2>2 DEF DirtyType
  <1>w. f \in jobs[p] /\ p \notin held \cup finishing /\ f \in written /\ f \in Overlaps[p]
    BY <1>0 DEF CheckpointInv, WritesAreNew, ClaimsAreTrue
  <1>1. ResumeTypeOK'
    <2>1. SessionTypeOK'
      BY <1>t, <1>j DEF MarkWritten, ResumeTypeOK, SessionTypeOK
    <2>2. PayloadTypeOK' /\ StorageTypeOK'
      BY <1>0, <1>t, <1>k DEF MarkWritten, ResumeTypeOK, PayloadTypeOK, StorageTypeOK
    <2>. QED BY <2>1, <2>2 DEF ResumeTypeOK
  <1>2. RecordsAreTrue' /\ StampsArePast'
    BY <1>0, RecordsFrame DEF CheckpointInv
  <1>3. DownIsClear'
    BY <1>0 DEF DownIsClear, Up
  <1>4. WritesAreNew'
    <2>1. \A q \in held \cup finishing' : jobs'[q] = {}
      <3>1. \A q \in held \cup finishing : q \in Pieces /\ q # p /\ jobs[q] = {}
        BY <1>t, <1>w DEF CheckpointInv, WritesAreNew, ResumeTypeOK, SessionTypeOK
      <3>. QED BY <1>j, <3>1
    <2>2. \A q \in Pieces : jobs'[q] \subseteq Overlaps[q]
      BY <1>j DEF CheckpointInv, WritesAreNew
    <2>3. \A q \in Pieces, g \in Files : <<q, g>> \in unmarked' => g \in jobs'[q]
      BY <1>0, <1>j DEF CheckpointInv, WritesAreNew
    <2>. QED BY <1>0, <2>1, <2>2, <2>3 DEF CheckpointInv, WritesAreNew
  <1>5. ClaimsAreTrue'
    <2>1. \A g \in Files, q \in Pieces : Claims(q, g)' => Claims(q, g)
      <3>. SUFFICES ASSUME NEW g \in Files, NEW q \in Pieces, Claims(q, g)' PROVE Claims(q, g)
        OBVIOUS
      <3>1. CASE q # p
        BY <1>0, <1>j, <3>1 DEF Claims
      <3>2. CASE q = p /\ g = f
        BY <1>0, <1>w, <3>2 DEF Claims
      <3>3. CASE q = p /\ g # f
        BY <1>0, <1>j, <1>w, <3>3 DEF Claims
      <3>. QED BY <3>1, <3>2, <3>3
    <2>2. \A g \in Files : g \notin written => g # f
      BY <1>w
    <2>. QED BY <1>0, <1>k, <2>1, <2>2 DEF CheckpointInv, ClaimsAreTrue
  <1>6. SyncsAreOwed'
    <2>. SUFFICES ASSUME NEW g \in Files, NEW q \in Unsynced(g)
                  PROVE  /\ q \in held \cup finishing' \/ jobs'[q] # {}
                         /\ g \in Overlaps[q] /\ (q \in held \cup finishing' \/ g \notin jobs'[q]) =>
                              \/ "sync" \in dirty'[g] \/ g \in mappedDirty
                              \/ flush.stage = "sweep" /\ Unswept(g)
      BY <1>0 DEF SyncsAreOwed, Unswept, Unsynced
    <2>0. q \in Pieces
      BY <1>t, DiskTypes DEF Unsynced
    <2>1. q \in held \cup finishing' \/ jobs'[q] # {}
      <3>1. q \in held \cup finishing \/ jobs[q] # {}
        BY <1>0 DEF CheckpointInv, SyncsAreOwed
      <3>. QED BY <1>j, <2>0, <3>1
    <2>2. CASE g = f
      BY <1>k, <2>1, <2>2
    <2>3. CASE g # f
      <3>1. q \in held \cup finishing' \/ g \notin jobs'[q] => q \in held \cup finishing \/ g \notin jobs[q]
        BY <1>j, <2>0, <2>3
      <3>. QED BY <1>0, <1>k, <2>1, <2>3, <3>1 DEF CheckpointInv, SyncsAreOwed
    <2>. QED BY <2>2, <2>3
  <1>7. FlushSyncs'
    <2>1. \A g \in Files : "sync" \in dirty[g] => "sync" \in dirty'[g]
      BY <1>k
    <2>. QED BY <1>0, <2>1 DEF CheckpointInv, FlushSyncs, Unsynced, Unswept
  <1>. QED BY <1>1, <1>2, <1>3, <1>4, <1>5, <1>6, <1>7 DEF CheckpointInv

\* A piece is written through the mappings of its files, which are then dirty.
LEMMA WriteMappedInv == CheckpointInv /\ (\E p \in Pieces : WriteMapped(p)) => CheckpointInv'
  <1>. SUFFICES ASSUME CheckpointInv, NEW p \in Pieces, WriteMapped(p) PROVE CheckpointInv'
    OBVIOUS
  <1>t. ResumeTypeOK
    BY DEF CheckpointInv
  <1>. DEFINE S == jobs[p]
  <1>0. /\ UNCHANGED <<clock, stateFile, syncedState, plan, power, held>>
        /\ UNCHANGED <<unmarked, dirty, trusted, checkpoint, flush>>
        /\ Up /\ plan.mmap /\ S # {} /\ mapped' = mapped \cup S /\ mappedDirty' = mappedDirty \cup S
        /\ unstamped' = unstamped \cup S
    BY DEF WriteMapped, stateFiles, bounds
  <1>s. S \subseteq Files /\ S \subseteq Overlaps[p] /\ p \notin held \cup finishing
    BY <1>t, <1>0, DiskTypes DEF CheckpointInv, WritesAreNew
  <1>j. /\ jobs' \in [Pieces -> SUBSET Files] /\ jobs'[p] = {}
        /\ \A q \in Pieces : q # p => jobs'[q] = jobs[q]
        /\ finishing' = finishing \cup {p}
    BY <1>t, DiskTypes DEF WriteMapped, Wrote
  <1>d. /\ disk' \in [Files -> FileType]
        /\ \A g \in Files : /\ disk'[g].stamp = disk[g].stamp
                            /\ disk'[g].parts = IF g \in S THEN disk[g].parts \cup {p} ELSE disk[g].parts
                            /\ disk'[g].syncedStamp = disk[g].syncedStamp
                            /\ disk'[g].syncedParts = disk[g].syncedParts
    <2>1. disk' = [g \in Files |-> IF g \in S THEN [disk[g] EXCEPT !.parts = @ \cup {p}] ELSE disk[g]]
      BY DEF WriteMapped
    <2>2. \A r \in FileType : [r EXCEPT !.parts = @ \cup {p}] \in FileType
      BY DEF FileType
    <2>3. \A g \in Files : disk[g] \in FileType
      BY <1>t, DiskTypes
    <2>4. \A r \in FileType : /\ [r EXCEPT !.parts = @ \cup {p}].parts = r.parts \cup {p}
                              /\ [r EXCEPT !.parts = @ \cup {p}].stamp = r.stamp
                              /\ [r EXCEPT !.parts = @ \cup {p}].syncedStamp = r.syncedStamp
                              /\ [r EXCEPT !.parts = @ \cup {p}].syncedParts = r.syncedParts
      BY DEF FileType
    <2>. HIDE DEF S
    <2>5. disk' \in [Files -> FileType]
      BY <2>1, <2>2, <2>3
    <2>6. ASSUME NEW g \in Files
          PROVE  /\ disk'[g].stamp = disk[g].stamp
                 /\ disk'[g].parts = IF g \in S THEN disk[g].parts \cup {p} ELSE disk[g].parts
                 /\ disk'[g].syncedStamp = disk[g].syncedStamp
                 /\ disk'[g].syncedParts = disk[g].syncedParts
      BY <2>1, <2>3, <2>4
    <2>. QED BY <2>5, <2>6
  <1>e. /\ written' = written \cup S /\ edited' = edited /\ excused \subseteq excused'
        /\ \A g \in S \cap edited : In(g) \subseteq excused'
        /\ written' \subseteq Files /\ excused' \subseteq Pieces
    <2>1. Touches(S)
      BY DEF WriteMapped
    <2>. QED BY <2>1, <1>t, <1>s, TouchesFacts
  <1>1. ResumeTypeOK'
    <2>1. PayloadTypeOK'
      BY <1>0, <1>t, <1>d, <1>e DEF ResumeTypeOK, PayloadTypeOK
    <2>2. SessionTypeOK'
      BY <1>t, <1>j DEF WriteMapped, ResumeTypeOK, SessionTypeOK
    <2>3. StorageTypeOK'
      BY <1>0, <1>s, <1>t DEF ResumeTypeOK, StorageTypeOK
    <2>. QED BY <2>1, <2>2, <2>3 DEF ResumeTypeOK
  <1>. HIDE DEF S
  <1>2. RecordsAreTrue'
    <2>1. Evolves(disk, disk', clock)
      BY <1>d DEF Evolves
    <2>. QED BY <1>0, <1>t, <1>1, <1>e, <2>1, RecordsKept DEF CheckpointInv
  <1>3. StampsArePast'
    BY <1>0, <1>d DEF CheckpointInv, StampsArePast, Past
  <1>4. DownIsClear'
    BY <1>0 DEF DownIsClear, Up
  <1>5. WritesAreNew'
    <2>1. \A q \in held \cup finishing' : jobs'[q] = {}
      <3>1. \A q \in held \cup finishing : q \in Pieces /\ jobs[q] = {}
        BY <1>t DEF CheckpointInv, WritesAreNew, ResumeTypeOK, SessionTypeOK
      <3>. QED BY <1>j, <3>1
    <2>2. \A q \in Pieces : jobs'[q] \subseteq Overlaps[q]
      BY <1>j DEF CheckpointInv, WritesAreNew
    <2>3. unmarked = {}
      BY <1>0 DEF CheckpointInv, WritesAreNew
    <2>. QED BY <1>0, <2>1, <2>2, <2>3 DEF CheckpointInv, WritesAreNew
  <1>6. ClaimsAreTrue'
    <2>1. ASSUME NEW g \in Files, NEW q \in Pieces \ excused', Claims(q, g)'
          PROVE  q \in disk'[g].parts \/ g \in edited' \ written'
      <3>1. CASE q = p /\ g \in S
        BY <1>d, <3>1
      <3>2. CASE Claims(q, g)
        <4>1. q \in disk[g].parts \/ g \in edited \ written
          BY <1>e, <3>2 DEF CheckpointInv, ClaimsAreTrue
        <4>2. disk[g].parts \subseteq disk'[g].parts
          BY <1>d
        <4>3. g \in S /\ g \in edited => q \in In(g)
          BY <3>2 DEF Claims, In
        <4>. QED BY <1>e, <2>1, <4>1, <4>2, <4>3
      <3>3. q = p /\ g \notin S => Claims(q, g)
        BY <1>0, <2>1 DEF Claims, S
      <3>4. q # p => Claims(q, g)
        BY <1>0, <1>j, <2>1 DEF Claims
      <3>. QED BY <3>1, <3>2, <3>3, <3>4
    <2>2. \A g \in edited' \ written' : trusted'[g] # disk'[g].stamp
      BY <1>0, <1>d, <1>e, <1>t DEF CheckpointInv, ClaimsAreTrue, ResumeTypeOK, PayloadTypeOK
    <2>3. \A g \in Files : g \notin written' =>
            /\ dirty'[g] = {} /\ flush'.taken[g] = {} /\ g \notin mappedDirty'
            /\ \A q \in Pieces : <<q, g>> \notin unmarked'
            /\ flush'.ids[g] # 0 => flush'.ids[g] = trusted'[g]
      BY <1>0, <1>e DEF CheckpointInv, ClaimsAreTrue
    <2>. QED BY <2>1, <2>2, <2>3 DEF ClaimsAreTrue
  <1>7. \A g \in Files : \A q \in Unsynced(g)' : q \in Unsynced(g) \/ (q = p /\ g \in S)
    BY <1>d DEF Unsynced
  <1>8. SyncsAreOwed'
    <2>. SUFFICES ASSUME NEW g \in Files, NEW q \in Unsynced(g)'
                  PROVE  /\ q \in held \cup finishing' \/ jobs'[q] # {}
                         /\ g \in Overlaps[q] /\ (q \in held \cup finishing' \/ g \notin jobs'[q]) =>
                              \/ "sync" \in dirty[g] \/ g \in mappedDirty'
                              \/ flush.stage = "sweep" /\ Unswept(g)
      BY <1>0 DEF SyncsAreOwed, Unswept
    <2>0. q \in Pieces
      BY <1>1 DEF Unsynced, ResumeTypeOK, PayloadTypeOK, FileType
    <2>1. CASE q = p /\ g \in S
      BY <1>0, <1>j, <2>1
    <2>2. CASE q \in Unsynced(g)
      <3>1. /\ q \in held \cup finishing \/ jobs[q] # {}
            /\ g \in Overlaps[q] /\ (q \in held \cup finishing \/ g \notin jobs[q]) =>
                 "sync" \in dirty[g] \/ g \in mappedDirty \/ (flush.stage = "sweep" /\ Unswept(g))
        BY <1>0, <2>2 DEF CheckpointInv, SyncsAreOwed
      <3>2. q # p => (q \in held \cup finishing' <=> q \in held \cup finishing) /\ jobs'[q] = jobs[q]
        BY <1>j, <2>0
      <3>3. q = p => q \in held \cup finishing' /\ (g \notin S => g \notin jobs[q])
        BY <1>j DEF S
      <3>. QED BY <1>0, <2>1, <3>1, <3>2, <3>3
    <2>. QED BY <1>7, <2>1, <2>2
  <1>9. FlushSyncs'
    BY <1>0, <1>s, <1>7 DEF CheckpointInv, FlushSyncs, Unswept
  <1>. QED BY <1>1, <1>2, <1>3, <1>4, <1>5, <1>6, <1>8, <1>9 DEF CheckpointInv

\* Files take a new stamp, and nothing else happens to them.
Moved(S) ==
    /\ disk' \in [Files -> FileType] /\ clock' \in Nat /\ clock' >= clock
    /\ \A f \in Files : /\ disk'[f].stamp = disk[f].stamp \/ (f \in S /\ disk'[f].stamp = clock + 1 /\ clock' = clock + 1)
                        /\ disk'[f].parts = disk[f].parts
                        /\ disk'[f].syncedStamp = disk[f].syncedStamp
                        /\ disk'[f].syncedParts = disk[f].syncedParts

\* What Ticks and Stamped do together.
LEMMA MovedByTicks ==
    ASSUME ResumeTypeOK, NEW S, Ticks(S), disk' = Stamped(S, disk), S \subseteq Files
    PROVE  Moved(S)
  <1>1. clock \in Nat
    BY DiskTypes
  <1>2. CASE S = {}
    BY <1>1, <1>2, StampedFacts DEF Ticks, Moved
  <1>3. CASE clock' = clock + 1
    BY <1>1, <1>3, StampedFacts DEF Moved
  <1>. QED BY <1>2, <1>3 DEF Ticks

\* A file that takes a new stamp keeps every record of it true.
LEMMA MovedEvolves == ASSUME ResumeTypeOK, NEW S, Moved(S) PROVE Evolves(disk, disk', clock)
  <1>1. clock + 1 > clock
    BY DiskTypes
  <1>. QED BY <1>1 DEF Moved, Evolves

\* Stamps stay in the past when time and some of them move, and the flush takes none.
LEMMA MovedStamps ==
    ASSUME ResumeTypeOK, ResumeTypeOK', StampsArePast, NEW S, Moved(S),
           UNCHANGED <<stateFile, syncedState, checkpoint, trusted>>,
           flush'.ids = flush.ids /\ flush'.before = flush.before
    PROVE  StampsArePast'
  <1>0. \A a, b, c \in Nat : a <= b /\ c >= b => a <= c
    OBVIOUS
  <1>1. clock \in Nat /\ clock' \in Nat /\ clock' >= clock /\ RecordsTyped /\ trusted \in Ids /\ flush.before \in Nat
    BY RecordTypes DEF Moved
  <1>2. \A ids \in Ids : Past(ids) => \A f \in Files : ids[f] <= clock'
    BY <1>0, <1>1 DEF Past, Ids
  <1>3. \A f \in Files : disk[f].stamp <= clock' /\ disk[f].syncedStamp <= clock'
    BY <1>0, <1>1, DiskTypes DEF StampsArePast, FileType
  <1>4. clock' = clock + 1 => clock + 1 <= clock'
    BY <1>1
  <1>5. \A f \in Files : disk'[f].stamp <= clock' /\ disk'[f].syncedStamp <= clock'
    BY <1>3, <1>4 DEF Moved
  <1>6. flush.before <= clock'
    BY <1>0, <1>1 DEF StampsArePast
  <1>. QED BY <1>1, <1>2, <1>5, <1>6 DEF StampsArePast, Past, RecordsTyped

\* Mapped pages reach the disk.
LEMMA PageOutInv == CheckpointInv /\ (\E f \in Files : PageOut(f)) => CheckpointInv'
  <1>. SUFFICES ASSUME CheckpointInv, NEW f \in Files, PageOut(f) PROVE CheckpointInv'
    OBVIOUS
  <1>0. /\ UNCHANGED <<edited, written, excused, stateFile, syncedState, plan, power, held, jobs, finishing>>
        /\ UNCHANGED <<unmarked, dirty, trusted, checkpoint, mapped, mappedDirty, flush>>
        /\ Up /\ clock' = clock + 1 /\ disk' = Stamped({f}, disk)
    BY DEF PageOut, stateFiles, session, bounds
  <1>t. ResumeTypeOK
    BY DEF CheckpointInv
  <1>d. Moved({f})
    <2>1. Ticks({f})
      BY DEF PageOut, Ticks
    <2>. QED BY <1>0, <1>t, <2>1, MovedByTicks
  <1>1. ResumeTypeOK'
    <2>1. PayloadTypeOK' /\ StorageTypeOK'
      BY <1>0, <1>d, <1>t DEF PageOut, Moved, ResumeTypeOK, PayloadTypeOK, StorageTypeOK
    <2>2. SessionTypeOK'
      BY <1>t DEF PageOut, session, ResumeTypeOK, SessionTypeOK
    <2>. QED BY <2>1, <2>2 DEF ResumeTypeOK
  <1>2. RecordsAreTrue'
    BY <1>0, <1>t, <1>1, <1>d, MovedEvolves, RecordsKept DEF CheckpointInv
  <1>3. StampsArePast'
    BY <1>0, <1>t, <1>1, <1>d, MovedStamps DEF CheckpointInv
  <1>4. DownIsClear' /\ WritesAreNew'
    BY <1>0 DEF CheckpointInv, DownIsClear, WritesAreNew, Up
  <1>5. ClaimsAreTrue'
    <2>1. \A g \in edited \ written : g \in Files /\ trusted[g] # disk[g].stamp /\ trusted[g] # clock + 1
      BY <1>t, NextIsNew DEF CheckpointInv, ClaimsAreTrue, ResumeTypeOK, PayloadTypeOK
    <2>2. \A g \in edited' \ written' : trusted'[g] # disk'[g].stamp
      BY <1>0, <1>d, <2>1 DEF Moved
    <2>. QED BY <1>0, <1>d, <2>2 DEF CheckpointInv, ClaimsAreTrue, Claims, Moved
  <1>6. \A g \in Files : Unsynced(g)' = Unsynced(g)
    BY <1>d DEF Unsynced, Moved
  <1>7. SyncsAreOwed' /\ FlushSyncs'
    BY <1>0, <1>6 DEF CheckpointInv, SyncsAreOwed, FlushSyncs, Unswept, Up
  <1>. QED BY <1>1, <1>2, <1>3, <1>4, <1>5, <1>7 DEF CheckpointInv

\* Another program changes a file, and takes parts of it away.
LEMMA EditFileInv == CheckpointInv /\ (\E f \in Files : EditFile(f)) => CheckpointInv'
  <1>. SUFFICES ASSUME CheckpointInv, NEW f \in Files, EditFile(f) PROVE CheckpointInv'
    OBVIOUS
  <1>0. /\ UNCHANGED <<written, stateFile, syncedState, plan, power, held, jobs, finishing>>
        /\ UNCHANGED <<unmarked, dirty, trusted, checkpoint, mapped, mappedDirty, flush>>
        /\ clock' = clock + 1
        /\ edited' = (IF Up THEN edited \cup {f} ELSE edited)
        /\ excused' = (IF Up /\ f \in written THEN excused \cup In(f) ELSE excused)
    BY DEF EditFile, Fault, stateFiles, session, storage
  <1>t. ResumeTypeOK /\ clock \in Nat
    BY DiskTypes DEF CheckpointInv
  <1>d. /\ disk' \in [Files -> FileType]
        /\ disk'[f].stamp = clock + 1 /\ disk'[f].parts \subseteq disk[f].parts
        /\ \A g \in Files : /\ disk'[g].syncedStamp = disk[g].syncedStamp
                            /\ disk'[g].syncedParts = disk[g].syncedParts
                            /\ g # f => disk'[g].stamp = disk[g].stamp /\ disk'[g].parts = disk[g].parts
    <2>1. PICK lost \in {{}, disk[f].parts} : disk' = [Stamped({f}, disk) EXCEPT ![f].parts = @ \ lost]
      BY DEF EditFile
    <2>. QED BY <1>t, <2>1, EditDisk
  <1>e. excused \subseteq excused' /\ excused' \subseteq Pieces /\ edited' \subseteq Files
    BY <1>0, <1>t DEF In, ResumeTypeOK, PayloadTypeOK
  <1>1. ResumeTypeOK'
    <2>1. PayloadTypeOK'
      BY <1>0, <1>t, <1>d, <1>e DEF ResumeTypeOK, PayloadTypeOK
    <2>2. SessionTypeOK' /\ StorageTypeOK'
      BY <1>0, <1>t DEF EditFile, session, storage, ResumeTypeOK, SessionTypeOK, StorageTypeOK
    <2>. QED BY <2>1, <2>2 DEF ResumeTypeOK
  <1>2. RecordsAreTrue'
    <2>1. Evolves(disk, disk', clock)
      <3>1. clock + 1 > clock
        BY <1>t
      <3>. QED BY <1>d, <3>1 DEF Evolves
    <2>. QED BY <1>0, <1>t, <1>1, <1>e, <2>1, RecordsKept DEF CheckpointInv
  <1>3. StampsArePast'
    <2>1. clock' >= clock /\ clock + 1 <= clock'
      BY <1>0, <1>t
    <2>2. \A g \in Files : disk[g].stamp <= clock /\ disk[g].syncedStamp <= clock
      BY DEF CheckpointInv, StampsArePast
    <2>3. \A g \in Files : disk'[g].stamp <= clock \/ disk'[g].stamp <= clock'
      BY <1>d, <2>1, <2>2
    <2>. QED BY <1>0, <1>t, <1>d, <1>1, <2>1, <2>2, <2>3, StampsKept DEF CheckpointInv
  <1>4. DownIsClear'
    BY <1>0 DEF CheckpointInv, DownIsClear, Up
  <1>5. WritesAreNew'
    BY <1>0 DEF CheckpointInv, WritesAreNew
  <1>6. \A g \in Files : Unsynced(g)' \subseteq Unsynced(g)
    BY <1>d DEF Unsynced
  <1>7. SyncsAreOwed' /\ FlushSyncs'
    BY <1>0, <1>6 DEF CheckpointInv, SyncsAreOwed, FlushSyncs, Unswept, Up
  <1>8. ClaimsAreTrue'
    <2>1. ASSUME NEW g \in Files, NEW q \in Pieces \ excused', Claims(q, g)'
          PROVE  q \in disk'[g].parts \/ g \in edited' \ written'
      <3>1. Claims(q, g) /\ q \notin excused
        BY <1>0, <1>e, <2>1 DEF Claims
      <3>2. Up
        BY <3>1 DEF Claims, CheckpointInv, DownIsClear
      <3>3. q \in disk[g].parts \/ g \in edited \ written
        BY <3>1 DEF CheckpointInv, ClaimsAreTrue
      <3>4. g = f => f \notin written
        BY <1>0, <2>1, <3>1, <3>2 DEF Claims, In
      <3>. QED BY <1>0, <1>d, <3>2, <3>3, <3>4
    <2>2. \A g \in edited \ written : g \in Files /\ trusted[g] # disk[g].stamp
      BY <1>t DEF CheckpointInv, ClaimsAreTrue, ResumeTypeOK, PayloadTypeOK
    <2>3. trusted[f] # clock + 1
      BY <1>t, NextIsNew DEF CheckpointInv
    <2>4. \A g \in edited' \ written' : trusted'[g] # disk'[g].stamp
      BY <1>0, <1>d, <2>2, <2>3
    <2>. QED BY <1>0, <2>1, <2>4 DEF CheckpointInv, ClaimsAreTrue
  <1>. QED BY <1>1, <1>2, <1>3, <1>4, <1>5, <1>7, <1>8 DEF CheckpointInv

----------------------------------------------------------------------------
(* Starts and ends of a process                                            *)

\* No flush under way: a record of nothing.
LEMMA IdleFacts ==
    /\ Idle \in [stage : {"idle", "settle", "swap", "sweep", "hint"}, durable : BOOLEAN,
                 verified : SUBSET Pieces, completed : SUBSET Pieces,
                 taken : DirtyType, at : Nat \ {0}, before : Nat, ids : Ids]
    /\ Idle.stage = "idle" /\ Idle.verified = {} /\ Idle.at = 1 /\ Idle.before = 0
    /\ \A f \in Files : Idle.taken[f] = {} /\ Idle.ids[f] = 0
    /\ Idle.ids \in Ids
  <1>1. [f \in Files |-> {}] \in DirtyType /\ [f \in Files |-> 0] \in Ids
    BY DEF DirtyType, Ids
  <1>2. FALSE \in BOOLEAN /\ 1 \in Nat \ {0} /\ 0 \in Nat
    OBVIOUS
  <1>. QED BY <1>1, <1>2 DEF Idle

\* No checkpoint: a record of nothing.
LEMMA NoCheckpointFacts ==
    /\ NoCheckpoint \in [valid : BOOLEAN, complete : BOOLEAN, ids : Ids,
                         verified : SUBSET Pieces, completed : SUBSET Pieces]
    /\ \A f \in Files : NoCheckpoint.ids[f] = 0
    /\ NoCheckpoint.ids \in Ids
  <1>1. [f \in Files |-> 0] \in Ids
    BY DEF Ids
  <1>2. FALSE \in BOOLEAN
    OBVIOUS
  <1>. QED BY <1>1, <1>2 DEF NoCheckpoint

\* What is true of a state file without a flush, of an ended process.
LEMMA EndsInv ==
    ASSUME CheckpointInv, ProcessEnds, power' = "down", excused' = excused,
           disk' \in [Files -> FileType], clock' \in Nat, clock' >= clock,
           Evolves(disk, disk', clock),
           \A f \in Files : disk'[f].stamp <= clock' /\ disk'[f].syncedStamp <= clock',
           stateFile' \in {stateFile, syncedState}, syncedState' \in {stateFile, syncedState}
    PROVE  CheckpointInv'
  <1>t. ResumeTypeOK /\ RecordsTyped /\ clock \in Nat
    BY RecordTypes DEF CheckpointInv
  <1>0. /\ held' = {} /\ finishing' = {} /\ unmarked' = {} /\ mapped' = {} /\ mappedDirty' = {}
        /\ edited' = {} /\ written' = {} /\ flush' = Idle /\ checkpoint' = NoCheckpoint /\ plan' = plan
        /\ \A p \in Pieces : jobs'[p] = {}
        /\ \A f \in Files : dirty'[f] = {} /\ trusted'[f] = 0
        /\ ~Up'
    BY DEF ProcessEnds, Up
  <1>1. ResumeTypeOK'
    <2>1. PayloadTypeOK'
      BY <1>0, <1>t DEF ResumeTypeOK, PayloadTypeOK
    <2>2. SessionTypeOK'
      BY DEF ProcessEnds, SessionTypeOK
    <2>3. dirty' \in DirtyType /\ trusted' \in Ids /\ unstamped' = {}
      BY DEF ProcessEnds, DirtyType, Ids
    <2>4. StorageTypeOK'
      BY <1>0, <2>3, IdleFacts, NoCheckpointFacts DEF StorageTypeOK
    <2>. QED BY <2>1, <2>2, <2>4 DEF ResumeTypeOK
  <1>2. RecordsAreTrue'
    <2>1. /\ Vouches(disk', excused', stateFile.ids, stateFile.verified)
          /\ Vouches(disk', excused', syncedState.ids, syncedState.verified)
      BY <1>t, VouchesKept DEF CheckpointInv, RecordsAreTrue, StampsArePast, Past, RecordsTyped
    <2>2. Vouches(disk', excused', checkpoint'.ids, checkpoint'.verified)
      BY <1>0, NoCheckpointFacts, NothingVouched
    <2>3. Vouches(disk', excused', flush'.ids, flush'.verified)
      BY <1>0, IdleFacts, NothingVouched
    <2>. QED BY <2>1, <2>2, <2>3 DEF RecordsAreTrue
  <1>3. StampsArePast'
    <2>0. \A a, b, c \in Nat : a <= b /\ c >= b => a <= c
      OBVIOUS
    <2>1. \A ids \in Ids : Past(ids) => \A f \in Files : ids[f] <= clock'
      BY <1>t, <2>0 DEF Past, Ids
    <2>2. /\ \A f \in Files : stateFile.ids[f] <= clock'
          /\ \A f \in Files : syncedState.ids[f] <= clock'
      BY <1>t, <2>1 DEF CheckpointInv, StampsArePast, RecordsTyped
    <2>3. 0 <= clock'
      OBVIOUS
    <2>. QED BY <1>0, <2>2, <2>3, IdleFacts, NoCheckpointFacts DEF StampsArePast, Past
  <1>4. DownIsClear'
    BY <1>0 DEF DownIsClear
  <1>5. WritesAreNew'
    BY <1>0 DEF WritesAreNew
  <1>6. ClaimsAreTrue'
    BY <1>0, IdleFacts DEF ClaimsAreTrue, Claims
  <1>7. SyncsAreOwed'
    BY <1>0 DEF SyncsAreOwed
  <1>8. FlushSyncs'
    BY <1>0, IdleFacts DEF FlushSyncs
  <1>. QED BY <1>1, <1>2, <1>3, <1>4, <1>5, <1>6, <1>7, <1>8 DEF CheckpointInv

\* The process closes or dies: mappings are released.
LEMMA CloseInv == CheckpointInv /\ (CloseStorage \/ Crash) => CheckpointInv'
  <1>. SUFFICES ASSUME CheckpointInv, CloseStorage \/ Crash PROVE CheckpointInv'
    OBVIOUS
  <1>t. ResumeTypeOK
    BY DEF CheckpointInv
  <1>1. ProcessEnds /\ power' = "down" /\ excused' = excused
        /\ stateFile' = stateFile /\ syncedState' = syncedState
    BY DEF CloseStorage, Crash, Gone, stateFiles
  <1>2. PICK S \in SUBSET Files : Ticks(S) /\ disk' = Stamped(S, disk)
    BY <1>t DEF CloseStorage, Crash, Moves, ResumeTypeOK, StorageTypeOK
  <1>3. Moved(S)
    BY <1>t, <1>2, MovedByTicks
  <1>4. Evolves(disk, disk', clock)
    BY <1>t, <1>3, MovedEvolves
  <1>5. \A f \in Files : disk'[f].stamp <= clock' /\ disk'[f].syncedStamp <= clock'
    <2>0. \A a, b, c \in Nat : a <= b /\ c >= b => a <= c
      OBVIOUS
    <2>1. \A f \in Files : disk[f].stamp \in Nat /\ disk[f].syncedStamp \in Nat
      BY <1>t, DiskTypes DEF FileType
    <2>2. \A f \in Files : disk[f].stamp <= clock' /\ disk[f].syncedStamp <= clock'
      BY <1>t, <1>3, <2>0, <2>1, DiskTypes DEF CheckpointInv, StampsArePast, Moved
    <2>3. clock' = clock + 1 => clock + 1 <= clock'
      BY <1>t, DiskTypes
    <2>. QED BY <1>3, <2>2, <2>3 DEF Moved
  <1>. QED BY <1>1, <1>3, <1>4, <1>5, EndsInv DEF Moved

\* The power fails: files go back to their last sync, or keep what was synced.
LEMMA PowerLossInv == CheckpointInv /\ PowerLoss => CheckpointInv'
  <1>. SUFFICES ASSUME CheckpointInv, PowerLoss PROVE CheckpointInv'
    OBVIOUS
  <1>t. ResumeTypeOK /\ disk \in [Files -> FileType] /\ clock \in Nat
    BY DiskTypes DEF CheckpointInv
  <1>1. ProcessEnds /\ power' = "down" /\ excused' = excused /\ clock' = clock
        /\ stateFile' \in {stateFile, syncedState} /\ syncedState' \in {stateFile, syncedState}
    BY DEF PowerLoss, Gone
  <1>2. PICK lost \in SUBSET Files :
          disk' = [f \in Files |->
                     IF f \in lost
                     THEN [disk[f] EXCEPT !.stamp = disk[f].syncedStamp, !.parts = disk[f].syncedParts]
                     ELSE [disk[f] EXCEPT !.parts = disk[f].parts \cap disk[f].syncedParts,
                                          !.syncedStamp = disk[f].stamp,
                                          !.syncedParts = disk[f].parts \cap disk[f].syncedParts]]
    BY DEF PowerLoss
  <1>3. ASSUME NEW f \in Files
        PROVE  /\ disk'[f] \in FileType
               /\ \/ /\ disk'[f].stamp = disk[f].syncedStamp /\ disk'[f].syncedStamp = disk[f].syncedStamp
                     /\ disk'[f].parts = disk[f].syncedParts /\ disk'[f].syncedParts = disk[f].syncedParts
                  \/ /\ disk'[f].stamp = disk[f].stamp /\ disk'[f].syncedStamp = disk[f].stamp
                     /\ disk'[f].parts = disk[f].parts \cap disk[f].syncedParts
                     /\ disk'[f].syncedParts = disk[f].parts \cap disk[f].syncedParts
    <2>1. PICK d \in FileType : d = disk[f]
      BY <1>t
    <2>2. CASE f \in lost
      <3>1. disk'[f] = [d EXCEPT !.stamp = d.syncedStamp, !.parts = d.syncedParts]
        BY <1>2, <2>1, <2>2
      <3>. QED BY <2>1, <3>1 DEF FileType
    <2>3. CASE f \notin lost
      <3>1. PICK left \in SUBSET Pieces : left = d.parts \cap d.syncedParts
        BY DEF FileType
      <3>2. disk'[f] = [d EXCEPT !.parts = left, !.syncedStamp = d.stamp, !.syncedParts = left]
        BY <1>2, <2>1, <2>3, <3>1
      <3>3. disk'[f] \in FileType
        BY <3>2 DEF FileType
      <3>4. /\ disk'[f].stamp = d.stamp /\ disk'[f].syncedStamp = d.stamp
            /\ disk'[f].parts = left /\ disk'[f].syncedParts = left
        BY <3>2 DEF FileType
      <3>. QED BY <2>1, <3>1, <3>3, <3>4
    <2>. QED BY <2>2, <2>3
  <1>4. disk' \in [Files -> FileType]
    BY <1>2, <1>3
  <1>5. Evolves(disk, disk', clock)
    BY <1>3 DEF Evolves
  <1>6. \A f \in Files : disk'[f].stamp <= clock /\ disk'[f].syncedStamp <= clock
    BY <1>3 DEF CheckpointInv, StampsArePast
  <1>. QED BY <1>t, <1>1, <1>4, <1>5, <1>6, EndsInv

\* What reaches the disk before a start.
LEMMA SettledFacts ==
    ResumeTypeOK =>
        /\ Settled \in [Files -> FileType]
        /\ \A f \in Files : /\ Settled[f].stamp = disk[f].stamp /\ Settled[f].syncedStamp = disk[f].stamp
                            /\ Settled[f].parts = disk[f].parts /\ Settled[f].syncedParts = disk[f].parts
  <1>. SUFFICES ASSUME ResumeTypeOK
                PROVE  /\ Settled \in [Files -> FileType]
                       /\ \A f \in Files :
                            /\ Settled[f].stamp = disk[f].stamp /\ Settled[f].syncedStamp = disk[f].stamp
                            /\ Settled[f].parts = disk[f].parts /\ Settled[f].syncedParts = disk[f].parts
    OBVIOUS
  <1>1. ASSUME NEW f \in Files
        PROVE  /\ Settled[f] \in FileType
               /\ Settled[f].stamp = disk[f].stamp /\ Settled[f].syncedStamp = disk[f].stamp
               /\ Settled[f].parts = disk[f].parts /\ Settled[f].syncedParts = disk[f].parts
    <2>1. PICK d \in FileType : d = disk[f]
      BY DiskTypes
    <2>2. Settled[f] = [d EXCEPT !.syncedStamp = d.stamp, !.syncedParts = d.parts]
      BY <2>1 DEF Settled
    <2>. QED BY <2>1, <2>2 DEF FileType
  <1>. QED BY <1>1 DEF Settled

\* What a start restores without hashing is on disk: the state file vouches for it.
LEMMA RestoredIsTrue ==
    CheckpointInv => \A p \in LoadedVerified \ excused : OnDisk(p)
  <1>. SUFFICES ASSUME CheckpointInv, NEW p \in LoadedVerified \ excused, NEW f \in Overlaps[p]
                PROVE  p \in disk[f].parts
    BY DEF OnDisk
  <1>1. p \in stateFile.verified /\ p \in Pieces /\ p \notin Recheck
    BY DEF LoadedVerified, CheckpointInv, ResumeTypeOK, PayloadTypeOK, StateType
  <1>2. f \in Files /\ stateFile.ids[f] # 0 /\ stateFile.ids[f] = disk[f].stamp
    BY <1>1, Constants DEF Recheck
  <1>. QED BY <1>1, <1>2 DEF CheckpointInv, RecordsAreTrue, Vouches

\* A start restores what the state file vouches for; everything on disk is
\* synced.
LEMMA StartInv == Settles /\ CheckpointInv /\ (\E force \in Rechecks : StartSession(force)) => CheckpointInv'
  <1>. SUFFICES ASSUME Settles, CheckpointInv, NEW force \in Rechecks, StartSession(force) PROVE CheckpointInv'
    OBVIOUS
  <1>t. ResumeTypeOK /\ RecordsTyped /\ clock \in Nat /\ disk \in [Files -> FileType]
    BY RecordTypes, DiskTypes DEF CheckpointInv
  <1>0. /\ UNCHANGED <<clock, edited, written, excused, stateFile, syncedState, plan, jobs, finishing>>
        /\ UNCHANGED <<unmarked, dirty, mapped, mappedDirty, flush>>
        /\ Up' /\ disk' = Settled /\ \A f \in Files : trusted'[f] = disk[f].stamp
        /\ held' \subseteq LoadedVerified
    BY DEF StartSession, stateFiles, bounds, Up
  <1>c. /\ finishing = {} /\ unmarked = {} /\ mapped = {} /\ mappedDirty = {}
        /\ edited = {} /\ written = {} /\ flush = Idle
        /\ \A p \in Pieces : jobs[p] = {}
        /\ \A f \in Files : dirty[f] = {}
    BY DEF CheckpointInv, DownIsClear, StartSession, Up
  <1>k. \/ checkpoint' = NoCheckpoint
        \/ checkpoint'.ids = stateFile.ids /\ checkpoint'.verified = stateFile.verified
    BY DEF StartSession, adoptCheckpoint
  <1>d. /\ disk' \in [Files -> FileType]
        /\ \A f \in Files : /\ disk'[f].stamp = disk[f].stamp /\ disk'[f].syncedStamp = disk[f].stamp
                            /\ disk'[f].parts = disk[f].parts /\ disk'[f].syncedParts = disk[f].parts
    BY <1>0, <1>t, SettledFacts
  <1>v. stateFile \in StateType /\ LoadedVerified \subseteq Pieces /\ stateFile.completed \subseteq Pieces
    BY <1>t DEF LoadedVerified, ResumeTypeOK, PayloadTypeOK, StateType
  <1>1. ResumeTypeOK'
    <2>1. PayloadTypeOK'
      BY <1>0, <1>t, <1>d DEF ResumeTypeOK, PayloadTypeOK
    <2>2. SessionTypeOK'
      <3>1. unverified' \subseteq Pieces /\ toHash' \subseteq Pieces /\ power' = "up"
        BY <1>v DEF StartSession
      <3>2. UNCHANGED <<paused, closing, stateDirty>>
        BY DEF StartSession
      <3>. QED BY <1>0, <1>t, <1>v, <3>1, <3>2 DEF ResumeTypeOK, SessionTypeOK
    <2>3. trusted' \in Ids
      BY <1>t DEF StartSession, Ids, FileType
    <2>4. checkpoint' \in [valid : BOOLEAN, complete : BOOLEAN, ids : Ids,
                           verified : SUBSET Pieces, completed : SUBSET Pieces]
      <3>1. adoptCheckpoint \in [valid : BOOLEAN, complete : BOOLEAN, ids : Ids,
                                 verified : SUBSET Pieces, completed : SUBSET Pieces]
        <4>1. TRUE \in BOOLEAN /\ (Recheck = {}) \in BOOLEAN
          OBVIOUS
        <4>. QED BY <1>v, <4>1 DEF adoptCheckpoint, StateType
      <3>. QED BY <3>1, NoCheckpointFacts DEF StartSession
    <2>5. unstamped' = unstamped
      BY DEF StartSession
    <2>6. StorageTypeOK'
      BY <1>0, <1>t, <2>3, <2>4, <2>5 DEF ResumeTypeOK, StorageTypeOK
    <2>. QED BY <2>1, <2>2, <2>6 DEF ResumeTypeOK
  <1>2. RecordsAreTrue'
    <2>1. Evolves(disk, disk', clock)
      BY <1>d DEF Evolves
    <2>2. /\ Vouches(disk', excused', stateFile.ids, stateFile.verified)
          /\ Vouches(disk', excused', syncedState.ids, syncedState.verified)
          /\ Vouches(disk', excused', flush.ids, flush.verified)
      BY <1>0, <1>t, <1>d, <2>1, VouchesKept DEF CheckpointInv, RecordsAreTrue,
         StampsArePast, Past, RecordsTyped
    <2>3. Vouches(disk', excused', checkpoint'.ids, checkpoint'.verified)
      BY <1>k, <2>2, NoCheckpointFacts, NothingVouched
    <2>. QED BY <1>0, <2>2, <2>3 DEF RecordsAreTrue
  <1>3. StampsArePast'
    <2>1. Past(checkpoint'.ids)
      <3>1. 0 <= clock
        BY <1>t
      <3>. QED BY <1>k, <3>1, NoCheckpointFacts DEF CheckpointInv, StampsArePast, Past
    <2>2. \A f \in Files : disk[f].stamp <= clock
      BY DEF CheckpointInv, StampsArePast
    <2>. QED BY <1>0, <1>d, <2>1, <2>2 DEF CheckpointInv, StampsArePast, Past
  <1>4. DownIsClear'
    BY <1>0 DEF DownIsClear
  <1>5. WritesAreNew'
    <2>1. \A p \in held' \cup finishing' : p \in Pieces
      BY <1>0, <1>c, <1>v
    <2>. QED BY <1>0, <1>c, <2>1 DEF WritesAreNew
  <1>6. ClaimsAreTrue'
    <2>1. ASSUME NEW f \in Files, NEW p \in Pieces \ excused, Claims(p, f)'
          PROVE  p \in disk'[f].parts
      <3>1. p \in LoadedVerified /\ f \in Overlaps[p]
        BY <1>0, <1>c, <2>1 DEF Claims
      <3>. QED BY <1>d, <2>1, <3>1, RestoredIsTrue DEF OnDisk
    <2>. QED BY <1>0, <1>c, <2>1, IdleFacts DEF ClaimsAreTrue
  <1>7. \A f \in Files : Unsynced(f)' = {}
    BY <1>d DEF Unsynced
  <1>8. SyncsAreOwed'
    BY <1>7 DEF SyncsAreOwed
  <1>9. FlushSyncs'
    BY <1>0, <1>c, <1>7, IdleFacts DEF FlushSyncs
  <1>. QED BY <1>1, <1>2, <1>3, <1>4, <1>5, <1>6, <1>8, <1>9 DEF CheckpointInv

----------------------------------------------------------------------------
(* Flushes                                                                 *)

FlushType == [stage : {"idle", "settle", "swap", "sweep", "hint"}, durable : BOOLEAN,
              verified : SUBSET Pieces, completed : SUBSET Pieces,
              taken : DirtyType, at : Nat \ {0}, before : Nat, ids : Ids]
CheckpointType == [valid : BOOLEAN, complete : BOOLEAN, ids : Ids,
                   verified : SUBSET Pieces, completed : SUBSET Pieces]

\* The types of what a flush reads and writes.
LEMMA FlushTypes ==
    ResumeTypeOK => /\ flush \in FlushType /\ checkpoint \in CheckpointType /\ dirty \in DirtyType
                    /\ held \subseteq Pieces /\ unverified \subseteq Pieces /\ trusted \in Ids
  BY DEF ResumeTypeOK, SessionTypeOK, StorageTypeOK, FlushType, CheckpointType

\* A flush takes down what is held, and starts.
LEMMA BeginFlushInv == CheckpointInv /\ BeginFlush => CheckpointInv'
  <1>. SUFFICES ASSUME CheckpointInv, BeginFlush PROVE CheckpointInv'
    OBVIOUS
  <1>0. /\ UNCHANGED <<disk, clock, edited, written, excused, stateFile, syncedState, plan, power, held, jobs>>
        /\ UNCHANGED <<finishing, unmarked, dirty, trusted, checkpoint, mapped, mappedDirty>>
        /\ Up /\ flush.stage = "idle"
    BY DEF BeginFlush, payload, stateFiles, storage, bounds
  <1>t. ResumeTypeOK /\ flush \in FlushType
    BY FlushTypes DEF CheckpointInv
  <1>f. /\ flush' \in FlushType /\ flush'.verified = held /\ flush'.at = 1 /\ flush'.before = 0
        /\ flush'.stage \in {"settle", "swap", "hint"}
        /\ flush'.stage = "settle" => plan.mmap
        /\ flush'.stage = "swap" => ~plan.mmap
        /\ \A f \in Files : flush'.taken[f] = {} /\ flush'.ids[f] = 0
    <2>1. PICK i \in FlushType : i = Idle
      BY IdleFacts DEF FlushType
    <2>2. PICK stage \in {"settle", "swap", "hint"} :
            /\ stage = IF plan.mmap THEN "settle" ELSE IF Quiescent THEN "swap" ELSE "hint"
            /\ stage = "settle" => plan.mmap
            /\ stage = "swap" => ~plan.mmap
      OBVIOUS
    <2>3. PICK q \in BOOLEAN : q = Quiescent
      BY DEF Quiescent
    <2>4. held \cup unverified \in SUBSET Pieces /\ held \in SUBSET Pieces
      BY <1>t, FlushTypes
    <2>5. flush' = [i EXCEPT !.stage = stage, !.durable = q, !.verified = held, !.completed = held \cup unverified]
      BY <2>1, <2>2, <2>3 DEF BeginFlush
    <2>. QED BY <2>1, <2>2, <2>4, <2>5, IdleFacts DEF FlushType
  <1>1. ResumeTypeOK'
    <2>1. SessionTypeOK'
      BY <1>t DEF BeginFlush, ResumeTypeOK, SessionTypeOK
    <2>2. PayloadTypeOK' /\ StorageTypeOK'
      BY <1>t, <1>f DEF BeginFlush, payload, stateFiles, storage, bounds, ResumeTypeOK,
         PayloadTypeOK, StorageTypeOK, FlushType
    <2>. QED BY <2>1, <2>2 DEF ResumeTypeOK
  <1>2. RecordsAreTrue'
    BY <1>0, <1>t, <1>1, <1>f, EvolvesNothing, RecordsKept DEF CheckpointInv
  <1>3. StampsArePast'
    <2>1. 0 <= clock
      BY <1>t, DiskTypes
    <2>. QED BY <1>0, <1>f, <2>1 DEF CheckpointInv, StampsArePast, Past
  <1>4. DownIsClear'
    BY <1>0 DEF DownIsClear, Up
  <1>5. WritesAreNew'
    BY <1>0 DEF CheckpointInv, WritesAreNew
  <1>6. ClaimsAreTrue'
    BY <1>0, <1>f DEF CheckpointInv, ClaimsAreTrue, Claims
  <1>7. \A f \in Files : Unsynced(f)' = Unsynced(f)
    BY <1>0 DEF Unsynced
  <1>8. SyncsAreOwed'
    BY <1>0, <1>7 DEF CheckpointInv, SyncsAreOwed, Up
  <1>9. FlushSyncs'
    <2>1. ASSUME NEW f \in Files, NEW p \in held \cap Unsynced(f), f \in Overlaps[p], ~plan.mmap
          PROVE  "sync" \in dirty[f]
      BY <1>0, <2>1 DEF CheckpointInv, SyncsAreOwed, WritesAreNew
    <2>. QED BY <1>0, <1>f, <1>7, <2>1 DEF FlushSyncs
  <1>. QED BY <1>1, <1>2, <1>3, <1>4, <1>5, <1>6, <1>8, <1>9 DEF CheckpointInv

\* The mappings are released before a checkpoint, and stamps move.
LEMMA ReleaseInv == CheckpointInv /\ ReleaseForCheckpoint => CheckpointInv'
  <1>. SUFFICES ASSUME CheckpointInv, ReleaseForCheckpoint PROVE CheckpointInv'
    OBVIOUS
  <1>. DEFINE wrote == {f \in mapped : f \in mappedDirty \/ "sync" \in dirty[f]}
              same == {f \in mapped \ wrote : disk[f].stamp = trusted[f]}
  <1>0. /\ UNCHANGED <<stateFile, syncedState, plan, power, held, jobs, finishing>>
        /\ UNCHANGED <<unmarked, trusted, checkpoint>>
        /\ Up /\ flush.stage = "settle" /\ mapped' = {} /\ mappedDirty' = mappedDirty \ wrote
        /\ Touches(same)
    BY DEF ReleaseForCheckpoint, Release, stateFiles, session, bounds
  <1>t. ResumeTypeOK /\ flush \in FlushType /\ dirty \in DirtyType /\ mapped \subseteq Files
    BY FlushTypes DEF CheckpointInv, ResumeTypeOK, StorageTypeOK
  <1>f. /\ flush' \in FlushType /\ flush'.stage = "swap" /\ flush'.ids = flush.ids /\ flush'.taken = flush.taken
        /\ flush'.verified = flush.verified /\ flush'.at = flush.at /\ flush'.before = flush.before
    BY <1>t DEF ReleaseForCheckpoint, FlushType
  <1>m. PICK S \in SUBSET Files : Moved(S)
    <2>1. PICK S \in SUBSET mapped : Ticks(S) /\ disk' = Stamped(S, disk)
      BY DEF ReleaseForCheckpoint, Release, Moves
    <2>2. S \subseteq Files
      BY <1>t, <2>1
    <2>. QED BY <1>t, <2>1, <2>2, MovedByTicks
  <1>k. /\ dirty' \in DirtyType
        /\ \A f \in Files : /\ "sync" \in dirty[f] \/ f \in wrote => "sync" \in dirty'[f]
                            /\ dirty[f] = {} /\ f \notin wrote /\ f \notin same => dirty'[f] = {}
    BY <1>t DEF ReleaseForCheckpoint, DirtyType
  <1>w. mappedDirty' = {} /\ mappedDirty \subseteq wrote /\ wrote \subseteq mapped /\ same \subseteq mapped
    BY <1>0 DEF CheckpointInv, WritesAreNew
  <1>n. \A f \in mapped : f \notin mappedDirty /\ dirty[f] = {} => f \notin wrote
    OBVIOUS
  <1>e. /\ written' = written \cup same /\ edited' = edited /\ excused \subseteq excused'
        /\ \A f \in same \cap edited : In(f) \subseteq excused'
        /\ written' \subseteq Files /\ excused' \subseteq Pieces
    BY <1>0, <1>t, <1>w, TouchesFacts
  <1>. HIDE DEF wrote, same
  <1>1. ResumeTypeOK'
    <2>1. PayloadTypeOK'
      BY <1>0, <1>t, <1>m, <1>e DEF Moved, ResumeTypeOK, PayloadTypeOK
    <2>2. SessionTypeOK'
      BY <1>t DEF ReleaseForCheckpoint, session, ResumeTypeOK, SessionTypeOK
    <2>3. unstamped' = {}
      BY DEF ReleaseForCheckpoint, Release
    <2>4. StorageTypeOK'
      BY <1>0, <1>t, <1>f, <1>k, <1>w, <2>3 DEF ResumeTypeOK, StorageTypeOK, FlushType
    <2>. QED BY <2>1, <2>2, <2>4 DEF ResumeTypeOK
  <1>2. RecordsAreTrue'
    BY <1>0, <1>t, <1>1, <1>m, <1>e, <1>f, MovedEvolves, RecordsKept DEF CheckpointInv
  <1>3. StampsArePast'
    BY <1>0, <1>t, <1>1, <1>m, <1>f, MovedStamps DEF CheckpointInv
  <1>4. DownIsClear'
    BY <1>0 DEF DownIsClear, Up
  <1>5. WritesAreNew'
    BY <1>0, <1>w DEF CheckpointInv, WritesAreNew, FlushSyncs
  <1>6. ClaimsAreTrue'
    <2>1. ASSUME NEW f \in Files, NEW p \in Pieces \ excused', Claims(p, f)'
          PROVE  p \in disk'[f].parts \/ f \in edited' \ written'
      <3>1. Claims(p, f) /\ p \notin excused /\ p \in In(f)
        BY <1>0, <1>e, <2>1 DEF Claims, In
      <3>2. p \in disk[f].parts \/ f \in edited \ written
        BY <3>1 DEF CheckpointInv, ClaimsAreTrue
      <3>. QED BY <1>e, <1>m, <3>1, <3>2 DEF Moved
    <2>2. \A f \in edited \ written : f \in Files /\ trusted[f] # disk[f].stamp /\ trusted[f] # clock + 1
      BY <1>t, NextIsNew DEF CheckpointInv, ClaimsAreTrue, ResumeTypeOK, PayloadTypeOK
    <2>3. \A f \in edited' \ written' : trusted'[f] # disk'[f].stamp
      BY <1>0, <1>m, <1>e, <2>2 DEF Moved
    <2>4. ASSUME NEW f \in Files, f \notin written'
          PROVE  /\ dirty'[f] = {} /\ flush'.taken[f] = {} /\ f \notin mappedDirty'
                 /\ \A p \in Pieces : <<p, f>> \notin unmarked'
                 /\ flush'.ids[f] # 0 => flush'.ids[f] = trusted'[f]
      <3>1. f \notin written /\ f \notin same
        BY <1>e, <2>4
      <3>2. /\ dirty[f] = {} /\ flush.taken[f] = {} /\ f \notin mappedDirty
            /\ \A p \in Pieces : <<p, f>> \notin unmarked
            /\ flush.ids[f] # 0 => flush.ids[f] = trusted[f]
        BY <3>1 DEF CheckpointInv, ClaimsAreTrue
      <3>3. f \notin wrote
        BY <1>n, <1>w, <3>2
      <3>. QED BY <1>0, <1>f, <1>k, <1>w, <3>1, <3>2, <3>3
    <2>. QED BY <2>1, <2>3, <2>4 DEF ClaimsAreTrue
  <1>7. \A f \in Files : Unsynced(f)' = Unsynced(f)
    BY <1>m DEF Unsynced, Moved
  <1>8. ASSUME NEW f \in Files, NEW p \in Unsynced(f)
        PROVE  /\ p \in held \cup finishing \/ jobs[p] # {}
               /\ f \in Overlaps[p] /\ (p \in held \cup finishing \/ f \notin jobs[p]) => "sync" \in dirty'[f]
    BY <1>0, <1>k, <1>w DEF CheckpointInv, SyncsAreOwed
  <1>9. SyncsAreOwed'
    BY <1>0, <1>7, <1>8 DEF SyncsAreOwed
  <1>10. FlushSyncs'
    <2>1. flush.verified \subseteq held /\ flush.at = 1 /\ flush.before = 0
          /\ \A f \in Files : flush.taken[f] = {} /\ flush.ids[f] = 0
      BY <1>0 DEF CheckpointInv, FlushSyncs
    <2>. QED BY <1>0, <1>f, <1>7, <1>8, <2>1 DEF FlushSyncs
  <1>. QED BY <1>1, <1>2, <1>3, <1>4, <1>5, <1>6, <1>9, <1>10 DEF CheckpointInv

\* The files written through mappings are stamped, for a hint.
LEMMA StampMappedInv == CheckpointInv /\ StampMapped => CheckpointInv'
  <1>. SUFFICES ASSUME CheckpointInv, StampMapped PROVE CheckpointInv'
    OBVIOUS
  <1>0. /\ UNCHANGED <<edited, written, excused, stateFile, syncedState, plan, power, held, jobs, finishing>>
        /\ UNCHANGED <<unmarked, trusted, checkpoint, mapped>>
        /\ Up /\ flush.stage = "settle" /\ mappedDirty' = {}
    BY DEF StampMapped, stateFiles, session, bounds
  <1>t. ResumeTypeOK /\ flush \in FlushType /\ dirty \in DirtyType
    BY FlushTypes DEF CheckpointInv
  <1>f. /\ flush' \in FlushType /\ flush'.stage = "hint" /\ flush'.ids = flush.ids /\ flush'.taken = flush.taken
        /\ flush'.verified = flush.verified /\ flush'.at = flush.at /\ flush'.before = flush.before
    BY <1>t DEF StampMapped, FlushType
  <1>m. Moved(mappedDirty)
    <2>1. mappedDirty \subseteq Files
      BY <1>t DEF ResumeTypeOK, StorageTypeOK
    <2>. QED BY <1>t, <2>1, MovedByTicks DEF StampMapped
  <1>k. /\ dirty' \in DirtyType
        /\ \A f \in Files : /\ "sync" \in dirty[f] \/ f \in mappedDirty => "sync" \in dirty'[f]
                            /\ dirty[f] = {} /\ f \notin mappedDirty => dirty'[f] = {}
    BY <1>t DEF StampMapped, DirtyType
  <1>1. ResumeTypeOK'
    <2>1. PayloadTypeOK'
      BY <1>0, <1>t, <1>m DEF Moved, ResumeTypeOK, PayloadTypeOK
    <2>2. SessionTypeOK'
      BY <1>t DEF StampMapped, session, ResumeTypeOK, SessionTypeOK
    <2>3. StorageTypeOK'
      BY <1>0, <1>t, <1>f, <1>k DEF StampMapped, ResumeTypeOK, StorageTypeOK, FlushType
    <2>. QED BY <2>1, <2>2, <2>3 DEF ResumeTypeOK
  <1>2. RecordsAreTrue'
    BY <1>0, <1>t, <1>1, <1>m, <1>f, MovedEvolves, RecordsKept DEF CheckpointInv
  <1>3. StampsArePast'
    BY <1>0, <1>t, <1>1, <1>m, <1>f, MovedStamps DEF CheckpointInv
  <1>4. DownIsClear'
    BY <1>0 DEF DownIsClear, Up
  <1>5. WritesAreNew'
    BY <1>0 DEF CheckpointInv, WritesAreNew
  <1>6. ClaimsAreTrue'
    <2>1. \A f \in edited \ written : f \in Files /\ trusted[f] # disk[f].stamp /\ trusted[f] # clock + 1
      BY <1>t, NextIsNew DEF CheckpointInv, ClaimsAreTrue, ResumeTypeOK, PayloadTypeOK
    <2>2. \A f \in edited' \ written' : trusted'[f] # disk'[f].stamp
      BY <1>0, <1>m, <2>1 DEF Moved
    <2>. QED BY <1>0, <1>f, <1>k, <1>m, <2>2 DEF CheckpointInv, ClaimsAreTrue, Claims, Moved
  <1>7. \A f \in Files : Unsynced(f)' = Unsynced(f)
    BY <1>m DEF Unsynced, Moved
  <1>8. SyncsAreOwed'
    BY <1>0, <1>k, <1>7 DEF CheckpointInv, SyncsAreOwed, Up
  <1>9. FlushSyncs'
    BY <1>0, <1>f, <1>7 DEF CheckpointInv, FlushSyncs
  <1>. QED BY <1>1, <1>2, <1>3, <1>4, <1>5, <1>6, <1>8, <1>9 DEF CheckpointInv

\* The stamps of the files written are trusted again; what has to be synced still has.
LEMMA RefreshFacts ==
    ASSUME CheckpointInv, RefreshDirty
    PROVE  /\ trusted' \in Ids /\ dirty' \in DirtyType /\ Past(trusted')
           /\ \A f \in Files : /\ "sync" \in dirty[f] => "sync" \in dirty'[f]
                               /\ dirty[f] = {} => dirty'[f] = {} /\ trusted'[f] = trusted[f]
  <1>t. ResumeTypeOK /\ disk \in [Files -> FileType] /\ trusted \in Ids /\ dirty \in DirtyType
    BY DiskTypes DEF CheckpointInv
  <1>1. \A f \in Files : disk[f].stamp \in Nat /\ disk[f].stamp <= clock /\ trusted[f] <= clock
    BY <1>t DEF CheckpointInv, StampsArePast, Past, FileType
  <1>2. \A f \in Files : trusted'[f] = IF "meta" \in dirty[f] THEN disk[f].stamp ELSE trusted[f]
    BY DEF RefreshDirty
  <1>3. trusted' \in Ids
    BY <1>t, <1>1 DEF RefreshDirty, Ids
  <1>4. Past(trusted')
    <2>1. \A f \in Files : trusted'[f] <= clock
      BY <1>1, <1>2
    <2>. QED BY <2>1 DEF Past
  <1>5. dirty' \in DirtyType /\ \A f \in Files : dirty'[f] = dirty[f] \ {"meta"}
    BY <1>t DEF RefreshDirty, DirtyType
  <1>. QED BY <1>2, <1>3, <1>4, <1>5

\* A flush ends: its file is dirty again if it was not recorded, and what is recorded
\* in its place is true.
FlushEnds ==
    /\ UNCHANGED <<disk, clock, edited, written, excused, plan, power, held, jobs, finishing>>
    /\ UNCHANGED <<unmarked, mapped, mappedDirty, unstamped, paused, closing, unverified, toHash>>
    /\ Up /\ flush' = Idle /\ stateDirty' \in BOOLEAN

\* The invariant after a flush has ended, whether it recorded anything or not.
LEMMA FlushEndsInv ==
    ASSUME CheckpointInv, FlushEnds,
           trusted' \in Ids, dirty' \in DirtyType, Past(trusted'),
           \A f \in Files : f \notin written => dirty'[f] = {} /\ trusted'[f] = trusted[f],
           \A f \in Files : "sync" \in dirty[f] \/ (flush.stage = "sweep" /\ Unswept(f)) => "sync" \in dirty'[f],
           stateFile' \in StateType, syncedState' \in StateType, checkpoint' \in CheckpointType,
           Past(stateFile'.ids), Past(syncedState'.ids), Past(checkpoint'.ids),
           Vouches(disk, excused, stateFile'.ids, stateFile'.verified),
           Vouches(disk, excused, syncedState'.ids, syncedState'.verified),
           Vouches(disk, excused, checkpoint'.ids, checkpoint'.verified)
    PROVE  CheckpointInv'
  <1>t. ResumeTypeOK /\ clock \in Nat
    BY DiskTypes DEF CheckpointInv
  <1>1. ResumeTypeOK'
    <2>1. PayloadTypeOK'
      BY <1>t DEF FlushEnds, ResumeTypeOK, PayloadTypeOK
    <2>2. SessionTypeOK'
      BY <1>t DEF FlushEnds, ResumeTypeOK, SessionTypeOK
    <2>3. StorageTypeOK'
      BY <1>t, IdleFacts DEF FlushEnds, ResumeTypeOK, StorageTypeOK, CheckpointType
    <2>. QED BY <2>1, <2>2, <2>3 DEF ResumeTypeOK
  <1>2. RecordsAreTrue'
    BY IdleFacts, NothingVouched DEF FlushEnds, RecordsAreTrue
  <1>3. StampsArePast'
    <2>1. 0 <= clock
      BY <1>t
    <2>. QED BY <2>1, IdleFacts DEF FlushEnds, CheckpointInv, StampsArePast, Past
  <1>4. DownIsClear'
    BY DEF FlushEnds, DownIsClear, Up
  <1>5. WritesAreNew'
    BY DEF FlushEnds, CheckpointInv, WritesAreNew
  <1>6. ClaimsAreTrue'
    <2>1. \A f \in edited \ written : f \in Files
      BY <1>t DEF ResumeTypeOK, PayloadTypeOK
    <2>. QED BY <2>1, IdleFacts DEF FlushEnds, CheckpointInv, ClaimsAreTrue, Claims
  <1>7. \A f \in Files : Unsynced(f)' = Unsynced(f)
    BY DEF FlushEnds, Unsynced
  <1>8. SyncsAreOwed'
    BY <1>7, IdleFacts DEF FlushEnds, CheckpointInv, SyncsAreOwed, Up
  <1>9. FlushSyncs'
    BY IdleFacts DEF FlushEnds, FlushSyncs
  <1>. QED BY <1>1, <1>2, <1>3, <1>4, <1>5, <1>6, <1>8, <1>9 DEF CheckpointInv

\* A hint vouches for no more than the last checkpoint.
LEMMA SaveHintInv == CheckpointInv /\ SaveHint => CheckpointInv'
  <1>. SUFFICES ASSUME CheckpointInv, SaveHint PROVE CheckpointInv'
    OBVIOUS
  <1>t. ResumeTypeOK /\ flush \in FlushType /\ checkpoint \in CheckpointType /\ clock \in Nat
    BY FlushTypes, DiskTypes DEF CheckpointInv
  <1>0. FlushEnds /\ flush.stage = "hint" /\ stateFile' = Hint /\ syncedState' = syncedState
        /\ checkpoint' = checkpoint
    BY <1>t DEF SaveHint, FlushEnds, payload, session, bounds, ResumeTypeOK, SessionTypeOK
  <1>1. /\ Hint.verified = checkpoint.verified \cap flush.verified
        /\ \A f \in Files : Hint.ids[f] \in {0, checkpoint.ids[f]}
    BY DEF Hint, StillHeld
  <1>2. Hint \in StateType
    <2>1. Hint.ids \in Ids
      BY <1>t DEF Hint, Ids, CheckpointType
    <2>2. TRUE \in BOOLEAN
      OBVIOUS
    <2>. QED BY <1>t, <2>1, <2>2 DEF Hint, StillHeld, StateType, CheckpointType, FlushType
  <1>3. Vouches(disk, excused, Hint.ids, Hint.verified)
    BY <1>1, VouchesLess DEF CheckpointInv, RecordsAreTrue
  <1>4. Past(Hint.ids)
    <2>1. 0 <= clock
      BY <1>t
    <2>. QED BY <1>1, <2>1 DEF CheckpointInv, StampsArePast, Past
  <1>5. /\ syncedState \in StateType /\ Past(syncedState.ids) /\ Past(checkpoint.ids)
        /\ Vouches(disk, excused, syncedState.ids, syncedState.verified)
        /\ Vouches(disk, excused, checkpoint.ids, checkpoint.verified)
    BY <1>t DEF CheckpointInv, StampsArePast, RecordsAreTrue, ResumeTypeOK, PayloadTypeOK
  <1>6. \A f \in Files : f \notin written => dirty[f] = {}
    BY DEF CheckpointInv, ClaimsAreTrue
  <1>7. RefreshDirty
    BY DEF SaveHint
  <1>. QED BY <1>0, <1>t, <1>2, <1>3, <1>4, <1>5, <1>6, <1>7, RefreshFacts, FlushEndsInv

\* Some or all files are dirty again.
LEMMA PendingFacts ==
    ASSUME CheckpointInv, NEW wrote \in BOOLEAN, dirty' = Pending(wrote)
    PROVE  /\ dirty' \in DirtyType
           /\ \A f \in Files : /\ "sync" \in dirty[f] => "sync" \in dirty'[f]
                               /\ "sync" \in flush.taken[f] /\ flush.ids[f] = 0 => "sync" \in dirty'[f]
                               /\ f \notin written => dirty'[f] = {}
  <1>t. flush \in FlushType /\ dirty \in DirtyType
    BY FlushTypes DEF CheckpointInv
  <1>1. dirty' \in DirtyType
    BY <1>t DEF Pending, DirtyType, FlushType
  <1>2. \A f \in Files :
          dirty'[f] = IF wrote /\ flush.ids[f] # 0 THEN dirty[f] ELSE dirty[f] \cup flush.taken[f]
    BY DEF Pending
  <1>3. \A f \in Files : f \notin written => dirty[f] = {} /\ flush.taken[f] = {}
    BY DEF CheckpointInv, ClaimsAreTrue
  <1>. QED BY <1>1, <1>2, <1>3

\* A swept file that was not recorded has no stamp.
LEMMA SweptFacts ==
    CheckpointInv /\ Swept => \A f \in Files : Unswept(f) => "sync" \in flush.taken[f] /\ flush.ids[f] = 0
  <1>. SUFFICES ASSUME CheckpointInv, Swept, NEW f \in Files, Unswept(f)
                PROVE  "sync" \in flush.taken[f] /\ flush.ids[f] = 0
    OBVIOUS
  <1>1. f \in Nat /\ f <= NumFiles /\ flush.at \in Nat /\ NumFiles \in Nat /\ flush.at > NumFiles
    BY Constants, FlushTypes, ResumeAssumption DEF CheckpointInv, FlushType, Swept
  <1>2. ~(f >= flush.at)
    BY <1>1
  <1>. QED BY <1>2 DEF Unswept

\* A checkpoint vouches for what the sweep found, and owes what it could not
\* record.
LEMMA SaveCheckpointInv == CheckpointInv /\ SaveCheckpoint => CheckpointInv'
  <1>. SUFFICES ASSUME CheckpointInv, SaveCheckpoint PROVE CheckpointInv'
    OBVIOUS
  <1>t. ResumeTypeOK /\ flush \in FlushType /\ trusted \in Ids
    BY FlushTypes DEF CheckpointInv
  <1>0. FlushEnds /\ Swept /\ dirty' = Pending(TRUE) /\ syncedState' = stateFile'
    BY <1>t DEF SaveCheckpoint, Swept, FlushEnds, payload, session, bounds,
       ResumeTypeOK, SessionTypeOK
  <1>1. /\ stateFile' \in StateType /\ stateFile'.ids = flush.ids /\ stateFile'.verified = flush.verified
        /\ checkpoint' \in CheckpointType /\ checkpoint'.ids = flush.ids /\ checkpoint'.verified = flush.verified
    <2>1. PICK all \in BOOLEAN : all = (\A f \in Files : flush.ids[f] # 0)
      OBVIOUS
    <2>2. checkpoint' = [valid |-> TRUE, complete |-> all, ids |-> flush.ids,
                         verified |-> flush.verified, completed |-> flush.completed]
      BY <2>1 DEF SaveCheckpoint
    <2>3. stateFile' = [is |-> TRUE, ids |-> flush.ids, verified |-> flush.verified, completed |-> flush.completed]
      BY DEF SaveCheckpoint
    <2>4. TRUE \in BOOLEAN
      OBVIOUS
    <2>. QED BY <1>t, <2>1, <2>2, <2>3, <2>4 DEF StateType, CheckpointType, FlushType
  <1>2. Vouches(disk, excused, flush.ids, flush.verified) /\ Past(flush.ids) /\ Past(trusted)
    BY DEF CheckpointInv, RecordsAreTrue, StampsArePast
  <1>3. \A f \in Files : trusted'[f] = IF flush.ids[f] # 0 THEN flush.ids[f] ELSE trusted[f]
    BY DEF SaveCheckpoint
  <1>4. trusted' \in Ids
    BY <1>t DEF SaveCheckpoint, Ids, FlushType
  <1>5. Past(trusted')
    BY <1>0, <1>2, <1>3 DEF Past
  <1>6. \A f \in Files : f \notin written => trusted'[f] = trusted[f]
    BY <1>3 DEF CheckpointInv, ClaimsAreTrue
  <1>7. /\ dirty' \in DirtyType
        /\ \A f \in Files : /\ f \notin written => dirty'[f] = {}
                            /\ "sync" \in dirty[f] \/ Unswept(f) => "sync" \in dirty'[f]
    BY <1>0, PendingFacts, SweptFacts
  <1>. QED BY <1>0, <1>1, <1>2, <1>4, <1>5, <1>6, <1>7, FlushEndsInv

\* A flush that fails leaves the files it took dirty.
LEMMA FlushFailsInv == CheckpointInv /\ FlushFails => CheckpointInv'
  <1>. SUFFICES ASSUME CheckpointInv, FlushFails PROVE CheckpointInv'
    OBVIOUS
  <1>t. ResumeTypeOK /\ flush \in FlushType /\ trusted \in Ids /\ checkpoint \in CheckpointType
    BY FlushTypes DEF CheckpointInv
  <1>0. FlushEnds /\ UNCHANGED <<stateFile, syncedState, checkpoint>>
    BY DEF FlushFails, Fault, FlushEnds, payload, stateFiles
  <1>1. /\ stateFile \in StateType /\ syncedState \in StateType
        /\ Past(stateFile.ids) /\ Past(syncedState.ids) /\ Past(checkpoint.ids) /\ Past(trusted)
        /\ Vouches(disk, excused, stateFile.ids, stateFile.verified)
        /\ Vouches(disk, excused, syncedState.ids, syncedState.verified)
        /\ Vouches(disk, excused, checkpoint.ids, checkpoint.verified)
    BY <1>t DEF CheckpointInv, StampsArePast, RecordsAreTrue, ResumeTypeOK, PayloadTypeOK
  <1>2. \A f \in Files : f \notin written => dirty[f] = {}
    BY DEF CheckpointInv, ClaimsAreTrue
  <1>3. CASE flush.stage = "hint" /\ RefreshDirty
    BY <1>0, <1>t, <1>1, <1>2, <1>3, RefreshFacts, FlushEndsInv
  <1>4. CASE Swept /\ dirty' = Pending(FALSE) /\ trusted' = trusted
    <2>1. /\ dirty' \in DirtyType
          /\ \A f \in Files : /\ f \notin written => dirty'[f] = {}
                              /\ "sync" \in dirty[f] \/ Unswept(f) => "sync" \in dirty'[f]
      <3>1. FALSE \in BOOLEAN
        OBVIOUS
      <3>. QED BY <1>4, <3>1, PendingFacts, SweptFacts
    <2>2. Past(trusted')
      BY <1>0, <1>1, <1>4 DEF Past
    <2>. QED BY <1>0, <1>t, <1>1, <1>4, <2>1, <2>2, FlushEndsInv
  <1>. QED BY <1>3, <1>4 DEF FlushFails

\* The files to sync are taken, or there is nothing to save.
LEMMA SwapDirtyInv == CheckpointInv /\ SwapDirty => CheckpointInv'
  <1>. SUFFICES ASSUME CheckpointInv, SwapDirty PROVE CheckpointInv'
    OBVIOUS
  <1>t. ResumeTypeOK /\ flush \in FlushType /\ dirty \in DirtyType /\ trusted \in Ids /\ checkpoint \in CheckpointType
    BY FlushTypes DEF CheckpointInv
  <1>r. /\ stateFile \in StateType /\ syncedState \in StateType
        /\ Past(stateFile.ids) /\ Past(syncedState.ids) /\ Past(checkpoint.ids) /\ Past(trusted)
        /\ Vouches(disk, excused, stateFile.ids, stateFile.verified)
        /\ Vouches(disk, excused, syncedState.ids, syncedState.verified)
        /\ Vouches(disk, excused, checkpoint.ids, checkpoint.verified)
    BY <1>t DEF CheckpointInv, StampsArePast, RecordsAreTrue, ResumeTypeOK, PayloadTypeOK
  <1>n. \A f \in Files : f \notin written => dirty[f] = {}
    BY DEF CheckpointInv, ClaimsAreTrue
  <1>a. CASE flush' = Idle /\ dirty' = dirty
    <2>1. FlushEnds /\ UNCHANGED <<stateFile, syncedState, checkpoint, trusted>> /\ flush.stage = "swap"
      BY <1>t, <1>a DEF SwapDirty, FlushEnds, payload, stateFiles, session, bounds,
         ResumeTypeOK, SessionTypeOK
    <2>2. Past(trusted')
      BY <1>r, <2>1 DEF FlushEnds, Past
    <2>. QED BY <1>t, <1>r, <1>n, <1>a, <2>1, <2>2, FlushEndsInv
  <1>b. CASE flush' = [flush EXCEPT !.stage = "sweep", !.taken = dirty] /\ dirty' = [f \in Files |-> {}]
    <2>0. /\ UNCHANGED <<disk, clock, edited, written, excused, stateFile, syncedState, plan, power, held, jobs>>
          /\ UNCHANGED <<finishing, unmarked, trusted, checkpoint, mapped, mappedDirty>>
          /\ Up /\ flush.stage = "swap"
      BY DEF SwapDirty, payload, stateFiles, session, bounds
    <2>f. /\ flush' \in FlushType /\ flush'.stage = "sweep" /\ flush'.ids = flush.ids /\ flush'.taken = dirty
          /\ flush'.verified = flush.verified /\ flush'.at = flush.at /\ flush'.before = flush.before
      BY <1>t, <1>b DEF FlushType
    <2>k. dirty' \in DirtyType /\ \A f \in Files : dirty'[f] = {}
      BY <1>b DEF DirtyType
    <2>s. /\ flush.verified \subseteq held /\ flush.at = 1 /\ flush.before = 0
          /\ \A f \in Files : flush.taken[f] = {} /\ flush.ids[f] = 0
      BY <2>0 DEF CheckpointInv, FlushSyncs
    <2>1. ResumeTypeOK'
      <3>1. SessionTypeOK'
        BY <1>t DEF SwapDirty, session, ResumeTypeOK, SessionTypeOK
      <3>2. PayloadTypeOK' /\ StorageTypeOK'
        BY <1>t, <2>0, <2>f, <2>k DEF SwapDirty, ResumeTypeOK, PayloadTypeOK,
           StorageTypeOK, FlushType
      <3>. QED BY <3>1, <3>2 DEF ResumeTypeOK
    <2>2. RecordsAreTrue'
      BY <1>t, <2>0, <2>1, <2>f, EvolvesNothing, RecordsKept DEF CheckpointInv
    <2>3. StampsArePast'
      BY <2>0, <2>f DEF CheckpointInv, StampsArePast, Past
    <2>4. DownIsClear'
      BY <2>0 DEF DownIsClear, Up
    <2>5. WritesAreNew'
      BY <2>0 DEF CheckpointInv, WritesAreNew
    <2>6. ClaimsAreTrue'
      BY <1>n, <2>0, <2>f, <2>k DEF CheckpointInv, ClaimsAreTrue, Claims
    <2>7. \A f \in Files : /\ Unsynced(f)' = Unsynced(f)
                           /\ "sync" \in dirty[f] => Unswept(f)'
      <3>1. \A f \in Files : f \in Nat /\ f >= 1
        BY Constants
      <3>. QED BY <2>0, <2>f, <2>s, <3>1 DEF Unsynced, Unswept
    <2>8. SyncsAreOwed'
      <3>. SUFFICES ASSUME NEW f \in Files, NEW p \in Unsynced(f)
                    PROVE  /\ p \in held \cup finishing \/ jobs[p] # {}
                           /\ f \in Overlaps[p] /\ (p \in held \cup finishing \/ f \notin jobs[p]) =>
                                f \in mappedDirty \/ Unswept(f)'
        BY <2>0, <2>f, <2>7 DEF SyncsAreOwed
      <3>. QED BY <2>0, <2>7 DEF CheckpointInv, SyncsAreOwed
    <2>9. FlushSyncs'
      <3>1. \A f \in Files : \A p \in flush.verified \cap Unsynced(f) :
              f \in Overlaps[p] => "sync" \in dirty[f]
        BY <2>0 DEF CheckpointInv, FlushSyncs
      <3>2. \A f \in Files : flush'.ids[f] = 0
        BY <2>f, <2>s
      <3>. QED BY <2>0, <2>f, <2>s, <2>7, <3>1, <3>2 DEF FlushSyncs
    <2>. QED BY <2>1, <2>2, <2>3, <2>4, <2>5, <2>6, <2>8, <2>9 DEF CheckpointInv
  <1>. QED BY <1>a, <1>b DEF SwapDirty

\* A file is looked at before it is synced.
LEMMA StatBeforeInv == CheckpointInv /\ StatBefore => CheckpointInv'
  <1>. SUFFICES ASSUME CheckpointInv, StatBefore PROVE CheckpointInv'
    OBVIOUS
  <1>0. /\ UNCHANGED <<disk, clock, edited, written, excused, stateFile, syncedState, plan, power, held, jobs>>
        /\ UNCHANGED <<finishing, unmarked, dirty, trusted, checkpoint, mapped, mappedDirty, unstamped>>
        /\ UNCHANGED <<unverified, toHash, paused, closing, stateDirty>>
        /\ Up /\ flush.stage = "sweep"
    BY DEF StatBefore, Sweeping, payload, stateFiles, session, storage, bounds
  <1>t. ResumeTypeOK /\ flush \in FlushType
    BY FlushTypes DEF CheckpointInv
  <1>a. flush.at \in Files
    <2>1. flush.at \in Nat \ {0} /\ flush.at <= NumFiles /\ NumFiles \in Nat
      BY <1>t, ResumeAssumption DEF FlushType, StatBefore, Sweeping
    <2>. QED BY <2>1 DEF Files
  <1>b. disk[flush.at].stamp \in Nat /\ disk[flush.at].stamp <= clock
    BY <1>t, <1>a, DiskTypes DEF FileType, CheckpointInv, StampsArePast
  <1>f. /\ flush' \in FlushType /\ flush'.stage = "sweep" /\ flush'.ids = flush.ids /\ flush'.taken = flush.taken
        /\ flush'.verified = flush.verified /\ flush'.at = flush.at /\ flush'.before = disk[flush.at].stamp
    BY <1>0, <1>t, <1>b DEF StatBefore, FlushType
  <1>1. ResumeTypeOK'
    BY <1>0, <1>t, <1>f DEF ResumeTypeOK, PayloadTypeOK, SessionTypeOK, StorageTypeOK, FlushType
  <1>2. RecordsAreTrue'
    BY <1>0, <1>t, <1>1, <1>f, EvolvesNothing, RecordsKept DEF CheckpointInv
  <1>3. StampsArePast'
    BY <1>0, <1>b, <1>f DEF CheckpointInv, StampsArePast, Past
  <1>4. DownIsClear' /\ WritesAreNew'
    BY <1>0 DEF CheckpointInv, DownIsClear, WritesAreNew, Up
  <1>5. ClaimsAreTrue'
    BY <1>0, <1>f DEF CheckpointInv, ClaimsAreTrue, Claims
  <1>6. SyncsAreOwed' /\ FlushSyncs'
    BY <1>0, <1>f DEF CheckpointInv, SyncsAreOwed, FlushSyncs, Unsynced, Unswept, Up
  <1>. QED BY <1>1, <1>2, <1>3, <1>4, <1>5, <1>6 DEF CheckpointInv

\* Nothing but what is on stable storage of file f moves.
LEMMA SyncedFacts ==
    ASSUME ResumeTypeOK, NEW f \in Files
    PROVE  /\ Synced(f) \in [Files -> FileType]
           /\ Synced(f)[f].stamp = disk[f].stamp /\ Synced(f)[f].parts = disk[f].parts
           /\ Synced(f)[f].syncedStamp = disk[f].stamp /\ Synced(f)[f].syncedParts = disk[f].parts
           /\ \A g \in Files : g # f => Synced(f)[g] = disk[g]
  <1>1. disk \in [Files -> FileType]
    BY DiskTypes
  <1>2. PICK d \in FileType : d = disk[f]
    BY <1>1
  <1>3. Synced(f) = [disk EXCEPT ![f] = [d EXCEPT !.syncedStamp = d.stamp, !.syncedParts = d.parts]]
    BY <1>1, <1>2 DEF Synced, FileType
  <1>4. [d EXCEPT !.syncedStamp = d.stamp, !.syncedParts = d.parts] \in FileType
    BY <1>2 DEF FileType
  <1>5. Synced(f) \in [Files -> FileType]
    BY <1>1, <1>3, <1>4
  <1>6. Synced(f)[f] = [d EXCEPT !.syncedStamp = d.stamp, !.syncedParts = d.parts]
    BY <1>1, <1>3
  <1>7. /\ Synced(f)[f].stamp = d.stamp /\ Synced(f)[f].parts = d.parts
        /\ Synced(f)[f].syncedStamp = d.stamp /\ Synced(f)[f].syncedParts = d.parts
    BY <1>6 DEF FileType
  <1>. QED BY <1>1, <1>2, <1>3, <1>5, <1>7

\* A file whose stamp is recorded has every piece the flush is to record, or is
\* about to be synced with it.
LEMMA RecordedIsThere ==
    ASSUME CheckpointInv, flush.stage = "sweep", flush.at \in Files, Trustworthy(flush.at),
           NEW p \in flush.verified \ excused, flush.at \in Overlaps[p]
    PROVE  /\ p \in disk[flush.at].parts
           /\ p \in disk[flush.at].syncedParts \/ "sync" \in flush.taken[flush.at]
  <1>. DEFINE f == flush.at
  <1>1. p \in held /\ p \in Pieces
    BY FlushTypes DEF CheckpointInv, FlushSyncs
  <1>2. p \in disk[f].parts \/ f \in edited \ written
    BY <1>1 DEF CheckpointInv, ClaimsAreTrue, Claims
  <1>3. f \notin edited \ written
    <2>1. f \in edited \ written => flush.taken[f] = {} /\ trusted[f] # disk[f].stamp
      BY DEF CheckpointInv, ClaimsAreTrue
    <2>. QED BY <2>1 DEF Trustworthy
  <1>4. p \in disk[f].syncedParts \/ "sync" \in flush.taken[f]
    <2>1. p \in Unsynced(f) => Unswept(f)
      BY DEF CheckpointInv, FlushSyncs
    <2>. QED BY <1>2, <1>3, <2>1 DEF Unsynced, Unswept
  <1>. QED BY <1>2, <1>3, <1>4

\* A file is synced, and its stamp recorded if nobody touched it meanwhile; or the
\* sync fails.
LEMMA SyncAndStatInv == CheckpointInv /\ SyncAndStat => CheckpointInv'
  <1>. SUFFICES ASSUME CheckpointInv, SyncAndStat PROVE CheckpointInv'
    OBVIOUS
  <1>0. /\ UNCHANGED <<clock, edited, written, excused, stateFile, syncedState, plan, power, held, jobs>>
        /\ UNCHANGED <<finishing, unmarked, dirty, trusted, checkpoint, mapped, mappedDirty, unstamped>>
        /\ UNCHANGED <<unverified, toHash, paused, closing, stateDirty>>
        /\ Up /\ flush.stage = "sweep"
    BY DEF SyncAndStat, Sweeping, Fault, stateFiles, session, storage, bounds
  <1>t. ResumeTypeOK /\ flush \in FlushType /\ disk \in [Files -> FileType] /\ clock \in Nat
    BY FlushTypes, DiskTypes DEF CheckpointInv
  <1>a. PICK f \in Files : f = flush.at /\ f \in Nat /\ f + 1 \in Nat \ {0}
    <2>1. flush.at \in Nat \ {0} /\ flush.at <= NumFiles /\ NumFiles \in Nat
      BY <1>t, ResumeAssumption DEF FlushType, SyncAndStat, Sweeping
    <2>. QED BY <2>1 DEF Files
  <1>z. flush.ids[f] = 0
    <2>1. ~(f < f)
      BY <1>a
    <2>. QED BY <1>a, <2>1 DEF CheckpointInv, FlushSyncs
  <1>f. /\ flush' \in FlushType /\ flush'.stage = "sweep" /\ flush'.taken = flush.taken
        /\ flush'.verified = flush.verified /\ flush'.at = f + 1 /\ flush'.before = 0
        /\ \A g \in Files : g # f => flush'.ids[g] = flush.ids[g]
        /\ \/ /\ flush'.ids[f] = IF Trustworthy(f) THEN flush.before ELSE 0
              /\ disk' = IF "sync" \in flush.taken[f] THEN Synced(f) ELSE disk
           \/ flush'.ids[f] = 0 /\ disk' = disk
    <2>0. flush.ids \in [Files -> Nat] /\ flush.before \in Nat
      BY <1>t DEF FlushType, Ids
    <2>1. CASE /\ flush' = [flush EXCEPT !.at = f + 1, !.before = 0,
                                         !.ids[f] = IF Trustworthy(f) THEN flush.before ELSE 0]
               /\ disk' = IF "sync" \in flush.taken[f] THEN Synced(f) ELSE disk
      <3>1. PICK id \in Nat : id = IF Trustworthy(f) THEN flush.before ELSE 0
        BY <2>0
      <3>2. PICK ids \in Ids : ids = [flush.ids EXCEPT ![f] = id]
        BY <2>0, <3>1 DEF Ids
      <3>3. flush' = [flush EXCEPT !.at = f + 1, !.before = 0, !.ids = ids]
        BY <1>t, <2>1, <3>1, <3>2 DEF FlushType
      <3>4. /\ flush' \in FlushType /\ flush'.stage = flush.stage /\ flush'.taken = flush.taken
            /\ flush'.verified = flush.verified /\ flush'.at = f + 1 /\ flush'.before = 0 /\ flush'.ids = ids
        BY <1>t, <1>a, <3>3 DEF FlushType
      <3>5. ids[f] = id /\ \A g \in Files : g # f => ids[g] = flush.ids[g]
        BY <1>a, <2>0, <3>2
      <3>. QED BY <1>0, <2>1, <3>1, <3>4, <3>5
    <2>2. CASE flush' = [flush EXCEPT !.at = f + 1, !.before = 0] /\ disk' = disk
      BY <1>0, <1>t, <1>a, <1>z, <2>2 DEF FlushType
    <2>. QED BY <1>a, <2>1, <2>2 DEF SyncAndStat
  <1>d. /\ disk' \in [Files -> FileType]
        /\ \A g \in Files : /\ disk'[g].stamp = disk[g].stamp /\ disk'[g].parts = disk[g].parts
                            /\ \/ disk'[g].syncedStamp = disk[g].syncedStamp /\ disk'[g].syncedParts = disk[g].syncedParts
                               \/ disk'[g].syncedStamp = disk[g].stamp /\ disk'[g].syncedParts = disk[g].parts
    BY <1>t, <1>a, <1>f, SyncedFacts
  <1>g. \A g \in Files : Unsynced(g)' \subseteq Unsynced(g)
    BY <1>d DEF Unsynced
  <1>i. flush'.ids[f] # 0 =>
          /\ Trustworthy(f) /\ flush'.ids[f] = flush.before /\ flush.before = disk[f].stamp
          /\ "sync" \in flush.taken[f] => disk'[f].syncedParts = disk[f].parts
    BY <1>t, <1>a, <1>f, SyncedFacts DEF Trustworthy
  <1>1. ResumeTypeOK'
    BY <1>0, <1>t, <1>f, <1>d DEF ResumeTypeOK, PayloadTypeOK, SessionTypeOK,
       StorageTypeOK, FlushType
  <1>2. RecordsAreTrue'
    <2>1. Evolves(disk, disk', clock)
      BY <1>d DEF Evolves
    <2>2. /\ Vouches(disk', excused, stateFile.ids, stateFile.verified)
          /\ Vouches(disk', excused, syncedState.ids, syncedState.verified)
          /\ Vouches(disk', excused, checkpoint.ids, checkpoint.verified)
          /\ Vouches(disk', excused, flush.ids, flush.verified)
      BY <1>t, <1>d, <2>1, RecordTypes, VouchesKept
         DEF CheckpointInv, RecordsAreTrue, StampsArePast, Past, RecordsTyped
    <2>3. ASSUME NEW p \in flush.verified \ excused, f \in Overlaps[p], flush'.ids[f] # 0
          PROVE  p \in disk'[f].parts /\ p \in disk'[f].syncedParts
      <3>1. p \in disk[f].parts /\ (p \in disk[f].syncedParts \/ "sync" \in flush.taken[f])
        BY <1>0, <1>a, <1>i, <2>3, RecordedIsThere
      <3>. QED BY <1>a, <1>d, <1>i, <2>3, <3>1
    <2>4. Vouches(disk', excused, flush'.ids, flush'.verified)
      <3>. SUFFICES ASSUME NEW g \in Files, NEW p \in flush.verified \ excused, g \in Overlaps[p], flush'.ids[g] # 0
                    PROVE  /\ disk'[g].stamp = flush'.ids[g] => p \in disk'[g].parts /\ p \in disk'[g].syncedParts
                           /\ disk'[g].syncedStamp = flush'.ids[g] => p \in disk'[g].syncedParts
        BY <1>f DEF Vouches
      <3>1. CASE g = f
        BY <2>3, <3>1
      <3>2. CASE g # f
        BY <1>f, <2>2, <3>2 DEF Vouches
      <3>. QED BY <3>1, <3>2
    <2>. QED BY <1>0, <2>2, <2>4 DEF RecordsAreTrue
  <1>3. StampsArePast'
    <2>1. 0 <= clock
      BY <1>t
    <2>2. \A g \in Files : flush'.ids[g] <= clock
      BY <1>f, <2>1 DEF CheckpointInv, StampsArePast, Past
    <2>3. \A g \in Files : disk'[g].stamp <= clock /\ disk'[g].syncedStamp <= clock
      BY <1>d DEF CheckpointInv, StampsArePast
    <2>. QED BY <1>0, <1>f, <2>1, <2>2, <2>3 DEF CheckpointInv, StampsArePast, Past
  <1>4. DownIsClear' /\ WritesAreNew'
    BY <1>0 DEF CheckpointInv, DownIsClear, WritesAreNew, Up
  <1>5. ClaimsAreTrue'
    <2>1. \A g \in edited \ written : g \in Files
      BY <1>t DEF ResumeTypeOK, PayloadTypeOK
    <2>2. ASSUME NEW g \in Files, g \notin written, flush'.ids[g] # 0 PROVE flush'.ids[g] = trusted[g]
      <3>1. CASE g # f
        BY <1>f, <2>2, <3>1 DEF CheckpointInv, ClaimsAreTrue
      <3>2. CASE g = f
        <4>1. flush.taken[f] = {}
          BY <1>a, <2>2, <3>2 DEF CheckpointInv, ClaimsAreTrue
        <4>. QED BY <1>i, <2>2, <3>2, <4>1 DEF Trustworthy
      <3>. QED BY <3>1, <3>2
    <2>. QED BY <1>0, <1>f, <1>d, <2>1, <2>2 DEF CheckpointInv, ClaimsAreTrue, Claims
  <1>6. ASSUME NEW g \in Files, Unswept(g), NEW p \in Unsynced(g)' PROVE Unswept(g)'
    <2>1. "sync" \in flush.taken[g] /\ (g >= f \/ flush.ids[g] = 0)
      BY <1>a, <1>6 DEF Unswept
    <2>2. CASE g # f
      <3>0. f \in Nat /\ g \in Nat
        BY Constants
      <3>1. g >= f => g >= f + 1
        BY <2>2, <3>0
      <3>. QED BY <1>f, <2>1, <2>2, <3>1 DEF Unswept
    <2>3. CASE g = f
      <3>1. flush'.ids[f] # 0 => Unsynced(f)' = {}
        BY <1>a, <1>d, <1>i, <2>1, <2>3 DEF Unsynced
      <3>2. flush'.ids[f] = 0
        BY <1>6, <2>3, <3>1
      <3>. QED BY <1>f, <2>1, <2>3, <3>2 DEF Unswept
    <2>. QED BY <2>2, <2>3
  <1>7. SyncsAreOwed'
    <2>. SUFFICES ASSUME NEW g \in Files, NEW p \in Unsynced(g)'
                  PROVE  /\ p \in held \cup finishing \/ jobs[p] # {}
                         /\ g \in Overlaps[p] /\ (p \in held \cup finishing \/ g \notin jobs[p]) =>
                              "sync" \in dirty[g] \/ g \in mappedDirty \/ Unswept(g)'
      BY <1>0, <1>f DEF SyncsAreOwed
    <2>1. p \in Unsynced(g)
      BY <1>g
    <2>. QED BY <1>0, <1>6, <2>1 DEF CheckpointInv, SyncsAreOwed
  <1>8. FlushSyncs'
    <2>1. \A g \in Files : flush'.ids[g] # 0 => g < f + 1
      <3>0. f \in Nat /\ \A g \in Files : g \in Nat
        BY Constants
      <3>1. \A g \in Files : g < f => g < f + 1
        BY <3>0
      <3>2. f < f + 1
        BY <1>a
      <3>3. \A g \in Files : flush.ids[g] # 0 => g < f
        BY <1>a DEF CheckpointInv, FlushSyncs
      <3>. QED BY <1>f, <3>1, <3>2, <3>3
    <2>2. flush.verified \subseteq held
      BY <1>0 DEF CheckpointInv, FlushSyncs
    <2>3. ASSUME NEW g \in Files, NEW p \in flush.verified \cap Unsynced(g)', g \in Overlaps[p]
          PROVE  Unswept(g)'
      <3>1. Unswept(g)
        BY <1>0, <1>g, <2>3 DEF CheckpointInv, FlushSyncs
      <3>. QED BY <1>6, <2>3, <3>1
    <2>. QED BY <1>0, <1>f, <2>1, <2>2, <2>3 DEF FlushSyncs
  <1>. QED BY <1>1, <1>2, <1>3, <1>4, <1>5, <1>7, <1>8 DEF CheckpointInv

----------------------------------------------------------------------------
(* The theorem                                                             *)

\* Nothing is recorded, claimed or owed at first.
LEMMA CheckpointInitially == ResumeInit => CheckpointInv
  <1>. SUFFICES ASSUME ResumeInit PROVE CheckpointInv
    OBVIOUS
  <1>0. /\ \A f \in Files : /\ disk[f].stamp = 1 /\ disk[f].parts = {}
                            /\ disk[f].syncedStamp = 1 /\ disk[f].syncedParts = {}
        /\ disk \in [Files -> FileType]
    BY DEF ResumeInit, FileType
  <1>1. /\ None \in StateType /\ \A f \in Files : None.ids[f] = 0
    <2>1. FALSE \in BOOLEAN /\ [f \in Files |-> 0] \in Ids
      BY DEF Ids
    <2>. QED BY <2>1 DEF None, StateType
  <1>2. ResumeTypeOK
    <2>1. PayloadTypeOK
      BY <1>0, <1>1 DEF ResumeInit, PayloadTypeOK
    <2>2. SessionTypeOK
      BY DEF ResumeInit, SessionTypeOK
    <2>3. dirty \in DirtyType /\ trusted \in Ids
      BY DEF ResumeInit, DirtyType, Ids
    <2>4. StorageTypeOK
      BY <2>3, IdleFacts, NoCheckpointFacts DEF ResumeInit, StorageTypeOK
    <2>. QED BY <2>1, <2>2, <2>4 DEF ResumeTypeOK
  <1>3. RecordsAreTrue
    BY <1>1, IdleFacts, NoCheckpointFacts, NothingVouched DEF ResumeInit, RecordsAreTrue
  <1>4. StampsArePast
    BY <1>0, <1>1, IdleFacts, NoCheckpointFacts DEF ResumeInit, StampsArePast, Past
  <1>5. DownIsClear /\ WritesAreNew
    BY DEF ResumeInit, DownIsClear, WritesAreNew
  <1>6. ClaimsAreTrue
    BY IdleFacts DEF ResumeInit, ClaimsAreTrue, Claims
  <1>7. SyncsAreOwed /\ FlushSyncs
    BY <1>0, IdleFacts DEF ResumeInit, SyncsAreOwed, FlushSyncs, Up
  <1>. QED BY <1>2, <1>3, <1>4, <1>5, <1>6, <1>7 DEF CheckpointInv

\* Every step keeps the invariant, where files settle before a start.
LEMMA CheckpointStep == Settles /\ CheckpointInv /\ [ResumeNext]_resumeVars => CheckpointInv'
  <1>. SUFFICES ASSUME Settles, CheckpointInv, [ResumeNext]_resumeVars PROVE CheckpointInv'
    OBVIOUS
  <1>1. CASE UNCHANGED resumeVars
    <2>1. ResumeTypeOK'
      BY <1>1 DEF resumeVars, payload, stateFiles, session, storage, bounds,
         CheckpointInv, ResumeTypeOK, PayloadTypeOK, SessionTypeOK, StorageTypeOK
    <2>. QED BY <1>1, <2>1, PlainFrame DEF resumeVars, payload, stateFiles, session, storage, bounds
  <1>2. CASE \E force \in Rechecks : StartSession(force)
    BY <1>2, StartInv
  <1>3. CASE \E p \in Pieces : \/ HashPiece(p) \/ QueueWrite(p) \/ WriteMapped(p) \/ FinishPiece(p)
                               \/ \E f \in Files : WriteFileAt(p, f) \/ MarkWritten(p, f)
    BY <1>3, HashPieceInv, QueueWriteInv, WriteMappedInv, FinishPieceInv,
       WriteFileAtInv, MarkWrittenInv
  <1>4. CASE \E f \in Files : ReadMapped(f) \/ PageOut(f) \/ EditFile(f)
    BY <1>4, ReadMappedInv, PageOutInv, EditFileInv
  <1>5. CASE SetPaused \/ BeginClose \/ CloseStorage \/ Crash \/ PowerLoss
    BY <1>5, UserInv, CloseInv, PowerLossInv
  <1>6. CASE BeginFlush \/ ReleaseForCheckpoint \/ StampMapped \/ SaveHint \/ SwapDirty \/ StatBefore \/ SyncAndStat
             \/ SaveCheckpoint \/ FlushFails
    BY <1>6, BeginFlushInv, ReleaseInv, StampMappedInv, SaveHintInv, SwapDirtyInv,
       StatBeforeInv, SyncAndStatInv, SaveCheckpointInv, FlushFailsInv
  <1>. QED BY <1>1, <1>2, <1>3, <1>4, <1>5, <1>6 DEF ResumeNext

\* Only a start brings the process up.
LEMMA OnlyStartsBringUp ==
    ASSUME ResumeNext, power # "up", power' = "up"
    PROVE  \E force \in Rechecks : StartSession(force)
  <1>1. ASSUME NEW f \in Files, EditFile(f) PROVE FALSE
    BY <1>1 DEF EditFile
  <1>2. CASE \E p \in Pieces : \/ HashPiece(p) \/ QueueWrite(p) \/ WriteMapped(p) \/ FinishPiece(p)
                               \/ \E f \in Files : WriteFileAt(p, f) \/ MarkWritten(p, f)
    BY <1>2 DEF Up, HashPiece, QueueWrite, WriteMapped, FinishPiece, WriteFileAt, MarkWritten
  <1>3. CASE \E f \in Files : ReadMapped(f) \/ PageOut(f) \/ EditFile(f)
    BY <1>1, <1>3 DEF Up, ReadMapped, PageOut
  <1>4. CASE SetPaused \/ BeginClose \/ CloseStorage \/ Crash \/ PowerLoss
    BY <1>4 DEF Up, SetPaused, BeginClose, CloseStorage, Crash, PowerLoss, Gone
  <1>5. CASE BeginFlush \/ ReleaseForCheckpoint \/ StampMapped \/ SaveHint \/ SwapDirty \/ StatBefore \/ SyncAndStat
             \/ SaveCheckpoint \/ FlushFails
    BY <1>5 DEF Up, BeginFlush, ReleaseForCheckpoint, StampMapped, SaveHint, SwapDirty,
       StatBefore, SyncAndStat, Sweeping, SaveCheckpoint, Swept, FlushFails
  <1>. QED BY <1>2, <1>3, <1>4, <1>5 DEF ResumeNext

\* Where what a run wrote reaches the disk before the next start, a piece that a
\* start makes available without hashing is right on disk, whatever crashed, lost
\* power, failed or was changed by another program before.
THEOREM RestoresAreSound ==
    ASSUME Settles
    PROVE  ResumeSpec => RestoredIsOnDisk
  <1>1. ResumeInit => CheckpointInv
    BY CheckpointInitially
  <1>2. CheckpointInv /\ [ResumeNext]_resumeVars => CheckpointInv'
    BY CheckpointStep
  <1>3. CheckpointInv /\ [ResumeNext]_resumeVars =>
          [power # "up" /\ power' = "up" => \A p \in held' \ excused : OnDisk(p)]_resumeVars
    <2>. SUFFICES ASSUME CheckpointInv, ResumeNext, power # "up", power' = "up", NEW p \in held' \ excused
                  PROVE  OnDisk(p)
      OBVIOUS
    <2>1. PICK force \in Rechecks : StartSession(force)
      BY OnlyStartsBringUp
    <2>2. held' \subseteq LoadedVerified
      BY <2>1 DEF StartSession
    <2>. QED BY <2>2, RestoredIsTrue
  <1>. QED BY <1>1, <1>2, <1>3, PTL DEF ResumeSpec, RestoredIsOnDisk

----------------------------------------------------------------------------
(***************************************************************************)
(* What a flush records.  The other way round: what is held is in the      *)
(* state file.  The heart is what the sweep of a checkpoint finds: a file  *)
(* at rest that nobody else touched still has the stamp that is trusted,   *)
(* or the flush knows that it was written and trusts the new one, so its   *)
(* stamp is recorded; and what is not at rest wants another flush before   *)
(* anyone relies on the record.                                            *)
(***************************************************************************)

\* Piece p is being written, or was and is not recorded yet; so file f, of such a
\* piece or mapped, may change without notice.
Working(p) == p \in finishing \/ jobs[p] # {}
Active(f) == f \in mapped \/ \E p \in Pieces : f \in Overlaps[p] /\ Working(p)
\* A write to f is not marked yet.
Writing(f) == \E p \in Pieces : <<p, f>> \in unmarked
\* Nothing went wrong in this run, and no other program was at its files.
Undisturbed == Up /\ edited = {} /\ ~failed
\* A checkpoint is taken, and the mappings are released.
Settling == flush.stage \in {"swap", "sweep"}

\* The lists of pieces fit each other.
ListsFit ==
    /\ stateFile.verified \subseteq stateFile.completed /\ syncedState.verified \subseteq syncedState.completed
    /\ (~stateFile.is => stateFile.completed = {}) /\ (~syncedState.is => syncedState.completed = {})
    /\ unverified \subseteq toHash /\ toHash \cap held = {}
    /\ \A p \in Pieces : Working(p) => p \notin held \cup unverified
    /\ \A f \in Files : disk[f].stamp # 0 /\ disk[f].syncedStamp # 0

\* The checkpoint in force is what the state file claims, but for the files that
\* were written since, and for a hint of a forced run that trusts less.
CheckpointFits ==
    checkpoint.valid /\ checkpoint.complete =>
        /\ ~forced => /\ checkpoint.verified \subseteq held /\ ~demoted
                      /\ flush.stage # "idle" => checkpoint.verified \subseteq flush.verified
        /\ stateFile.is /\ (~demoted => stateFile.verified = checkpoint.verified)
        /\ \A f \in Files : \/ stateFile.ids[f] = checkpoint.ids[f]
                            \/ "sync" \in dirty[f] \cup flush.taken[f]

\* What the flush under way took down is what there is, or another is wanted; and
\* it is a durable one if the session rests.
FlushFits ==
    /\ flush.stage # "idle" /\ flush.durable => toHash = {}
    /\ flush.verified \subseteq flush.completed
    /\ Settling => flush.durable
    /\ flush.stage = "hint" => ~flush.durable
    /\ flush.stage # "idle" /\ ~stateDirty /\ ~closing =>
         held \subseteq flush.verified /\ (Quiescent => flush.durable)
    /\ Up /\ ~closing /\ ~stateDirty /\ flush.stage = "idle" /\ stateFile.is => held \subseteq stateFile.completed

\* A file whose stamp is to move is mapped and known to be written; those mapped
\* during a checkpoint were written during it.
MapsFit ==
    /\ unstamped \subseteq mapped
    /\ \A f \in unstamped : f \in mappedDirty \/ "sync" \in dirty[f]
    /\ Settling => mapped \subseteq mappedDirty

\* The stamp that is trusted is the file's, or the next flush will trust a new
\* one; the stamps the sweep has found, and those of a complete checkpoint, are
\* still those of the files, or the files are known to have been written.
Trusts(f) ==
    \/ trusted[f] = disk[f].stamp \/ "meta" \in dirty[f] \cup flush.taken[f]
    \/ Writing(f) \/ f \in mappedDirty \/ (f \in mapped /\ "sync" \in dirty[f])
SweptRight(f) ==
    flush.ids[f] # 0 =>
        flush.ids[f] = disk[f].stamp \/ dirty[f] = {"meta", "sync"} \/ Writing(f) \/ f \in mappedDirty
StillDescribes(f) ==
    checkpoint.valid /\ checkpoint.complete /\ In(f) # {} =>
        \/ checkpoint.ids[f] = disk[f].stamp \/ "sync" \in dirty[f] \/ f \in mapped \/ Writing(f)
        \/ Settling /\ dirty[f] \cup flush.taken[f] # {}
TrustFits == Undisturbed => \A f \in Files : Trusts(f) /\ SweptRight(f) /\ StillDescribes(f)

\* Unless another flush is wanted, the sweep trusts every file that is at rest,
\* and once a resting session has flushed the state file describes all it holds.
Described(ids, f) == ids[f] = disk[f].stamp \/ Active(f)
SweepFits ==
    Undisturbed /\ ~closing /\ ~stateDirty /\ flush.stage = "sweep" =>
        /\ flush.before # 0 /\ flush.at \in Files => flush.before = disk[flush.at].stamp \/ Active(flush.at)
        /\ \A f \in Files : f < flush.at => Described(flush.ids, f)
        /\ \A f \in Files : dirty[f] = {} \/ Active(f)
CoverFits ==
    Undisturbed /\ ~closing /\ ~stateDirty /\ flush.stage = "idle" /\ Quiescent /\ stateFile.is
      /\ ~(forced /\ demoted) =>
        /\ stateFile.verified = held
        /\ \A p \in held : \A f \in Overlaps[p] : Described(stateFile.ids, f)

\* What the checkpoint has proven and there is, the state file claims, or it was
\* written since; so that a sweep may be spared.
WrittenSince(p) == \E f \in Overlaps[p] : "sync" \in dirty[f] \cup flush.taken[f]
MappedSince(p) == \E f \in Overlaps[p] : f \in mappedDirty
ClaimsFit ==
    checkpoint.valid /\ checkpoint.complete =>
        /\ toHash \subseteq unverified
        /\ \A p \in checkpoint.verified :
             /\ p \in finishing => WrittenSince(p) \/ MappedSince(p)
             /\ p \in held \cup unverified =>
                  \/ p \in stateFile.completed /\ (flush.stage # "idle" => p \in flush.completed)
                  \/ WrittenSince(p) \/ MappedSince(p)
             /\ Settling /\ p \in flush.verified => p \in stateFile.completed \/ WrittenSince(p)

ProgressFits == ListsFit /\ CheckpointFits /\ FlushFits /\ MapsFit /\ TrustFits /\ SweepFits /\ CoverFits

----------------------------------------------------------------------------
\* The user pauses, resumes or closes the session.
LEMMA UserFits ==
    ASSUME CheckpointInv, CheckpointInv', ProgressFits, SetPaused \/ BeginClose PROVE ProgressFits'
  <1>0. /\ UNCHANGED <<disk, edited, failed, stateFile, syncedState, plan, forced, demoted, power, held, unverified, toHash, jobs>>
        /\ UNCHANGED <<finishing, unmarked, dirty, trusted, checkpoint, mapped, mappedDirty, unstamped, flush>>
        /\ closing => closing'
        /\ stateDirty => stateDirty'
        /\ ~closing' /\ ~stateDirty' /\ Quiescent' => Quiescent
    BY DEF SetPaused, BeginClose, payload, stateFiles, storage, bounds, Quiescent, CheckpointInv, ResumeTypeOK, SessionTypeOK
  <1>1. ListsFit'
    BY <1>0 DEF ProgressFits, ListsFit, Working
  <1>2. CheckpointFits'
    BY <1>0 DEF ProgressFits, CheckpointFits
  <1>3. FlushFits'
    BY <1>0 DEF ProgressFits, FlushFits, Up, Settling
  <1>4. MapsFit'
    BY <1>0 DEF ProgressFits, MapsFit, Settling
  <1>5. TrustFits'
    BY <1>0 DEF ProgressFits, TrustFits, Trusts, SweptRight, StillDescribes, Undisturbed, Up, Writing, Settling
  <1>6. SweepFits' /\ CoverFits'
    BY <1>0 DEF ProgressFits, SweepFits, CoverFits, Undisturbed, Up, Described, Active, Working
  <1>. QED BY <1>1, <1>2, <1>3, <1>4, <1>5, <1>6 DEF ProgressFits

\* A piece is queued for its write.
LEMMA QueueFits ==
    ASSUME CheckpointInv, CheckpointInv', ProgressFits, NEW p \in Pieces, QueueWrite(p) PROVE ProgressFits'
  <1>0. /\ UNCHANGED <<disk, edited, failed, stateFile, syncedState, plan, forced, demoted, power, held, unverified, toHash, closing>>
        /\ UNCHANGED <<paused, stateDirty, finishing, unmarked, dirty, trusted, checkpoint, mapped, mappedDirty>>
        /\ UNCHANGED <<unstamped, flush>>
        /\ p \notin held \cup unverified
        /\ \A q \in Pieces : q # p => jobs'[q] = jobs[q]
        /\ jobs[p] = {} /\ p \notin finishing
    BY DEF QueueWrite, payload, stateFiles, storage, bounds, CheckpointInv, ResumeTypeOK, SessionTypeOK
  <1>a. \A f \in Files : Active(f) => Active(f)'
    BY <1>0 DEF Active, Working
  <1>1. ListsFit'
    BY <1>0 DEF ProgressFits, ListsFit, Working
  <1>2. CheckpointFits'
    BY <1>0 DEF ProgressFits, CheckpointFits
  <1>3. FlushFits'
    BY <1>0 DEF ProgressFits, FlushFits, Up, Settling, Quiescent
  <1>4. MapsFit'
    BY <1>0 DEF ProgressFits, MapsFit, Settling
  <1>5. TrustFits'
    BY <1>0 DEF ProgressFits, TrustFits, Trusts, SweptRight, StillDescribes, Undisturbed, Up, Writing, Settling
  <1>6. SweepFits'
    BY <1>0, <1>a DEF ProgressFits, SweepFits, Undisturbed, Up, Described
  <1>7. CoverFits'
    BY <1>0, <1>a, Constants DEF ProgressFits, CoverFits, Undisturbed, Up, Described, Quiescent, CheckpointInv, ResumeTypeOK, SessionTypeOK
  <1>. QED BY <1>1, <1>2, <1>3, <1>4, <1>5, <1>6, <1>7 DEF ProgressFits

\* A file is written.
LEMMA WriteFits ==
    ASSUME CheckpointInv, CheckpointInv', ProgressFits, NEW p \in Pieces, NEW f \in Files, WriteFileAt(p, f)
    PROVE  ProgressFits'
  <1>t. ResumeTypeOK /\ disk \in [Files -> FileType] /\ clock \in Nat
    BY DiskTypes DEF CheckpointInv
  <1>0. /\ UNCHANGED <<edited, failed, stateFile, syncedState, plan, forced, demoted, power, held, unverified, toHash, closing, jobs>>
        /\ UNCHANGED <<paused, stateDirty, finishing, dirty, trusted, checkpoint, mapped, mappedDirty>>
        /\ UNCHANGED <<unstamped, flush>>
        /\ unmarked' = unmarked \cup {<<p, f>>}
        /\ f \in jobs[p] /\ disk' = [Stamped({f}, disk) EXCEPT ![f].parts = @ \cup {p}]
    BY DEF WriteFileAt, Touches, stateFiles, session, bounds
  <1>d. \A g \in Files : /\ g # f => disk'[g].stamp = disk[g].stamp
                         /\ disk'[g].stamp # 0 /\ disk'[g].syncedStamp # 0 
    <2>1. \A g \in Files : /\ disk'[g].stamp = Stamped({f}, disk)[g].stamp
                           /\ disk'[g].syncedStamp = Stamped({f}, disk)[g].syncedStamp
      BY <1>0, <1>t, StampedFacts DEF FileType
    <2>2. clock + 1 # 0
      BY <1>t
    <2>. QED BY <1>t, <2>1, <2>2, StampedFacts DEF ProgressFits, ListsFit
  <1>a. (\A g \in Files : Active(g) => Active(g)') /\ Active(f)' /\ Writing(f)'
    BY <1>0 DEF Active, Working, Writing, CheckpointInv, WritesAreNew
  <1>1. ListsFit'
    BY <1>0, <1>d DEF ProgressFits, ListsFit, Working
  <1>2. CheckpointFits'
    BY <1>0 DEF ProgressFits, CheckpointFits
  <1>3. FlushFits'
    BY <1>0 DEF ProgressFits, FlushFits, Up, Settling, Quiescent
  <1>4. MapsFit'
    BY <1>0 DEF ProgressFits, MapsFit, Settling
  <1>5. TrustFits'
    BY <1>0, <1>d, <1>a DEF ProgressFits, TrustFits, Trusts, SweptRight, StillDescribes, Undisturbed, Up, Writing, Settling
  <1>6. SweepFits'
    BY <1>0, <1>a, <1>d DEF ProgressFits, SweepFits, Undisturbed, Up, Described
  <1>7. CoverFits'
    BY <1>0, <1>a, <1>d, Constants DEF ProgressFits, CoverFits, Undisturbed, Up, Described, Quiescent, CheckpointInv, ResumeTypeOK, SessionTypeOK
  <1>. QED BY <1>1, <1>2, <1>3, <1>4, <1>5, <1>6, <1>7 DEF ProgressFits

\* What was written to is known: the same pieces are being written or finished.
LEMMA WroteFacts ==
    ASSUME CheckpointInv, NEW p \in Pieces, jobs[p] # {}, NEW fs, Wrote(p, fs)
    PROVE  /\ \A q \in Pieces : Working(q)' = Working(q)
           /\ Working(p)'
  <1>1. jobs \in [Pieces -> SUBSET Files]
    BY DEF CheckpointInv, ResumeTypeOK, SessionTypeOK
  <1>2. /\ \A q \in Pieces : q # p => jobs'[q] = jobs[q]
        /\ finishing' = IF jobs'[p] = {} THEN finishing \cup {p} ELSE finishing
    BY <1>1 DEF Wrote
  <1>3. Working(p)'
    BY <1>2 DEF Working
  <1>4. ASSUME NEW q \in Pieces, q # p PROVE Working(q)' <=> Working(q)
    BY <1>2, <1>4 DEF Working
  <1>5. Working(p)
    BY DEF Working
  <1>. QED BY <1>3, <1>4, <1>5 DEF Working

\* A write to a file is marked.
LEMMA MarkFits ==
    ASSUME CheckpointInv, CheckpointInv', ProgressFits, NEW p \in Pieces, NEW f \in Files, MarkWritten(p, f)
    PROVE  ProgressFits'
  <1>0. /\ UNCHANGED <<disk, edited, failed, stateFile, syncedState, plan, forced, demoted, power, held, unverified, toHash, closing>>
        /\ UNCHANGED <<paused, stateDirty, trusted, checkpoint, mapped, mappedDirty, unstamped, flush>>
        /\ unmarked' = unmarked \ {<<p, f>>} /\ Wrote(p, {f}) /\ dirty' = [dirty EXCEPT ![f] = {"meta", "sync"}]
        /\ f \in jobs[p] /\ f \in Overlaps[p]
    BY DEF MarkWritten, payload, stateFiles, bounds, CheckpointInv, WritesAreNew
  <1>d. /\ dirty'[f] = {"meta", "sync"}
        /\ \A g \in Files : g # f => dirty'[g] = dirty[g]
        /\ \A g \in Files : dirty[g] \subseteq dirty'[g]
    <2>1. dirty \in [Files -> SUBSET {"meta", "sync"}]
      BY FlushTypes DEF CheckpointInv, DirtyType
    <2>. QED BY <1>0, <2>1
  <1>w. (\A q \in Pieces : Working(q)' = Working(q)) /\ Working(p)'
    BY <1>0, WroteFacts
  <1>a. (\A g \in Files : Active(g) => Active(g)') /\ Active(f)'
    BY <1>0, <1>w DEF Active
  <1>b. \A g \in Files : g # f => Writing(g)' = Writing(g)
    BY <1>0 DEF Writing
  <1>1. ListsFit'
    BY <1>0, <1>w DEF ProgressFits, ListsFit
  <1>2. CheckpointFits'
    BY <1>0, <1>d DEF ProgressFits, CheckpointFits
  <1>3. FlushFits'
    BY <1>0 DEF ProgressFits, FlushFits, Up, Settling, Quiescent
  <1>4. MapsFit'
    <2>1. unstamped \subseteq Files
      BY DEF CheckpointInv, ResumeTypeOK, StorageTypeOK
    <2>. QED BY <1>0, <1>d, <2>1 DEF ProgressFits, MapsFit, Settling
  <1>5. TrustFits'
    BY <1>0, <1>d, <1>b DEF ProgressFits, TrustFits, Trusts, SweptRight, StillDescribes, Undisturbed, Up, Settling
  <1>6. SweepFits'
    BY <1>0, <1>a, <1>d DEF ProgressFits, SweepFits, Undisturbed, Up, Described
  <1>7. CoverFits'
    BY <1>0, <1>a, Constants DEF ProgressFits, CoverFits, Undisturbed, Up, Described, Quiescent, CheckpointInv, ResumeTypeOK, SessionTypeOK
  <1>. QED BY <1>1, <1>2, <1>3, <1>4, <1>5, <1>6, <1>7 DEF ProgressFits

\* A piece is written through mappings.
LEMMA WriteMappedFits ==
    ASSUME CheckpointInv, CheckpointInv', ProgressFits, NEW p \in Pieces, WriteMapped(p)
    PROVE  ProgressFits'
  <1>0. /\ UNCHANGED <<edited, failed, stateFile, syncedState, plan, forced, demoted, power, held, unverified, toHash, closing>>
        /\ UNCHANGED <<paused, stateDirty, trusted, checkpoint, unmarked, dirty, flush>>
        /\ jobs[p] # {} /\ Wrote(p, jobs[p])
        /\ mapped' = mapped \cup jobs[p] /\ mappedDirty' = mappedDirty \cup jobs[p]
        /\ unstamped' = unstamped \cup jobs[p]
    BY DEF WriteMapped, Touches, stateFiles, bounds
  <1>d. \A g \in Files : disk'[g].stamp = disk[g].stamp /\ disk'[g].syncedStamp = disk[g].syncedStamp
    <2>1. disk \in [Files -> FileType]
      BY DiskTypes DEF CheckpointInv
    <2>2. \A g \in Files : disk'[g] = IF g \in jobs[p] THEN [disk[g] EXCEPT !.parts = @ \cup {p}] ELSE disk[g]
      BY DEF WriteMapped
    <2>. QED BY <2>1, <2>2 DEF FileType
  <1>w. \A q \in Pieces : Working(q)' = Working(q)
    BY <1>0, WroteFacts
  <1>a. \A g \in Files : Active(g) => Active(g)'
    BY <1>0, <1>w DEF Active
  <1>1. ListsFit'
    BY <1>0, <1>d, <1>w DEF ProgressFits, ListsFit
  <1>2. CheckpointFits'
    BY <1>0 DEF ProgressFits, CheckpointFits
  <1>3. FlushFits'
    BY <1>0 DEF ProgressFits, FlushFits, Up, Settling, Quiescent
  <1>4. MapsFit'
    BY <1>0 DEF ProgressFits, MapsFit, Settling
  <1>5. TrustFits'
    BY <1>0, <1>d DEF ProgressFits, TrustFits, Trusts, SweptRight, StillDescribes, Undisturbed, Up, Settling, Writing
  <1>6. SweepFits'
    BY <1>0, <1>a, <1>d DEF ProgressFits, SweepFits, Undisturbed, Up, Described
  <1>7. CoverFits'
    BY <1>0, <1>a, <1>d, Constants DEF ProgressFits, CoverFits, Undisturbed, Up, Described, Quiescent, CheckpointInv, ResumeTypeOK, SessionTypeOK
  <1>. QED BY <1>1, <1>2, <1>3, <1>4, <1>5, <1>6, <1>7 DEF ProgressFits

\* A written piece becomes a held one, and another flush is wanted.
LEMMA FinishFits ==
    ASSUME CheckpointInv, CheckpointInv', ProgressFits, NEW p \in Pieces, FinishPiece(p) PROVE ProgressFits'
  <1>0. /\ UNCHANGED <<disk, edited, failed, stateFile, syncedState, plan, forced, demoted, power, unverified, closing, jobs>>
        /\ UNCHANGED <<paused, trusted, checkpoint, unmarked, dirty, flush, mapped, mappedDirty, unstamped>>
        /\ p \in finishing /\ finishing' = finishing \ {p} /\ held' = held \cup {p} /\ toHash' = toHash \ {p}
        /\ stateDirty' = (stateDirty \/ (~closing /\ p \notin held))
    BY DEF FinishPiece, payload, stateFiles, storage, bounds
  <1>p. p \notin held \cup unverified /\ jobs[p] = {}
    BY <1>0 DEF ProgressFits, ListsFit, Working, CheckpointInv, WritesAreNew
  <1>s. ~closing => stateDirty'
    BY <1>0, <1>p
  <1>1. ListsFit'
    BY <1>0, <1>p DEF ProgressFits, ListsFit, Working
  <1>2. CheckpointFits'
    BY <1>0 DEF ProgressFits, CheckpointFits
  <1>3. FlushFits'
    BY <1>0, <1>s DEF ProgressFits, FlushFits, Up, Settling
  <1>4. MapsFit'
    BY <1>0 DEF ProgressFits, MapsFit, Settling
  <1>5. TrustFits'
    BY <1>0 DEF ProgressFits, TrustFits, Trusts, SweptRight, StillDescribes, Undisturbed, Up, Settling, Writing
  <1>6. SweepFits' /\ CoverFits'
    BY <1>0, <1>s DEF SweepFits, CoverFits
  <1>. QED BY <1>1, <1>2, <1>3, <1>4, <1>5, <1>6 DEF ProgressFits

\* A piece is hashed: there is no checkpoint under way, and another flush is
\* wanted if it is found or the last.
LEMMA HashFits ==
    ASSUME CheckpointInv, CheckpointInv', ProgressFits, NEW p \in Pieces, HashPiece(p) PROVE ProgressFits'
  <1>0. /\ UNCHANGED <<disk, edited, failed, stateFile, syncedState, plan, forced, demoted, power, closing, jobs, finishing>>
        /\ UNCHANGED <<paused, trusted, checkpoint, unmarked, dirty, flush, mappedDirty, unstamped>>
        /\ p \in toHash /\ toHash' = toHash \ {p} /\ unverified' = unverified \ {p} /\ mapped \subseteq mapped'
        /\ stateDirty' = (stateDirty \/ Found(p) \/ toHash' = {})
        /\ held' = IF Found(p) THEN held \cup {p} ELSE held
    BY DEF HashPiece, stateFiles, bounds
  <1>s. /\ ~stateDirty' => ~stateDirty /\ held' = held /\ ~Quiescent'
        /\ held \subseteq held'
    BY <1>0 DEF Quiescent
  <1>n. ~(flush.stage # "idle" /\ flush.durable) /\ ~Settling /\ ~Settling'
    BY <1>0 DEF ProgressFits, FlushFits, Settling
  <1>1. ListsFit'
    BY <1>0 DEF ProgressFits, ListsFit, Working, Found
  <1>2. CheckpointFits'
    BY <1>0, <1>s DEF ProgressFits, CheckpointFits
  <1>3. FlushFits'
    BY <1>0, <1>s, <1>n DEF ProgressFits, FlushFits, Up
  <1>4. MapsFit'
    BY <1>0, <1>n DEF ProgressFits, MapsFit
  <1>5. TrustFits'
    BY <1>0, <1>n DEF ProgressFits, TrustFits, Trusts, SweptRight, StillDescribes, Undisturbed, Up, Writing
  <1>6. SweepFits' /\ CoverFits'
    BY <1>0, <1>s, <1>n DEF SweepFits, CoverFits, Settling
  <1>. QED BY <1>1, <1>2, <1>3, <1>4, <1>5, <1>6 DEF ProgressFits

\* A read maps a file, when no checkpoint is under way.
LEMMA ReadFits ==
    ASSUME CheckpointInv, CheckpointInv', ProgressFits, NEW f \in Files, ReadMapped(f) PROVE ProgressFits'
  <1>0. /\ UNCHANGED <<disk, edited, failed, stateFile, syncedState, plan, forced, demoted, power, held, unverified, toHash, closing>>
        /\ UNCHANGED <<jobs, paused, stateDirty, finishing, unmarked, dirty, trusted, checkpoint, mappedDirty>>
        /\ UNCHANGED <<unstamped, flush>>
        /\ mapped' = mapped \cup {f} /\ ~Checkpointing
    BY DEF ReadMapped, payload, stateFiles, session, bounds
  <1>n. ~Settling /\ ~Settling'
    BY <1>0 DEF ProgressFits, FlushFits, Settling, Checkpointing
  <1>a. \A g \in Files : Active(g) => Active(g)'
    BY <1>0 DEF Active, Working
  <1>1. ListsFit'
    BY <1>0 DEF ProgressFits, ListsFit, Working
  <1>2. CheckpointFits'
    BY <1>0 DEF ProgressFits, CheckpointFits
  <1>3. FlushFits'
    BY <1>0, <1>n DEF ProgressFits, FlushFits, Up, Quiescent
  <1>4. MapsFit'
    BY <1>0, <1>n DEF ProgressFits, MapsFit
  <1>5. TrustFits'
    BY <1>0, <1>n DEF ProgressFits, TrustFits, Trusts, SweptRight, StillDescribes, Undisturbed, Up, Writing
  <1>6. SweepFits'
    BY <1>0, <1>n DEF SweepFits, Settling
  <1>7. CoverFits'
    BY <1>0, <1>a, Constants DEF ProgressFits, CoverFits, Undisturbed, Up, Described, Quiescent, CheckpointInv, ResumeTypeOK, SessionTypeOK
  <1>. QED BY <1>1, <1>2, <1>3, <1>4, <1>5, <1>6, <1>7 DEF ProgressFits

\* Mapped pages reach the disk.
LEMMA PageFits ==
    ASSUME CheckpointInv, CheckpointInv', ProgressFits, NEW f \in Files, PageOut(f) PROVE ProgressFits'
  <1>t. ResumeTypeOK /\ clock \in Nat
    BY DiskTypes DEF CheckpointInv
  <1>0. /\ UNCHANGED <<edited, failed, stateFile, syncedState, plan, forced, demoted, power, held, unverified, toHash, closing>>
        /\ UNCHANGED <<jobs, paused, stateDirty, finishing, unmarked, dirty, trusted, checkpoint, mapped, mappedDirty>>
        /\ UNCHANGED flush
        /\ f \in unstamped /\ unstamped' = unstamped \ {f} /\ disk' = Stamped({f}, disk)
    BY DEF PageOut, stateFiles, session, bounds
  <1>d. \A g \in Files : /\ g # f => disk'[g].stamp = disk[g].stamp
                         /\ disk'[g].stamp # 0 /\ disk'[g].syncedStamp # 0 
    <2>1. clock + 1 # 0
      BY <1>t
    <2>. QED BY <1>0, <1>t, <2>1, StampedFacts DEF ProgressFits, ListsFit
  <1>m. f \in mapped /\ (f \in mappedDirty \/ "sync" \in dirty[f]) /\ (Settling => f \in mappedDirty)
    BY <1>0 DEF ProgressFits, MapsFit
  <1>i. flush.ids[f] # 0 => Settling
    BY DEF CheckpointInv, FlushSyncs, Settling
  <1>a. (\A g \in Files : Active(g)' = Active(g)) /\ Active(f)
    BY <1>0, <1>m DEF Active, Working
  <1>1. ListsFit'
    BY <1>0, <1>d DEF ProgressFits, ListsFit, Working
  <1>2. CheckpointFits'
    BY <1>0 DEF ProgressFits, CheckpointFits
  <1>3. FlushFits'
    BY <1>0 DEF ProgressFits, FlushFits, Up, Quiescent, Settling
  <1>4. MapsFit'
    BY <1>0 DEF ProgressFits, MapsFit, Settling
  <1>5. TrustFits'
    BY <1>0, <1>d, <1>m, <1>i DEF ProgressFits, TrustFits, Trusts, SweptRight, StillDescribes, Undisturbed, Up, Writing, Settling
  <1>6. SweepFits'
    BY <1>0, <1>a, <1>d DEF ProgressFits, SweepFits, Undisturbed, Up, Described
  <1>7. CoverFits'
    BY <1>0, <1>a, <1>d, Constants DEF ProgressFits, CoverFits, Undisturbed, Up, Described, Quiescent, CheckpointInv, ResumeTypeOK, SessionTypeOK
  <1>. QED BY <1>1, <1>2, <1>3, <1>4, <1>5, <1>6, <1>7 DEF ProgressFits

\* Another program changes a file.
LEMMA EditFits ==
    ASSUME CheckpointInv, CheckpointInv', ProgressFits, NEW f \in Files, EditFile(f) PROVE ProgressFits'
  <1>t. ResumeTypeOK /\ disk \in [Files -> FileType] /\ clock \in Nat
    BY DiskTypes DEF CheckpointInv
  <1>0. /\ UNCHANGED <<failed, stateFile, syncedState, plan, forced, demoted, power, held, unverified, toHash, closing>>
        /\ UNCHANGED <<jobs, paused, stateDirty, finishing, unmarked, dirty, trusted, checkpoint, mapped, mappedDirty>>
        /\ UNCHANGED <<unstamped, flush>>
    BY DEF EditFile, Fault, stateFiles, session, storage
  <1>e. ~Undisturbed'
    BY <1>0 DEF EditFile, Undisturbed, Up
  <1>d. \A g \in Files : disk'[g].stamp # 0 /\ disk'[g].syncedStamp # 0
    <2>1. PICK lost : disk' = [Stamped({f}, disk) EXCEPT ![f].parts = @ \ lost]
      BY DEF EditFile
    <2>2. \A g \in Files : /\ disk'[g].stamp = Stamped({f}, disk)[g].stamp
                           /\ disk'[g].syncedStamp = Stamped({f}, disk)[g].syncedStamp
      BY <1>t, <2>1, StampedFacts DEF FileType
    <2>3. clock + 1 # 0
      BY <1>t
    <2>. QED BY <1>t, <2>2, <2>3, StampedFacts DEF ProgressFits, ListsFit
  <1>1. ListsFit'
    BY <1>0, <1>d DEF ProgressFits, ListsFit, Working
  <1>2. CheckpointFits'
    BY <1>0 DEF ProgressFits, CheckpointFits
  <1>3. FlushFits'
    BY <1>0 DEF ProgressFits, FlushFits, Up, Quiescent, Settling
  <1>4. MapsFit'
    BY <1>0 DEF ProgressFits, MapsFit, Settling
  <1>5. TrustFits' /\ SweepFits' /\ CoverFits'
    BY <1>e DEF TrustFits, SweepFits, CoverFits
  <1>. QED BY <1>1, <1>2, <1>3, <1>4, <1>5 DEF ProgressFits

\* The process ends, one way or another.
LEMMA EndFits ==
    ASSUME CheckpointInv, CheckpointInv', ProgressFits, CloseStorage \/ Crash \/ PowerLoss PROVE ProgressFits'
  <1>t. ResumeTypeOK /\ disk \in [Files -> FileType] /\ clock \in Nat
    BY DiskTypes DEF CheckpointInv
  <1>0. /\ ProcessEnds /\ power' = "down"
        /\ stateFile' \in {stateFile, syncedState} /\ syncedState' \in {stateFile, syncedState}
    BY DEF CloseStorage, Crash, PowerLoss, Gone, stateFiles
  <1>e. /\ ~Up' /\ ~Undisturbed' /\ flush' = Idle /\ checkpoint' = NoCheckpoint
        /\ held' = {} /\ unverified' = {} /\ toHash' = {} /\ finishing' = {} /\ unstamped' = {} /\ mapped' = {}
        /\ \A p \in Pieces : jobs'[p] = {}
    BY <1>0 DEF Up, Undisturbed, ProcessEnds
  <1>i. /\ Idle.verified = {} /\ Idle.stage = "idle" /\ NoCheckpoint.valid = FALSE
    BY DEF Idle, NoCheckpoint
  <1>d. \A g \in Files : disk'[g].stamp # 0 /\ disk'[g].syncedStamp # 0
    <2>1. CASE CloseStorage \/ Crash
      <3>1. PICK S : disk' = Stamped(S, disk)
        BY <2>1 DEF CloseStorage, Crash, Moves
      <3>2. clock + 1 # 0
        BY <1>t
      <3>. QED BY <1>t, <3>1, <3>2, StampedFacts DEF ProgressFits, ListsFit
    <2>2. CASE PowerLoss
      <3>1. \A g \in Files : disk'[g].stamp \in {disk[g].stamp, disk[g].syncedStamp}
                             /\ disk'[g].syncedStamp \in {disk[g].stamp, disk[g].syncedStamp}
        <4>1. PICK lost : disk' = [h \in Files |->
                LET d == disk[h] IN
                IF h \in lost
                THEN [d EXCEPT !.stamp = d.syncedStamp, !.parts = d.syncedParts]
                ELSE [d EXCEPT !.parts = d.parts \cap d.syncedParts, !.syncedStamp = d.stamp,
                               !.syncedParts = d.parts \cap d.syncedParts]]
          BY <2>2 DEF PowerLoss
        <4>2. \A g \in Files : disk[g] \in FileType
          BY <1>t
        <4>. QED BY <4>1, <4>2 DEF FileType
      <3>. QED BY <3>1 DEF ProgressFits, ListsFit
    <2>. QED BY <2>1, <2>2
  <1>1. ListsFit'
    BY <1>0, <1>e, <1>d DEF ProgressFits, ListsFit, Working
  <1>2. CheckpointFits'
    BY <1>e, <1>i DEF CheckpointFits
  <1>3. FlushFits' /\ MapsFit'
    BY <1>e, <1>i DEF FlushFits, MapsFit, Settling
  <1>4. TrustFits' /\ SweepFits' /\ CoverFits'
    BY <1>e DEF TrustFits, SweepFits, CoverFits
  <1>. QED BY <1>1, <1>2, <1>3, <1>4 DEF ProgressFits

\* A flush takes down what is held, and whether the session rests.
LEMMA BeginFits ==
    ASSUME CheckpointInv, CheckpointInv', ProgressFits, BeginFlush PROVE ProgressFits'
  <1>0. /\ UNCHANGED <<disk, edited, failed, stateFile, syncedState, plan, forced, demoted, power, held, unverified, toHash, closing>>
        /\ UNCHANGED <<jobs, paused, finishing, unmarked, dirty, trusted, checkpoint, mapped, mappedDirty, unstamped>>
        /\ flush.stage = "idle" /\ ~stateDirty'
    BY DEF BeginFlush, payload, stateFiles, storage, bounds
  <1>t. flush \in FlushType /\ held \subseteq Pieces /\ unverified \subseteq Pieces
    BY FlushTypes DEF CheckpointInv
  <1>f. /\ flush'.verified = held /\ held \subseteq flush'.completed /\ (flush'.durable <=> Quiescent)
        /\ flush'.stage \in {"settle", "swap", "hint"}
        /\ flush'.stage = "swap" => ~plan.mmap /\ Quiescent
        /\ flush'.stage = "hint" => ~Quiescent
    <2>1. PICK i \in FlushType : i = Idle
      BY IdleFacts DEF FlushType
    <2>2. PICK stage \in {"settle", "swap", "hint"} :
            /\ stage = IF plan.mmap THEN "settle" ELSE IF Quiescent THEN "swap" ELSE "hint"
            /\ stage = "swap" => ~plan.mmap /\ Quiescent
            /\ stage = "hint" => ~Quiescent
      OBVIOUS
    <2>3. PICK q \in BOOLEAN : q = Quiescent
      BY DEF Quiescent
    <2>4. held \cup unverified \in SUBSET Pieces /\ held \in SUBSET Pieces
      BY <1>t
    <2>5. flush' = [i EXCEPT !.stage = stage, !.durable = q, !.verified = held, !.completed = held \cup unverified]
      BY <2>1, <2>2, <2>3 DEF BeginFlush
    <2>6. /\ flush'.stage = stage /\ flush'.durable = q /\ flush'.verified = held
          /\ flush'.completed = held \cup unverified
      BY <2>1, <2>2, <2>4, <2>5 DEF FlushType
    <2>. QED BY <2>2, <2>3, <2>6
  <1>s. flush'.stage # "sweep" /\ flush'.stage # "idle" /\ \A f \in Files : flush'.ids[f] = 0 /\ flush'.taken[f] = {}
    BY <1>f DEF CheckpointInv, FlushSyncs
  <1>p. \A f \in Files : flush.taken[f] = {}
    BY <1>0 DEF CheckpointInv, FlushSyncs
  <1>1. ListsFit'
    BY <1>0 DEF ProgressFits, ListsFit, Working
  <1>2. CheckpointFits'
    BY <1>0, <1>f, <1>s, <1>p DEF ProgressFits, CheckpointFits
  <1>3. FlushFits'
    <2>1. Quiescent' = Quiescent
      BY <1>0 DEF Quiescent
    <2>. QED BY <1>0, <1>f, <1>s, <2>1 DEF FlushFits, Settling, Quiescent
  <1>4. MapsFit'
    BY <1>0, <1>f, <1>s DEF ProgressFits, MapsFit, Settling, CheckpointInv, WritesAreNew
  <1>5. TrustFits'
    BY <1>0, <1>s, <1>p DEF ProgressFits, TrustFits, Trusts, SweptRight, StillDescribes, Undisturbed, Up, Writing, Settling
  <1>6. SweepFits' /\ CoverFits'
    BY <1>s DEF SweepFits, CoverFits
  <1>. QED BY <1>1, <1>2, <1>3, <1>4, <1>5, <1>6 DEF ProgressFits

\* The mappings are released before a checkpoint: what may have moved is known.
LEMMA ReleaseFits ==
    ASSUME CheckpointInv, CheckpointInv', ProgressFits, ReleaseForCheckpoint PROVE ProgressFits'
  <1>. DEFINE wrote == {f \in mapped : f \in mappedDirty \/ "sync" \in dirty[f]}
              same == {f \in mapped \ wrote : disk[f].stamp = trusted[f]}
  <1>0. /\ UNCHANGED <<edited, failed, stateFile, syncedState, plan, forced, demoted, power, held, unverified, toHash, closing>>
        /\ UNCHANGED <<jobs, paused, stateDirty, finishing, unmarked, trusted, checkpoint>>
        /\ flush.stage = "settle" /\ flush.durable /\ mapped' = {} /\ unstamped' = {}
    BY DEF ReleaseForCheckpoint, Release, Touches, stateFiles, session, bounds
  <1>t. ResumeTypeOK /\ flush \in FlushType /\ dirty \in DirtyType /\ mapped \subseteq Files /\ clock \in Nat
    BY FlushTypes, DiskTypes DEF CheckpointInv, ResumeTypeOK, StorageTypeOK
  <1>f. /\ flush'.stage = "swap" /\ flush'.durable = flush.durable /\ flush'.verified = flush.verified
        /\ flush'.completed = flush.completed /\ flush'.taken = flush.taken
    BY <1>t DEF ReleaseForCheckpoint, FlushType
  <1>p. \A f \in Files : flush.taken[f] = {} /\ flush'.ids[f] = 0
    BY <1>0, <1>f DEF CheckpointInv, FlushSyncs
  <1>u. mappedDirty \subseteq mapped /\ \A f \in Files : ~Writing(f)
    BY <1>0 DEF CheckpointInv, WritesAreNew, FlushSyncs, Writing
  <1>m. \A f \in Files : /\ f \notin mapped => disk'[f].stamp = disk[f].stamp
                         /\ disk'[f].stamp # 0 /\ disk'[f].syncedStamp # 0
    <2>1. PICK S \in SUBSET mapped : Ticks(S) /\ disk' = Stamped(S, disk)
      BY DEF ReleaseForCheckpoint, Release, Moves
    <2>2. clock + 1 # 0
      BY <1>t
    <2>. QED BY <1>t, <2>1, <2>2, StampedFacts DEF ProgressFits, ListsFit
  <1>k. \A f \in Files : /\ dirty[f] \subseteq dirty'[f]
                         /\ f \in wrote \/ f \in same => "meta" \in dirty'[f]
    BY <1>t DEF ReleaseForCheckpoint, DirtyType
  <1>w. \A f \in mapped : f \in wrote \/ f \in same \/ (f \notin mappedDirty /\ "sync" \notin dirty[f] /\ trusted[f] # disk[f].stamp)
    OBVIOUS
  <1>. HIDE DEF wrote, same
  <1>1. ListsFit'
    BY <1>0, <1>m DEF ProgressFits, ListsFit, Working
  <1>2. CheckpointFits'
    BY <1>0, <1>f, <1>k DEF ProgressFits, CheckpointFits
  <1>3. FlushFits'
    BY <1>0, <1>f DEF ProgressFits, FlushFits, Settling, Up, Quiescent
  <1>4. MapsFit'
    BY <1>0 DEF MapsFit
  <1>5. TrustFits'
    <2>. SUFFICES ASSUME Undisturbed', NEW f \in Files PROVE (Trusts(f) /\ SweptRight(f) /\ StillDescribes(f))'
      BY DEF TrustFits
    <2>1. Trusts(f) /\ StillDescribes(f)
      BY <1>0 DEF ProgressFits, TrustFits, Undisturbed, Up
    <2>2. f \in mapped => "meta" \in dirty'[f]
      BY <1>p, <1>u, <1>k, <1>w, <2>1 DEF Trusts
    <2>3. Trusts(f)'
      BY <1>0, <1>p, <1>u, <1>k, <1>m, <2>1, <2>2 DEF Trusts
    <2>4. StillDescribes(f)'
      BY <1>0, <1>f, <1>u, <1>k, <1>m, <2>1, <2>2 DEF StillDescribes, Settling
    <2>. QED BY <1>p, <2>3, <2>4 DEF SweptRight
  <1>6. SweepFits' /\ CoverFits'
    BY <1>f DEF SweepFits, CoverFits
  <1>. QED BY <1>1, <1>2, <1>3, <1>4, <1>5, <1>6 DEF ProgressFits

\* The files written through mappings are stamped, for a hint.
LEMMA StampFits ==
    ASSUME CheckpointInv, CheckpointInv', ProgressFits, StampMapped PROVE ProgressFits'
  <1>0. /\ UNCHANGED <<edited, failed, stateFile, syncedState, plan, forced, demoted, power, held, unverified, toHash, closing>>
        /\ UNCHANGED <<jobs, paused, stateDirty, finishing, unmarked, trusted, checkpoint, mapped, unstamped>>
        /\ flush.stage = "settle" /\ ~flush.durable /\ mappedDirty' = {}
    BY DEF StampMapped, stateFiles, session, bounds
  <1>t. ResumeTypeOK /\ flush \in FlushType /\ dirty \in DirtyType /\ clock \in Nat /\ unstamped \subseteq Files
    BY FlushTypes, DiskTypes DEF CheckpointInv, ResumeTypeOK, StorageTypeOK
  <1>f. /\ flush'.stage = "hint" /\ flush'.durable = flush.durable /\ flush'.verified = flush.verified
        /\ flush'.completed = flush.completed /\ flush'.taken = flush.taken
    BY <1>t DEF StampMapped, FlushType
  <1>p. \A f \in Files : flush'.ids[f] = 0
    BY <1>f DEF CheckpointInv, FlushSyncs
  <1>m. \A f \in Files : /\ f \notin mappedDirty => disk'[f].stamp = disk[f].stamp
                         /\ disk'[f].stamp # 0 /\ disk'[f].syncedStamp # 0
    <2>1. clock + 1 # 0
      BY <1>t
    <2>. QED BY <1>t, <2>1, StampedFacts DEF StampMapped, ProgressFits, ListsFit
  <1>k. \A f \in Files : dirty'[f] = IF f \in mappedDirty THEN {"meta", "sync"} ELSE dirty[f]
    BY DEF StampMapped
  <1>1. ListsFit'
    BY <1>0, <1>m DEF ProgressFits, ListsFit, Working
  <1>2. CheckpointFits'
    BY <1>0, <1>f, <1>k DEF ProgressFits, CheckpointFits
  <1>3. FlushFits'
    BY <1>0, <1>f DEF ProgressFits, FlushFits, Settling, Up, Quiescent
  <1>4. MapsFit'
    BY <1>0, <1>t, <1>f, <1>k DEF ProgressFits, MapsFit, Settling
  <1>5. TrustFits'
    BY <1>0, <1>f, <1>p, <1>k, <1>m DEF ProgressFits, TrustFits, Trusts, SweptRight, StillDescribes,
       Undisturbed, Up, Writing, Settling
  <1>6. SweepFits' /\ CoverFits'
    BY <1>f DEF SweepFits, CoverFits
  <1>. QED BY <1>1, <1>2, <1>3, <1>4, <1>5, <1>6 DEF ProgressFits

\* What the state file owes to a sync it still owes when the mtimes are trusted again.
LEMMA RefreshOwes ==
    ASSUME RefreshDirty
    PROVE  \A f \in Files : /\ "sync" \in dirty[f] => "sync" \in dirty'[f]
                            /\ trusted'[f] = IF "meta" \in dirty[f] THEN disk[f].stamp ELSE trusted[f]
  BY DEF RefreshDirty

\* A hint is saved; a session that rests wants a checkpoint instead.
LEMMA HintFits ==
    ASSUME CheckpointInv, CheckpointInv', ProgressFits, SaveHint PROVE ProgressFits'
  <1>0. /\ UNCHANGED <<disk, edited, failed, syncedState, plan, forced, power, held, unverified, toHash, closing>>
        /\ UNCHANGED <<jobs, paused, stateDirty, finishing, unmarked, checkpoint, mapped, mappedDirty, unstamped>>
        /\ flush.stage = "hint" /\ stateFile' = Hint /\ RefreshDirty /\ flush' = Idle
        /\ demoted' = (checkpoint.valid /\ Hint.verified # checkpoint.verified)
    BY DEF SaveHint, Hint, payload, session, bounds
  <1>h. /\ Hint.is = TRUE /\ Hint.verified = checkpoint.verified \cap flush.verified
        /\ Hint.completed = flush.completed
        /\ \A f \in Files : checkpoint.valid /\ "sync" \notin dirty[f] => Hint.ids[f] = checkpoint.ids[f]
    BY DEF Hint, StillHeld
  <1>p. \A f \in Files : flush.taken[f] = {}
    BY <1>0 DEF CheckpointInv, FlushSyncs
  <1>n. ~flush.durable /\ flush.verified \subseteq flush.completed
        /\ (~stateDirty /\ ~closing => held \subseteq flush.verified /\ ~Quiescent)
    BY <1>0 DEF ProgressFits, FlushFits
  <1>u. unstamped \subseteq Files
    BY DEF CheckpointInv, ResumeTypeOK, StorageTypeOK
  <1>1. ListsFit'
    BY <1>0, <1>h, <1>n DEF ProgressFits, ListsFit, Working
  <1>2. CheckpointFits'
    <2>. SUFFICES ASSUME checkpoint.valid, checkpoint.complete PROVE CheckpointFits'
      BY <1>0 DEF CheckpointFits
    <2>1. demoted' => forced
      BY <1>0, <1>h DEF ProgressFits, CheckpointFits
    <2>2. \A f \in Files : stateFile'.ids[f] = checkpoint.ids[f] \/ "sync" \in dirty'[f]
      BY <1>0, <1>h, RefreshOwes
    <2>3. stateFile'.is /\ (~demoted' => stateFile'.verified = checkpoint.verified)
      BY <1>0, <1>h
    <2>4. ~forced => checkpoint.verified \subseteq held
      BY DEF ProgressFits, CheckpointFits
    <2>. QED BY <1>0, <2>1, <2>2, <2>3, <2>4, IdleFacts DEF CheckpointFits
  <1>3. FlushFits'
    BY <1>0, <1>h, <1>n, IdleFacts DEF FlushFits, Settling
  <1>4. MapsFit'
    BY <1>0, <1>u, IdleFacts, RefreshOwes DEF ProgressFits, MapsFit, Settling
  <1>5. TrustFits'
    BY <1>0, <1>p, IdleFacts, RefreshOwes DEF ProgressFits, TrustFits, Trusts, SweptRight, StillDescribes,
       Undisturbed, Up, Writing, Settling
  <1>6. SweepFits' /\ CoverFits'
    BY <1>0, <1>n, IdleFacts DEF SweepFits, CoverFits, Quiescent
  <1>. QED BY <1>1, <1>2, <1>3, <1>4, <1>5, <1>6 DEF ProgressFits

\* A flush that fails owes what it took.
LEMMA FailFits ==
    ASSUME CheckpointInv, CheckpointInv', ProgressFits, FlushFails PROVE ProgressFits'
  <1>0. /\ UNCHANGED <<disk, edited, stateFile, syncedState, plan, forced, demoted, power, held, unverified, toHash, closing>>
        /\ UNCHANGED <<jobs, paused, finishing, unmarked, checkpoint, mapped, mappedDirty, unstamped>>
        /\ flush' = Idle /\ stateDirty' /\ failed'
        /\ \/ flush.stage = "hint" /\ RefreshDirty
           \/ dirty' = Pending(FALSE)
    BY DEF FlushFails, Fault, payload, stateFiles
  <1>k. \A f \in Files : "sync" \in dirty[f] \cup flush.taken[f] => "sync" \in dirty'[f]
    <2>1. CASE flush.stage = "hint" /\ RefreshDirty
      BY <2>1, RefreshOwes DEF CheckpointInv, FlushSyncs
    <2>2. CASE dirty' = Pending(FALSE)
      BY <2>2 DEF Pending
    <2>. QED BY <1>0, <2>1, <2>2
  <1>u. unstamped \subseteq Files
    BY DEF CheckpointInv, ResumeTypeOK, StorageTypeOK
  <1>1. ListsFit'
    BY <1>0 DEF ProgressFits, ListsFit, Working
  <1>2. CheckpointFits'
    BY <1>0, <1>k, IdleFacts DEF ProgressFits, CheckpointFits
  <1>3. FlushFits'
    BY <1>0, IdleFacts DEF FlushFits, Settling
  <1>4. MapsFit'
    BY <1>0, <1>k, <1>u, IdleFacts DEF ProgressFits, MapsFit, Settling
  <1>5. TrustFits' /\ SweepFits' /\ CoverFits'
    BY <1>0 DEF TrustFits, SweepFits, CoverFits, Undisturbed
  <1>. QED BY <1>1, <1>2, <1>3, <1>4, <1>5 DEF ProgressFits

\* A file with a write that is not marked belongs to a piece that is being written.
LEMMA WritersWork == ASSUME CheckpointInv, NEW f \in Files, Writing(f) \/ f \in mappedDirty PROVE Active(f)
  BY DEF CheckpointInv, WritesAreNew, Writing, Active, Working

\* The checkpoint in force is current, and no flush is needed.
LEMMA CurrentFits ==
    ASSUME CheckpointInv, CheckpointInv', ProgressFits, ClaimsFit, SwapDirty, checkpointCurrent
    PROVE  ProgressFits'
  <1>0. /\ UNCHANGED <<disk, edited, failed, stateFile, syncedState, plan, forced, demoted, power, held, unverified, toHash, closing>>
        /\ UNCHANGED <<jobs, paused, stateDirty, finishing, unmarked, dirty, trusted, checkpoint, mapped, mappedDirty>>
        /\ UNCHANGED unstamped
        /\ flush.stage = "swap" /\ flush' = Idle
    BY DEF SwapDirty, payload, stateFiles, session, bounds
  <1>c. /\ checkpoint.valid /\ checkpoint.complete /\ checkpoint.verified = flush.verified
        /\ \A f \in Files : dirty[f] = {} /\ flush.taken[f] = {}
    BY <1>0 DEF checkpointCurrent, CheckpointInv, FlushSyncs
  <1>v. /\ stateFile.is /\ (~(forced /\ demoted) => stateFile.verified = flush.verified)
        /\ \A f \in Files : stateFile.ids[f] = checkpoint.ids[f]
        /\ ~stateDirty /\ ~closing => held = flush.verified
    BY <1>0, <1>c DEF ProgressFits, CheckpointFits, FlushFits, CheckpointInv, FlushSyncs
  <1>w. flush.verified \subseteq stateFile.completed
    <2>1. \A p \in Pieces : ~WrittenSince(p)
      BY <1>c, Constants DEF WrittenSince
    <2>2. flush.verified \subseteq Pieces
      BY FlushTypes DEF CheckpointInv, FlushType
    <2>. QED BY <1>0, <1>c, <2>1, <2>2 DEF ClaimsFit, Settling
  <1>1. ListsFit'
    BY <1>0 DEF ProgressFits, ListsFit, Working
  <1>2. CheckpointFits'
    BY <1>0, <1>c, IdleFacts DEF ProgressFits, CheckpointFits
  <1>3. FlushFits'
    BY <1>0, <1>v, <1>w, IdleFacts DEF FlushFits, Settling
  <1>4. MapsFit'
    BY <1>0, IdleFacts DEF ProgressFits, MapsFit, Settling
  <1>5. TrustFits'
    BY <1>0, <1>c, IdleFacts DEF ProgressFits, TrustFits, Trusts, SweptRight, StillDescribes,
       Undisturbed, Up, Writing, Settling
  <1>6. SweepFits'
    BY <1>0, IdleFacts DEF SweepFits
  <1>7. CoverFits'
    <2>. SUFFICES ASSUME Undisturbed, ~closing, ~stateDirty, NEW p \in held, NEW f \in Overlaps[p]
                  PROVE  Described(stateFile.ids, f)
      BY <1>0, <1>v DEF CoverFits, Described, Active, Working, Undisturbed, Up
    <2>1. p \in Pieces /\ f \in Files
      BY Constants DEF CheckpointInv, ResumeTypeOK, SessionTypeOK
    <2>2. StillDescribes(f) /\ In(f) # {}
      BY <2>1 DEF ProgressFits, TrustFits, In
    <2>3. checkpoint.ids[f] = disk[f].stamp \/ f \in mapped \/ Writing(f)
      BY <1>c, <2>1, <2>2 DEF StillDescribes
    <2>. QED BY <1>v, <2>1, <2>3, WritersWork DEF Described, Active
  <1>. QED BY <1>1, <1>2, <1>3, <1>4, <1>5, <1>6, <1>7 DEF ProgressFits

\* The dirty files are taken.
LEMMA TakeFits ==
    ASSUME CheckpointInv, CheckpointInv', ProgressFits, SwapDirty, ~checkpointCurrent PROVE ProgressFits'
  <1>0. /\ UNCHANGED <<disk, edited, failed, stateFile, syncedState, plan, forced, demoted, power, held, unverified, toHash, closing>>
        /\ UNCHANGED <<jobs, paused, stateDirty, finishing, unmarked, trusted, checkpoint, mapped, mappedDirty>>
        /\ UNCHANGED unstamped
        /\ flush.stage = "swap" /\ flush' = [flush EXCEPT !.stage = "sweep", !.taken = dirty]
        /\ dirty' = [f \in Files |-> {}]
    BY DEF SwapDirty, payload, stateFiles, session, bounds
  <1>t. flush \in FlushType /\ dirty \in DirtyType /\ unstamped \subseteq Files
    BY FlushTypes DEF CheckpointInv, ResumeTypeOK, StorageTypeOK
  <1>f. /\ flush'.stage = "sweep" /\ flush'.durable = flush.durable /\ flush'.verified = flush.verified
        /\ flush'.completed = flush.completed /\ flush'.taken = dirty /\ flush'.ids = flush.ids
        /\ flush'.at = 1 /\ flush'.before = 0
    BY <1>0, <1>t DEF FlushType, CheckpointInv, FlushSyncs
  <1>p. \A f \in Files : flush.taken[f] = {} /\ flush.ids[f] = 0
    BY <1>0 DEF CheckpointInv, FlushSyncs
  <1>1. ListsFit'
    BY <1>0 DEF ProgressFits, ListsFit, Working
  <1>2. CheckpointFits'
    BY <1>0, <1>f, <1>p DEF ProgressFits, CheckpointFits
  <1>3. FlushFits'
    BY <1>0, <1>f DEF ProgressFits, FlushFits, Settling, Quiescent
  <1>4. MapsFit'
    BY <1>0, <1>f, <1>t DEF ProgressFits, MapsFit, Settling
  <1>5. TrustFits'
    <2>1. \A f \in Files : f \in mapped => f \in mappedDirty
      BY <1>0 DEF ProgressFits, MapsFit, Settling
    <2>. QED BY <1>0, <1>f, <1>p, <2>1 DEF ProgressFits, TrustFits, Trusts, SweptRight, StillDescribes,
            Undisturbed, Up, Writing, Settling
  <1>6. SweepFits'
    <2>1. \A f \in Files : ~(f < 1)
      BY Constants
    <2>. QED BY <1>0, <1>f, <2>1 DEF SweepFits
  <1>7. CoverFits'
    BY <1>f DEF CoverFits
  <1>. QED BY <1>1, <1>2, <1>3, <1>4, <1>5, <1>6, <1>7 DEF ProgressFits

\* A file is looked at before it is synced.
LEMMA StatFits ==
    ASSUME CheckpointInv, CheckpointInv', ProgressFits, StatBefore PROVE ProgressFits'
  <1>0. /\ UNCHANGED <<disk, edited, failed, stateFile, syncedState, plan, forced, demoted, power, held, unverified, toHash, closing>>
        /\ UNCHANGED <<jobs, paused, stateDirty, finishing, unmarked, dirty, trusted, checkpoint, mapped, mappedDirty>>
        /\ UNCHANGED unstamped
        /\ flush.stage = "sweep"
    BY DEF StatBefore, Sweeping, payload, stateFiles, session, storage, bounds
  <1>f. /\ flush'.stage = flush.stage /\ flush'.durable = flush.durable /\ flush'.verified = flush.verified
        /\ flush'.completed = flush.completed /\ flush'.taken = flush.taken /\ flush'.ids = flush.ids
        /\ flush'.at = flush.at /\ flush'.before = disk[flush.at].stamp
    <2>1. flush \in FlushType
      BY FlushTypes DEF CheckpointInv
    <2>. QED BY <2>1 DEF StatBefore, FlushType
  <1>1. ListsFit'
    BY <1>0 DEF ProgressFits, ListsFit, Working
  <1>2. CheckpointFits'
    BY <1>0, <1>f DEF ProgressFits, CheckpointFits
  <1>3. FlushFits'
    BY <1>0, <1>f DEF ProgressFits, FlushFits, Settling, Quiescent
  <1>4. MapsFit'
    BY <1>0, <1>f DEF ProgressFits, MapsFit, Settling
  <1>5. TrustFits'
    BY <1>0, <1>f DEF ProgressFits, TrustFits, Trusts, SweptRight, StillDescribes, Undisturbed, Up, Writing, Settling
  <1>6. SweepFits'
    BY <1>0, <1>f DEF ProgressFits, SweepFits, Described, Active, Working, Undisturbed, Up
  <1>7. CoverFits'
    BY <1>0, <1>f DEF CoverFits
  <1>. QED BY <1>1, <1>2, <1>3, <1>4, <1>5, <1>6, <1>7 DEF ProgressFits

\* A file is synced; the stamp that is recorded is the one it has.
LEMMA SyncFits ==
    ASSUME CheckpointInv, CheckpointInv', ProgressFits, SyncAndStat PROVE ProgressFits'
  <1>0. /\ UNCHANGED <<edited, stateFile, syncedState, plan, forced, demoted, power, held, unverified, toHash, closing>>
        /\ UNCHANGED <<jobs, paused, stateDirty, finishing, unmarked, dirty, trusted, checkpoint, mapped, mappedDirty>>
        /\ UNCHANGED unstamped
        /\ flush.stage = "sweep" /\ flush.before # 0
    BY DEF SyncAndStat, Sweeping, Fault, stateFiles, session, storage, bounds
  <1>t. ResumeTypeOK /\ flush \in FlushType /\ disk \in [Files -> FileType]
    BY FlushTypes, DiskTypes DEF CheckpointInv
  <1>a. PICK f \in Files : f = flush.at /\ f \in Nat
    <2>1. flush.at \in Nat \ {0} /\ flush.at <= NumFiles /\ NumFiles \in Nat
      BY <1>t, ResumeAssumption DEF FlushType, SyncAndStat, Sweeping
    <2>. QED BY <2>1 DEF Files
  <1>z. flush.ids[f] = 0
    <2>1. ~(f < f)
      BY <1>a
    <2>. QED BY <1>a, <2>1 DEF CheckpointInv, FlushSyncs
  <1>f. /\ flush'.stage = "sweep" /\ flush'.durable = flush.durable /\ flush'.verified = flush.verified
        /\ flush'.completed = flush.completed /\ flush'.taken = flush.taken
        /\ flush'.at = f + 1 /\ flush'.before = 0
        /\ \A g \in Files : g # f => flush'.ids[g] = flush.ids[g]
        /\ \/ /\ flush'.ids[f] = IF Trustworthy(f) THEN flush.before ELSE 0
              /\ disk' = IF "sync" \in flush.taken[f] THEN Synced(f) ELSE disk
              /\ failed' = failed
           \/ flush'.ids[f] = 0 /\ disk' = disk /\ failed'
    <2>0. flush.ids \in [Files -> Nat] /\ flush.before \in Nat
      BY <1>t DEF FlushType, Ids
    <2>1. CASE /\ flush' = [flush EXCEPT !.at = f + 1, !.before = 0,
                                         !.ids[f] = IF Trustworthy(f) THEN flush.before ELSE 0]
               /\ disk' = IF "sync" \in flush.taken[f] THEN Synced(f) ELSE disk
               /\ failed' = failed
      <3>1. PICK id \in Nat : id = IF Trustworthy(f) THEN flush.before ELSE 0
        BY <2>0
      <3>2. PICK ids \in Ids : ids = [flush.ids EXCEPT ![f] = id]
        BY <2>0, <3>1 DEF Ids
      <3>3. flush' = [flush EXCEPT !.at = f + 1, !.before = 0, !.ids = ids]
        BY <1>t, <2>1, <3>1, <3>2 DEF FlushType
      <3>4. /\ flush'.stage = flush.stage /\ flush'.durable = flush.durable /\ flush'.verified = flush.verified
            /\ flush'.completed = flush.completed /\ flush'.taken = flush.taken
            /\ flush'.at = f + 1 /\ flush'.before = 0 /\ flush'.ids = ids
        BY <1>t, <1>a, <3>3 DEF FlushType
      <3>5. ids[f] = id /\ \A g \in Files : g # f => ids[g] = flush.ids[g]
        BY <1>a, <2>0, <3>2
      <3>. QED BY <1>0, <2>1, <3>1, <3>4, <3>5
    <2>2. CASE flush' = [flush EXCEPT !.at = f + 1, !.before = 0] /\ disk' = disk /\ failed'
      BY <1>0, <1>t, <1>a, <1>z, <2>2 DEF FlushType
    <2>. QED BY <1>a, <2>1, <2>2 DEF SyncAndStat, bounds
  <1>d. \A g \in Files : /\ disk'[g].stamp = disk[g].stamp
                         /\ disk'[g].syncedStamp \in {disk[g].syncedStamp, disk[g].stamp}
    BY <1>t, <1>a, <1>f, SyncedFacts
  <1>e. Undisturbed' => Undisturbed /\ flush'.ids[f] = IF Trustworthy(f) THEN flush.before ELSE 0
    BY <1>0, <1>f DEF Undisturbed, Up
  <1>1. ListsFit'
    BY <1>0, <1>d DEF ProgressFits, ListsFit, Working
  <1>2. CheckpointFits'
    BY <1>0, <1>f DEF ProgressFits, CheckpointFits
  <1>3. FlushFits'
    BY <1>0, <1>f DEF ProgressFits, FlushFits, Settling, Quiescent
  <1>4. MapsFit'
    BY <1>0, <1>f DEF ProgressFits, MapsFit, Settling
  <1>5. TrustFits'
    <2>. SUFFICES ASSUME Undisturbed', NEW g \in Files PROVE (Trusts(g) /\ SweptRight(g) /\ StillDescribes(g))'
      BY DEF TrustFits
    <2>1. Trusts(g) /\ SweptRight(g) /\ StillDescribes(g)
      BY <1>e DEF ProgressFits, TrustFits
    <2>2. Trusts(g)' /\ StillDescribes(g)'
      BY <1>0, <1>f, <1>d, <2>1 DEF Trusts, StillDescribes, Writing, Settling
    <2>3. CASE g = f
      BY <1>a, <1>d, <1>e, <2>2, <2>3 DEF SweptRight, Trustworthy
    <2>4. CASE g # f
      BY <1>0, <1>f, <1>d, <2>1, <2>2, <2>4 DEF SweptRight, Writing
    <2>. QED BY <2>3, <2>4
  <1>6. SweepFits'
    <2>. SUFFICES ASSUME Undisturbed', ~closing, ~stateDirty
                  PROVE  /\ \A g \in Files : g < f + 1 => Described(flush.ids, g)'
                         /\ \A g \in Files : dirty[g] = {} \/ Active(g)
      BY <1>0, <1>f DEF SweepFits, Active, Working
    <2>1. /\ flush.before = disk[f].stamp \/ Active(f)
          /\ \A g \in Files : g < f => Described(flush.ids, g)
          /\ \A g \in Files : dirty[g] = {} \/ Active(g)
      BY <1>0, <1>a, <1>e DEF ProgressFits, SweepFits
    <2>2. \A g \in Files : Active(g)' = Active(g)
      BY <1>0 DEF Active, Working
    <2>3. Described(flush.ids, f)'
      <3>. SUFFICES ASSUME ~Active(f) PROVE flush'.ids[f] = disk'[f].stamp
        BY <2>2 DEF Described
      <3>1. flush.before = disk[f].stamp /\ dirty[f] = {} /\ ~Writing(f) /\ f \notin mappedDirty /\ f \notin mapped
        BY <2>1, WritersWork DEF Active
      <3>2. Trusts(f)
        BY <1>e DEF ProgressFits, TrustFits
      <3>3. trusted[f] = disk[f].stamp \/ "meta" \in flush.taken[f]
        BY <3>1, <3>2 DEF Trusts
      <3>4. Trustworthy(f)
        BY <3>1, <3>3 DEF Trustworthy
      <3>. QED BY <1>d, <1>e, <3>1, <3>4
    <2>4. ASSUME NEW g \in Files, g < f + 1, g # f PROVE Described(flush.ids, g)'
      <3>1. g \in Nat /\ g < f
        BY <1>a, <2>4, Constants
      <3>. QED BY <1>f, <1>d, <2>1, <2>2, <2>4, <3>1 DEF Described
    <2>. QED BY <2>1, <2>3, <2>4
  <1>7. CoverFits'
    BY <1>f DEF CoverFits
  <1>. QED BY <1>1, <1>2, <1>3, <1>4, <1>5, <1>6, <1>7 DEF ProgressFits

\* The checkpoint is saved: every file at rest was found as it is.
LEMMA SaveFits ==
    ASSUME CheckpointInv, CheckpointInv', ProgressFits, SaveCheckpoint PROVE ProgressFits'
  <1>0. /\ UNCHANGED <<disk, edited, failed, plan, forced, power, held, unverified, toHash, closing>>
        /\ UNCHANGED <<jobs, paused, stateDirty, finishing, unmarked, mapped, mappedDirty, unstamped>>
        /\ Swept /\ flush.stage = "sweep" /\ flush' = Idle /\ dirty' = Pending(TRUE)
        /\ demoted' = FALSE
    BY DEF SaveCheckpoint, Swept, payload, session, bounds
  <1>t. flush \in FlushType /\ unstamped \subseteq Files /\ dirty \in DirtyType
    BY FlushTypes DEF CheckpointInv, ResumeTypeOK, StorageTypeOK
  <1>s. /\ stateFile'.is /\ stateFile'.ids = flush.ids /\ stateFile'.verified = flush.verified
        /\ stateFile'.completed = flush.completed /\ syncedState' = stateFile'
        /\ checkpoint'.ids = flush.ids /\ checkpoint'.verified = flush.verified
        /\ checkpoint'.complete => \A f \in Files : flush.ids[f] # 0
    BY DEF SaveCheckpoint
  <1>k. \A f \in Files : /\ dirty[f] \subseteq dirty'[f]
                         /\ flush.ids[f] # 0 => dirty'[f] = dirty[f]
                         /\ flush.ids[f] = 0 => dirty'[f] = dirty[f] \cup flush.taken[f]
    BY <1>0 DEF Pending
  <1>r. \A f \in Files : trusted'[f] = IF flush.ids[f] # 0 THEN flush.ids[f] ELSE trusted[f]
    BY DEF SaveCheckpoint
  <1>v. /\ flush.verified \subseteq flush.completed /\ flush.verified \subseteq held
        /\ ~stateDirty /\ ~closing => held \subseteq flush.verified
    BY <1>0 DEF ProgressFits, FlushFits, CheckpointInv, FlushSyncs
  <1>m. mapped \subseteq mappedDirty /\ mappedDirty \subseteq mapped
    BY <1>0 DEF ProgressFits, MapsFit, Settling, CheckpointInv, WritesAreNew
  <1>1. ListsFit'
    BY <1>0, <1>s, <1>v DEF ProgressFits, ListsFit, Working
  <1>2. CheckpointFits'
    BY <1>0, <1>s, <1>v, IdleFacts DEF CheckpointFits
  <1>3. FlushFits'
    BY <1>0, <1>s, <1>v, IdleFacts DEF FlushFits, Settling
  <1>4. MapsFit'
    BY <1>0, <1>m, <1>t, IdleFacts DEF ProgressFits, MapsFit, Settling
  <1>5. TrustFits'
    <2>. SUFFICES ASSUME Undisturbed', NEW f \in Files PROVE (Trusts(f) /\ SweptRight(f) /\ StillDescribes(f))'
      BY DEF TrustFits
    <2>1. Trusts(f) /\ SweptRight(f)
      BY <1>0 DEF ProgressFits, TrustFits, Undisturbed, Up
    <2>2. CASE flush.ids[f] # 0
      BY <1>0, <1>s, <1>k, <1>r, <1>m, <2>1, <2>2, IdleFacts DEF Trusts, SweptRight, StillDescribes, Writing
    <2>3. CASE flush.ids[f] = 0
      <3>1. ~checkpoint'.complete
        BY <1>s, <2>3
      <3>2. Trusts(f)'
        BY <1>0, <1>k, <1>r, <2>1, <2>3, IdleFacts DEF Trusts, Writing
      <3>. QED BY <1>0, <3>1, <3>2, IdleFacts DEF SweptRight, StillDescribes
    <2>. QED BY <2>2, <2>3
  <1>6. SweepFits'
    BY <1>0, IdleFacts DEF SweepFits
  <1>7. CoverFits'
    <2>h. ~stateDirty /\ ~closing => stateFile'.verified = held'
      BY <1>0, <1>s, <1>v
    <2>a. /\ Undisturbed' = Undisturbed
          /\ \A f \in Files : Described(stateFile.ids, f)' <=> Described(flush.ids, f)
      BY <1>0, <1>s DEF Described, Active, Working, Undisturbed, Up
    <2>o. \A p \in held : Overlaps[p] \subseteq Files
      BY Constants DEF CheckpointInv, ResumeTypeOK, SessionTypeOK
    <2>. SUFFICES ASSUME Undisturbed, ~closing, ~stateDirty, NEW p \in held, NEW f \in Overlaps[p]
                  PROVE  Described(flush.ids, f)
      BY <1>0, <2>h, <2>a, <2>o DEF CoverFits
    <2>1. p \in Pieces /\ f \in Files
      BY Constants DEF CheckpointInv, ResumeTypeOK, SessionTypeOK
    <2>2. f < flush.at
      <3>1. f \in Nat /\ f <= NumFiles /\ flush.at \in Nat /\ NumFiles \in Nat /\ flush.at > NumFiles
        BY <1>0, <1>t, <2>1, Constants, ResumeAssumption DEF FlushType, Swept
      <3>. QED BY <3>1
    <2>. QED BY <1>0, <2>1, <2>2 DEF ProgressFits, SweepFits
  <1>. QED BY <1>1, <1>2, <1>3, <1>4, <1>5, <1>6, <1>7 DEF ProgressFits

\* A start takes what the state file describes, and knows the stamps of the files.
LEMMA StartFits ==
    ASSUME Settles, CheckpointInv, CheckpointInv', ProgressFits, NEW force \in BOOLEAN, StartSession(force)
    PROVE  ProgressFits'
  <1>0. /\ UNCHANGED <<edited, failed, stateFile, syncedState, plan, closing, jobs, paused, stateDirty, finishing>>
        /\ UNCHANGED <<unmarked, dirty, mapped, mappedDirty, unstamped, flush>>
        /\ held' = (IF force THEN {} ELSE LoadedVerified) /\ forced' = force /\ demoted' = FALSE
        /\ unverified' = stateFile.completed \ held'
        /\ toHash' = IF stateFile.is THEN unverified' ELSE Pieces
        /\ checkpoint' = IF stateFile.is THEN adoptCheckpoint ELSE NoCheckpoint
        /\ \A f \in Files : trusted'[f] = disk[f].stamp
        /\ disk' = Settled
    BY DEF StartSession, stateFiles, bounds
  <1>e. /\ finishing = {} /\ mapped = {} /\ flush = Idle
        /\ \A p \in Pieces : jobs[p] = {}
        /\ unstamped = {}
    BY DEF StartSession, Up, CheckpointInv, DownIsClear, ProgressFits, MapsFit
  <1>d. \A f \in Files : disk'[f].stamp = disk[f].stamp /\ disk'[f].syncedStamp = disk[f].stamp
    BY <1>0, SettledFacts DEF CheckpointInv
  <1>l. /\ stateFile.verified \subseteq stateFile.completed /\ stateFile.completed \subseteq Pieces
        /\ ~stateFile.is => stateFile.completed = {}
    BY DEF ProgressFits, ListsFit, CheckpointInv, ResumeTypeOK, PayloadTypeOK, StateType
  <1>v. held' = (IF force THEN {} ELSE stateFile.verified \ Recheck) /\ held' \subseteq stateFile.verified
    BY <1>0, <1>l DEF LoadedVerified
  <1>r. \A f \in Files : \A p \in Pieces \ Recheck : f \in Overlaps[p] => stateFile.ids[f] = disk[f].stamp
    BY DEF Recheck
  <1>c. checkpoint'.valid /\ checkpoint'.complete =>
          /\ stateFile.is /\ Recheck = {}
          /\ checkpoint'.verified = stateFile.verified /\ checkpoint'.ids = stateFile.ids
    BY <1>0 DEF adoptCheckpoint, NoCheckpoint
  <1>1. ListsFit'
    BY <1>0, <1>e, <1>d, <1>l, <1>v DEF ProgressFits, ListsFit, Working
  <1>2. CheckpointFits'
    BY <1>0, <1>e, <1>v, <1>c, IdleFacts DEF CheckpointFits
  <1>3. FlushFits'
    BY <1>0, <1>e, <1>l, <1>v, IdleFacts DEF FlushFits, Settling
  <1>4. MapsFit'
    BY <1>0, <1>e DEF MapsFit
  <1>5. TrustFits'
    <2>1. ASSUME NEW f \in Files, In(f) # {}, Recheck = {} PROVE stateFile.ids[f] = disk[f].stamp
      BY <1>r, <2>1 DEF In
    <2>. QED BY <1>0, <1>e, <1>d, <1>c, <2>1, IdleFacts DEF TrustFits, Trusts, SweptRight, StillDescribes, In
  <1>6. SweepFits'
    BY <1>0, <1>e, IdleFacts DEF SweepFits
  <1>7. CoverFits'
    <2>1. \A p \in held' : p \in Pieces \ Recheck /\ Overlaps[p] \subseteq Files
      BY <1>l, <1>v, Constants
    <2>2. \A p \in held' : \A f \in Overlaps[p] : stateFile.ids[f] = disk'[f].stamp
      BY <1>d, <1>r, <2>1
    <2>3. Quiescent' /\ stateFile.is => stateFile.verified = held'
      BY <1>0, <1>l, <1>v DEF Quiescent
    <2>. QED BY <1>0, <2>2, <2>3 DEF CoverFits, Described
  <1>. QED BY <1>1, <1>2, <1>3, <1>4, <1>5, <1>6, <1>7 DEF ProgressFits

\* At first there is nothing to fit.
LEMMA FitsInitially == ResumeInit => ProgressFits
  <1>. SUFFICES ASSUME ResumeInit PROVE ProgressFits
    OBVIOUS
  <1>0. /\ \A f \in Files : disk[f].stamp = 1 /\ disk[f].syncedStamp = 1
        /\ ~Up /\ flush = Idle /\ checkpoint.valid = FALSE
        /\ stateFile = None /\ syncedState = None /\ None.is = FALSE /\ None.verified = {} /\ None.completed = {}
        /\ unverified = {} /\ held = {} /\ toHash = {} /\ finishing = {} /\ mapped = {} /\ unstamped = {}
        /\ \A p \in Pieces : jobs[p] = {}
    BY DEF ResumeInit, Up, None, NoCheckpoint
  <1>1. ListsFit
    BY <1>0 DEF ListsFit, Working
  <1>2. CheckpointFits /\ FlushFits /\ MapsFit
    BY <1>0, IdleFacts DEF CheckpointFits, FlushFits, MapsFit, Settling
  <1>3. TrustFits /\ SweepFits /\ CoverFits
    BY <1>0 DEF TrustFits, SweepFits, CoverFits, Undisturbed
  <1>. QED BY <1>1, <1>2, <1>3 DEF ProgressFits

\* Every step keeps it so.
LEMMA FitsStep ==
    ASSUME Settles, CheckpointInv, ProgressFits, ClaimsFit, [ResumeNext]_resumeVars
    PROVE  ProgressFits'
  <1>0. CheckpointInv'
    BY CheckpointStep
  <1>1. CASE UNCHANGED resumeVars
    <2>1. UNCHANGED <<disk, edited, failed, stateFile, syncedState, plan, power, held, unverified, toHash, closing, jobs, paused,
                      forced, demoted, stateDirty, finishing, unmarked, dirty, trusted, checkpoint, mapped, mappedDirty, unstamped, flush>>
      BY <1>1 DEF resumeVars, payload, stateFiles, session, storage, bounds
    <2>2. ListsFit' /\ CheckpointFits' /\ FlushFits' /\ MapsFit'
      BY <2>1 DEF ProgressFits, ListsFit, Working, CheckpointFits, FlushFits, Up, Settling, Quiescent, MapsFit
    <2>3. TrustFits'
      BY <2>1 DEF ProgressFits, TrustFits, Trusts, SweptRight, StillDescribes, Undisturbed, Up, Writing, Settling
    <2>4. SweepFits' /\ CoverFits'
      BY <2>1 DEF ProgressFits, SweepFits, CoverFits, Described, Active, Working, Undisturbed, Up, Quiescent
    <2>. QED BY <2>2, <2>3, <2>4 DEF ProgressFits
  <1>2. CASE \E force \in Rechecks : StartSession(force)
    <2>1. \A force \in Rechecks : force \in BOOLEAN
      BY ResumeAssumption
    <2>. QED BY <1>0, <1>2, <2>1, StartFits
  <1>3. CASE \E p \in Pieces : \/ HashPiece(p) \/ QueueWrite(p) \/ WriteMapped(p) \/ FinishPiece(p)
                               \/ \E f \in Files : WriteFileAt(p, f) \/ MarkWritten(p, f)
    BY <1>0, <1>3, HashFits, QueueFits, WriteMappedFits, FinishFits, WriteFits, MarkFits
  <1>4. CASE \E f \in Files : ReadMapped(f) \/ PageOut(f) \/ EditFile(f)
    BY <1>0, <1>4, ReadFits, PageFits, EditFits
  <1>5. CASE SetPaused \/ BeginClose \/ CloseStorage \/ Crash \/ PowerLoss
    BY <1>0, <1>5, UserFits, EndFits
  <1>6. CASE BeginFlush \/ ReleaseForCheckpoint \/ StampMapped \/ SaveHint \/ SwapDirty \/ StatBefore \/ SyncAndStat
             \/ SaveCheckpoint \/ FlushFails
    BY <1>0, <1>6, BeginFits, ReleaseFits, StampFits, HintFits, CurrentFits, TakeFits, StatFits, SyncFits,
       SaveFits, FailFits
  <1>. QED BY <1>1, <1>2, <1>3, <1>4, <1>5, <1>6 DEF ResumeNext

\* What the checkpoint has proven stays claimed, or written since: where the lists
\* lose nothing but by hashing, and no write is forgotten.
LEMMA ClaimsFrame ==
    ASSUME CheckpointInv, ProgressFits, ClaimsFit,
           UNCHANGED <<checkpoint, stateFile, flush>>, toHash \subseteq unverified => toHash' \subseteq unverified',
           \A f \in Files : dirty[f] \subseteq dirty'[f], mappedDirty \subseteq mappedDirty',
           held' \cup unverified' \subseteq held \cup unverified \cup finishing,
           \A p \in finishing' \ finishing : WrittenSince(p)' \/ MappedSince(p)'
    PROVE  ClaimsFit'
  <1>1. /\ \A p \in Pieces : Overlaps[p] \subseteq Files
        /\ checkpoint.verified \subseteq Pieces
    BY Constants, FlushTypes DEF CheckpointInv, CheckpointType
  <1>2. \A p \in Pieces : (WrittenSince(p) => WrittenSince(p)') /\ (MappedSince(p) => MappedSince(p)')
    BY <1>1 DEF WrittenSince, MappedSince
  <1>. QED BY <1>1, <1>2 DEF ClaimsFit, Settling

\* ... or where a flush goes on, and what it takes is not forgotten.
LEMMA ClaimsFlush ==
    ASSUME CheckpointInv, ProgressFits, ClaimsFit,
           UNCHANGED <<checkpoint, stateFile, toHash, unverified, held, finishing>>,
           flush'.stage # "idle" => flush.stage # "idle" /\ flush'.completed = flush.completed /\ flush'.verified = flush.verified,
           \A f \in Files : "sync" \in dirty[f] \cup flush.taken[f] => "sync" \in dirty'[f] \cup flush'.taken[f],
           \A f \in mappedDirty : f \in mappedDirty' \/ "sync" \in dirty'[f],
           Settling' => Settling \/ mappedDirty' = {}
    PROVE  ClaimsFit'
  <1>1. /\ \A p \in Pieces : Overlaps[p] \subseteq Files
        /\ checkpoint.verified \subseteq Pieces
        /\ flush.stage # "idle" => flush.verified \subseteq held
    BY Constants, FlushTypes DEF CheckpointInv, CheckpointType, FlushSyncs
  <1>2. \A p \in Pieces : /\ WrittenSince(p) => WrittenSince(p)'
                          /\ MappedSince(p) => WrittenSince(p)' \/ MappedSince(p)'
    BY <1>1 DEF WrittenSince, MappedSince
  <1>3. mappedDirty' = {} => \A p \in Pieces : ~MappedSince(p)'
    BY DEF MappedSince
  <1>. QED BY <1>1, <1>2, <1>3 DEF ClaimsFit, Settling

LEMMA ClaimsStep ==
    ASSUME CheckpointInv, CheckpointInv', ProgressFits, ClaimsFit, [ResumeNext]_resumeVars PROVE ClaimsFit'
  <1>t. /\ \A p \in Pieces : Overlaps[p] \subseteq Files
        /\ held \subseteq Pieces /\ unverified \subseteq Pieces /\ finishing \subseteq Pieces
        /\ checkpoint.verified \subseteq Pieces /\ flush.verified \subseteq Pieces
        /\ flush \in FlushType /\ dirty \in DirtyType
    BY Constants, FlushTypes DEF CheckpointInv, ResumeTypeOK, SessionTypeOK, FlushType, CheckpointType
  <1>1. CASE UNCHANGED resumeVars \/ SetPaused \/ BeginClose \/ \E f \in Files : ReadMapped(f) \/ PageOut(f) \/ EditFile(f)
    <2>1. /\ UNCHANGED <<checkpoint, stateFile, flush, toHash, unverified, dirty, mappedDirty, held, finishing>>
      BY <1>1 DEF resumeVars, SetPaused, BeginClose, ReadMapped, PageOut, EditFile, stateFiles, session, storage
    <2>. QED BY <2>1, ClaimsFrame
  <1>2. CASE \E p \in Pieces : HashPiece(p) \/ QueueWrite(p) \/ FinishPiece(p) \/ \E f \in Files : WriteFileAt(p, f)
    <2>1. /\ UNCHANGED <<checkpoint, stateFile, flush, dirty, mappedDirty>> /\ finishing' \subseteq finishing
          /\ toHash \subseteq unverified => toHash' \subseteq unverified'
          /\ held' \cup unverified' \subseteq held \cup unverified \cup finishing \cup toHash
          /\ unverified' \subseteq unverified
      BY <1>2 DEF HashPiece, QueueWrite, FinishPiece, WriteFileAt, stateFiles, session, storage
    <2>2. CASE toHash \subseteq unverified
      BY <2>1, <2>2, ClaimsFrame
    <2>3. CASE ~(toHash \subseteq unverified)
      BY <2>1, <2>3 DEF ClaimsFit
    <2>. QED BY <2>2, <2>3
  <1>3. ASSUME NEW p \in Pieces, NEW f \in Files, MarkWritten(p, f) PROVE ClaimsFit'
    <2>1. /\ UNCHANGED <<checkpoint, stateFile, flush, toHash, unverified, mappedDirty, held>>
          /\ dirty' = [dirty EXCEPT ![f] = {"meta", "sync"}] /\ f \in Overlaps[p] /\ finishing' \subseteq finishing \cup {p}
      BY <1>3 DEF MarkWritten, Wrote, stateFiles, CheckpointInv, WritesAreNew
    <2>2. "sync" \in dirty'[f] /\ \A g \in Files : dirty[g] \subseteq dirty'[g]
      BY <1>t, <2>1 DEF DirtyType
    <2>3. WrittenSince(p)'
      BY <2>1, <2>2 DEF WrittenSince
    <2>. QED BY <2>1, <2>2, <2>3, ClaimsFrame
  <1>4. ASSUME NEW p \in Pieces, WriteMapped(p) PROVE ClaimsFit'
    <2>1. /\ UNCHANGED <<checkpoint, stateFile, flush, toHash, unverified, dirty, held>>
          /\ mappedDirty' = mappedDirty \cup jobs[p] /\ jobs[p] # {} /\ jobs[p] \subseteq Overlaps[p]
          /\ finishing' \subseteq finishing \cup {p}
      BY <1>4 DEF WriteMapped, Wrote, stateFiles, CheckpointInv, WritesAreNew
    <2>2. MappedSince(p)'
      BY <2>1 DEF MappedSince
    <2>. QED BY <2>1, <2>2, ClaimsFrame
  <1>5. CASE CloseStorage \/ Crash \/ PowerLoss
    <2>1. ProcessEnds
      BY <1>5 DEF CloseStorage, Crash, PowerLoss, Gone
    <2>2. ~checkpoint'.valid
      BY <2>1 DEF ProcessEnds, NoCheckpoint
    <2>. QED BY <2>2 DEF ClaimsFit
  <1>6. CASE \E force \in Rechecks : StartSession(force)
    <2>1. flush' = Idle /\ finishing' = {} /\ stateFile' = stateFile
      BY <1>6 DEF StartSession, Up, CheckpointInv, DownIsClear, stateFiles
    <2>2. checkpoint'.valid => /\ checkpoint'.verified = stateFile.verified
                               /\ toHash' = unverified'
      BY <1>6 DEF StartSession, adoptCheckpoint, NoCheckpoint
    <2>3. stateFile.verified \subseteq stateFile.completed
      BY DEF ProgressFits, ListsFit
    <2>. QED BY <2>1, <2>2, <2>3, IdleFacts DEF ClaimsFit, Settling
  <1>7. CASE BeginFlush
    <2>1. /\ UNCHANGED <<checkpoint, stateFile, toHash, unverified, dirty, mappedDirty, held, finishing>>
          /\ flush.stage = "idle"
      BY <1>7 DEF BeginFlush, payload, stateFiles, storage
    <2>2. /\ flush'.verified = held /\ flush'.completed = held \cup unverified
          /\ flush'.stage \in {"settle", "swap", "hint"} /\ (flush'.stage = "swap" => ~plan.mmap)
      <3>1. PICK i \in FlushType : i = Idle
        BY IdleFacts DEF FlushType
      <3>2. PICK stage \in {"settle", "swap", "hint"} :
              stage = (IF plan.mmap THEN "settle" ELSE IF Quiescent THEN "swap" ELSE "hint")
              /\ (stage = "swap" => ~plan.mmap)
        OBVIOUS
      <3>3. PICK q \in BOOLEAN : q = Quiescent
        BY DEF Quiescent
      <3>4. held \cup unverified \in SUBSET Pieces /\ held \in SUBSET Pieces
        BY <1>t
      <3>5. flush' = [i EXCEPT !.stage = stage, !.durable = q, !.verified = held, !.completed = held \cup unverified]
        BY <1>7, <3>1, <3>2, <3>3 DEF BeginFlush
      <3>6. flush'.stage = stage /\ flush'.verified = held /\ flush'.completed = held \cup unverified
        BY <3>1, <3>2, <3>4, <3>5 DEF FlushType
      <3>. QED BY <3>2, <3>6
    <2>3. \A f \in Files : flush.taken[f] = {} /\ flush'.taken[f] = {}
      BY <2>1, <2>2 DEF CheckpointInv, FlushSyncs
    <2>4. ~plan.mmap => mappedDirty = {}
      BY DEF CheckpointInv, WritesAreNew
    <2>5. \A p \in Pieces : (WrittenSince(p) <=> WrittenSince(p)') /\ (MappedSince(p) <=> MappedSince(p)')
      BY <1>t, <2>1, <2>3 DEF WrittenSince, MappedSince
    <2>6. ~plan.mmap => \A p \in Pieces : ~MappedSince(p)
      BY <2>4 DEF MappedSince
    <2>. QED BY <1>t, <2>1, <2>2, <2>5, <2>6 DEF ClaimsFit, Settling
  <1>8. CASE ReleaseForCheckpoint
    <2>1. /\ UNCHANGED <<checkpoint, stateFile, toHash, unverified, held, finishing>>
          /\ flush.stage = "settle" /\ mappedDirty' = {}
      BY <1>8 DEF ReleaseForCheckpoint, stateFiles, session, CheckpointInv, WritesAreNew
    <2>2. /\ flush'.completed = flush.completed /\ flush'.verified = flush.verified /\ flush'.taken = flush.taken
      BY <1>8, <1>t DEF ReleaseForCheckpoint, FlushType
    <2>3. /\ \A f \in Files : dirty[f] \subseteq dirty'[f]
          /\ \A f \in mappedDirty : "sync" \in dirty'[f]
      <3>1. mappedDirty \subseteq mapped /\ mapped \subseteq Files
        BY DEF CheckpointInv, WritesAreNew, ResumeTypeOK, StorageTypeOK
      <3>. QED BY <1>8, <1>t, <3>1 DEF ReleaseForCheckpoint, DirtyType
    <2>. QED BY <2>1, <2>2, <2>3, ClaimsFlush
  <1>9. CASE StampMapped
    <2>1. /\ UNCHANGED <<checkpoint, stateFile, toHash, unverified, held, finishing>>
          /\ flush.stage = "settle" /\ mappedDirty' = {}
          /\ \A f \in Files : dirty'[f] = IF f \in mappedDirty THEN {"meta", "sync"} ELSE dirty[f]
      BY <1>9 DEF StampMapped, stateFiles, session
    <2>2. /\ flush'.completed = flush.completed /\ flush'.verified = flush.verified /\ flush'.taken = flush.taken
      BY <1>9, <1>t DEF StampMapped, FlushType
    <2>3. mappedDirty \subseteq Files
      BY DEF CheckpointInv, WritesAreNew, ResumeTypeOK, StorageTypeOK
    <2>. QED BY <2>1, <2>2, <2>3, ClaimsFlush
  <1>10. CASE SaveHint
    <2>1. /\ UNCHANGED <<checkpoint, toHash, unverified, held, finishing, mappedDirty>>
          /\ flush.stage = "hint" /\ flush' = Idle /\ RefreshDirty /\ stateFile'.completed = flush.completed
      BY <1>10 DEF SaveHint, Hint, session
    <2>2. \A f \in Files : "sync" \in dirty[f] \cup flush.taken[f] => "sync" \in dirty'[f]
      BY <2>1, RefreshOwes DEF CheckpointInv, FlushSyncs
    <2>3. \A p \in Pieces : (WrittenSince(p) => WrittenSince(p)') /\ (MappedSince(p) => MappedSince(p)')
      BY <1>t, <2>1, <2>2 DEF WrittenSince, MappedSince
    <2>. QED BY <1>t, <2>1, <2>3, IdleFacts DEF ClaimsFit, Settling
  <1>11. CASE SwapDirty \/ StatBefore \/ SyncAndStat
    <2>1. UNCHANGED <<checkpoint, stateFile, toHash, unverified, held, finishing, mappedDirty>> /\ Settling
      BY <1>11 DEF SwapDirty, StatBefore, SyncAndStat, Sweeping, Settling, stateFiles, session, storage
    <2>2. /\ \A f \in Files : "sync" \in dirty[f] \cup flush.taken[f] => "sync" \in dirty'[f] \cup flush'.taken[f]
          /\ flush'.stage # "idle" => flush'.completed = flush.completed /\ flush'.verified = flush.verified
      <3>1. CASE SwapDirty /\ checkpointCurrent
        <4>1. flush.stage = "swap" /\ flush' = Idle /\ dirty' = dirty
          BY <3>1 DEF SwapDirty
        <4>. QED BY <4>1, IdleFacts DEF CheckpointInv, FlushSyncs
      <3>2. CASE SwapDirty /\ ~checkpointCurrent
        <4>1. flush.stage = "swap" /\ flush' = [flush EXCEPT !.stage = "sweep", !.taken = dirty]
          BY <3>2 DEF SwapDirty
        <4>2. flush'.completed = flush.completed /\ flush'.verified = flush.verified /\ flush'.taken = dirty
          BY <1>t, <4>1 DEF FlushType
        <4>. QED BY <4>1, <4>2 DEF CheckpointInv, FlushSyncs
      <3>3. CASE StatBefore \/ SyncAndStat
        <4>1. /\ dirty' = dirty
              /\ flush'.completed = flush.completed /\ flush'.verified = flush.verified /\ flush'.taken = flush.taken
          BY <1>t, <3>3 DEF StatBefore, SyncAndStat, storage, FlushType
        <4>. QED BY <4>1
      <3>. QED BY <1>11, <3>1, <3>2, <3>3
    <2>. QED BY <2>1, <2>2, ClaimsFlush DEF Settling
  <1>12. CASE SaveCheckpoint
    <2>1. /\ toHash' = toHash /\ finishing' = finishing /\ flush.stage = "sweep" /\ flush' = Idle
          /\ checkpoint'.verified = flush.verified /\ stateFile'.completed = flush.completed
      BY <1>12 DEF SaveCheckpoint, Swept, session
    <2>2. toHash = {} /\ flush.verified \subseteq flush.completed /\ flush.verified \subseteq held
      BY <2>1 DEF ProgressFits, FlushFits, Settling, CheckpointInv, FlushSyncs
    <2>3. \A p \in flush.verified : p \notin finishing
      BY <1>t, <2>2 DEF ProgressFits, ListsFit, Working
    <2>. QED BY <2>1, <2>2, <2>3, IdleFacts DEF ClaimsFit, Settling
  <1>13. CASE FlushFails
    <2>1. /\ UNCHANGED <<checkpoint, stateFile, toHash, unverified, held, finishing, mappedDirty>> /\ flush' = Idle
          /\ (flush.stage = "hint" /\ RefreshDirty) \/ dirty' = Pending(FALSE)
      BY <1>13 DEF FlushFails, stateFiles
    <2>2. \A f \in Files : "sync" \in dirty[f] \cup flush.taken[f] => "sync" \in dirty'[f]
      <3>1. CASE flush.stage = "hint" /\ RefreshDirty
        BY <3>1, RefreshOwes DEF CheckpointInv, FlushSyncs
      <3>2. CASE dirty' = Pending(FALSE)
        BY <3>2 DEF Pending
      <3>. QED BY <2>1, <3>1, <3>2
    <2>. QED BY <2>1, <2>2, IdleFacts, ClaimsFlush DEF Settling
  <1>. QED BY <1>1, <1>2, <1>3, <1>4, <1>5, <1>6, <1>7, <1>8, <1>9, <1>10, <1>11, <1>12, <1>13 DEF ResumeNext

\* What fits is recorded.
LEMMA FitsRecorded == CheckpointInv /\ ProgressFits => ProgressIsRecorded
  <1>. SUFFICES ASSUME CheckpointInv, ProgressFits PROVE ProgressIsRecorded
    OBVIOUS
  <1>1. Up /\ ~closing /\ ~stateDirty /\ flush.stage = "idle" /\ stateFile.is => held \subseteq stateFile.completed
    BY DEF ProgressFits, FlushFits
  <1>2. ASSUME ~(forced /\ demoted) PROVE CheckpointCoversHeld
    <2>. SUFFICES ASSUME Up, ~closing, Quiescent, ~stateDirty, flush.stage = "idle", stateFile.is, edited = {}, ~failed,
                         mapped = {}, finishing = {}, \A p \in Pieces : jobs[p] = {}
                  PROVE  LoadedVerified = held
      BY DEF CheckpointCoversHeld
    <2>1. /\ stateFile.verified = held /\ held \subseteq stateFile.completed
          /\ \A p \in held : \A f \in Overlaps[p] : Described(stateFile.ids, f)
      BY <1>1, <1>2 DEF ProgressFits, CoverFits, Undisturbed
    <2>2. \A f \in Files : ~Active(f)
      BY DEF Active, Working
    <2>3. held \cap Recheck = {}
      <3>. SUFFICES ASSUME NEW p \in held, NEW f \in Overlaps[p]
                    PROVE  stateFile.ids[f] # 0 /\ stateFile.ids[f] = disk[f].stamp
        BY DEF Recheck
      <3>1. f \in Files
        BY Constants DEF CheckpointInv, ResumeTypeOK, SessionTypeOK
      <3>. QED BY <2>1, <2>2, <3>1 DEF Described, ProgressFits, ListsFit
    <2>. QED BY <2>1, <2>3 DEF LoadedVerified
  <1>. QED BY <1>1, <1>2 DEF ProgressIsRecorded, FlushedIsClaimed

\* Where files settle before a start: whatever was written, hashed, mapped, paused
\* or lost, whatever a start was told to check again, and whenever a flush took its
\* copy of the lists, when none is wanted or under way the state file claims every
\* piece there is; and a start takes those of a resting session from its checkpoint
\* without hashing, unless that session was told to check everything again and the
\* last hint it saved trusts less than the checkpoint (flushState,
\* saveResumeCheckpoint).
THEOREM ProgressRecorded ==
    ASSUME Settles
    PROVE  ResumeSpec => []ProgressIsRecorded
  <1>1. ResumeInit => CheckpointInv /\ ProgressFits /\ ClaimsFit
    <2>1. ResumeInit => ClaimsFit
      BY DEF ResumeInit, NoCheckpoint, ClaimsFit
    <2>. QED BY <2>1, CheckpointInitially, FitsInitially
  <1>2. CheckpointInv /\ ProgressFits /\ ClaimsFit /\ [ResumeNext]_resumeVars
          => CheckpointInv' /\ ProgressFits' /\ ClaimsFit'
    BY CheckpointStep, FitsStep, ClaimsStep
  <1>3. CheckpointInv /\ ProgressFits => ProgressIsRecorded
    BY FitsRecorded
  <1>. QED BY <1>1, <1>2, <1>3, PTL DEF ResumeSpec
=============================================================================
