------------------------------ MODULE PathClaims ------------------------------
(***************************************************************************)
(* The manager's table of payload paths (pkg/downloader/path_claims.go):   *)
(* the first torrent on a path is recorded inline in the entry, torrents   *)
(* cross-seeding it in a second table, and deletions as a count.  Every    *)
(* action is one critical section of claimMu.                              *)
(*                                                                         *)
(* A torrent declares a path with one length, and no path twice.           *)
(***************************************************************************)
EXTENDS Naturals, FiniteSets, FiniteSetsExt

CONSTANTS Torrent, Path,
          LengthOf,      \* LengthOf[t][p]: the length t declares for p
          FileLists,     \* FileLists[t]: path sets t may claim, one per
                         \* download directory it may end up in
          Nobody         \* no torrent: the remover of files being moved

ASSUME ClaimsAssumption ==
  /\ LengthOf \in [Torrent -> [Path -> Nat]]
  /\ FileLists \in [Torrent -> SUBSET (SUBSET Path)]
  /\ Nobody \notin Torrent

VARIABLES
  pathClaims,    \* the entry of each path
  sharedClaims,  \* sharedClaims[p][t]: claims of a cross-seeding torrent
  holds,         \* holds[t][K]: releases of claimPaths not called yet
  reservations   \* reservations[t][F]: releases of a deletion not called yet

claimVars == <<pathClaims, sharedClaims, holds, reservations>>

Claim == [length : Nat, infoHash : Torrent \cup {Nobody}, refs : Nat,
          shared : Nat, deleting : Nat]

\* The zero value a lookup of a missing key returns.
Unclaimed == [length |-> 0, infoHash |-> Nobody, refs |-> 0, shared |-> 0,
              deleting |-> 0]

ClaimsInit ==
  /\ pathClaims = [p \in Path |-> Unclaimed]
  /\ sharedClaims = [p \in Path |-> [t \in Torrent |-> 0]]
  /\ holds = [t \in Torrent |-> [K \in SUBSET Path |-> 0]]
  /\ reservations = [t \in Torrent \cup {Nobody} |-> [F \in SUBSET Path |-> 0]]

ClaimsTypeOK ==
  /\ pathClaims \in [Path -> Claim]
  /\ sharedClaims \in [Path -> [Torrent -> Nat]]
  /\ holds \in [Torrent -> [SUBSET Path -> Nat]]
  /\ reservations \in [Torrent \cup {Nobody} -> [SUBSET Path -> Nat]]

-----------------------------------------------------------------------------
Inline(p, t) == pathClaims[p].refs > 0 /\ pathClaims[p].infoHash = t
Shares(p, t) == pathClaims[p].shared > 0 /\ sharedClaims[p][t] > 0
AllRefs(p) == pathClaims[p].refs + pathClaims[p].shared

\* ownRefsLocked
OwnRefs(p, t) ==
  IF Inline(p, t) THEN pathClaims[p].refs
  ELSE IF pathClaims[p].shared = 0 THEN 0 ELSE sharedClaims[p][t]

Joinable(p, t) ==
  \/ OwnRefs(p, t) > 0
  \/ /\ pathClaims[p].deleting = 0
     /\ AllRefs(p) > 0 => pathClaims[p].length = LengthOf[t][p]

\* addHoldLocked: again inline, again shared, the free inline slot, or one more
\* cross-seed.  TakesInline tells where the claim goes; a variant looks at the
\* free slot before the torrent's own shared claims.
TakesFreeSlotFirst(p, t) == Inline(p, t) \/ pathClaims[p].refs = 0
TakesInline(p, t) ==
  \/ Inline(p, t)
  \/ ~Shares(p, t) /\ pathClaims[p].refs = 0

AddHold(p, t) ==
  LET c == pathClaims[p]
  IN IF ~TakesInline(p, t) THEN [c EXCEPT !.shared = @ + 1]
     ELSE IF Inline(p, t) THEN [c EXCEPT !.refs = @ + 1]
     ELSE [c EXCEPT !.infoHash = t, !.refs = 1, !.length = LengthOf[t][p]]

\* storeClaimLocked drops an entry nobody holds or deletes; a variant keeps it.
KeepEntry(c) == c
StoreClaim(c) ==
  IF c.refs = 0 /\ c.shared = 0 /\ c.deleting = 0 THEN Unclaimed ELSE c

RemoveHold(p, t) ==
  LET c == pathClaims[p]
  IN StoreClaim(IF Inline(p, t) THEN [c EXCEPT !.refs = @ - 1]
                ELSE IF Shares(p, t) THEN [c EXCEPT !.shared = @ - 1]
                ELSE c)

\* Releases are wrapped in sync.Once: one acts while it has not been called.
Once(uncalled) == uncalled > 0

-----------------------------------------------------------------------------
\* claimPaths: all or none of K.
ClaimPaths(t, K) ==
  /\ \A p \in K : Joinable(p, t)
  /\ pathClaims' = [p \in Path |-> IF p \in K THEN AddHold(p, t)
                                   ELSE pathClaims[p]]
  /\ sharedClaims' =
       [p \in Path |-> IF p \in K /\ ~TakesInline(p, t)
                       THEN [sharedClaims[p] EXCEPT ![t] = @ + 1]
                       ELSE sharedClaims[p]]
  /\ holds' = [holds EXCEPT ![t][K] = @ + 1]
  /\ UNCHANGED reservations

\* The release claimPaths returned.
ReleaseHold(t, K) ==
  /\ Once(holds[t][K])
  /\ pathClaims' = [p \in Path |-> IF p \in K THEN RemoveHold(p, t)
                                   ELSE pathClaims[p]]
  /\ sharedClaims' =
       [p \in Path |-> IF p \in K /\ ~Inline(p, t) /\ Shares(p, t)
                       THEN [sharedClaims[p] EXCEPT ![t] = @ - 1]
                       ELSE sharedClaims[p]]
  /\ holds' = [holds EXCEPT ![t][K] = @ - 1]
  /\ UNCHANGED reservations

FreePaths(t, K) == {p \in K : AllRefs(p) <= OwnRefs(p, t)}
UnheldPaths(K) == {p \in K : AllRefs(p) + pathClaims[p].deleting = 0}

MarkDeleting(t, F) ==
  /\ pathClaims' = [p \in Path |-> IF p \in F
                                   THEN [pathClaims[p] EXCEPT !.deleting = @ + 1]
                                   ELSE pathClaims[p]]
  /\ reservations' = [reservations EXCEPT ![t][F] = @ + 1]
  /\ UNCHANGED <<sharedClaims, holds>>

\* claimFreePaths, for a deletion on behalf of t, and claimUnheldPaths, for a
\* move of legacy files.
ClaimFreePaths(t, K) == MarkDeleting(t, FreePaths(t, K))
ClaimUnheldPaths(K) == MarkDeleting(Nobody, UnheldPaths(K))

ReleaseDeleting(t, F) ==
  /\ Once(reservations[t][F])
  /\ pathClaims' =
       [p \in Path |-> IF p \in F
                       THEN StoreClaim([pathClaims[p] EXCEPT !.deleting = @ - 1])
                       ELSE pathClaims[p]]
  /\ reservations' = [reservations EXCEPT ![t][F] = @ - 1]
  /\ UNCHANGED <<sharedClaims, holds>>

ClaimsNext ==
  \/ \E t \in Torrent : \E K \in FileLists[t] :
       ClaimPaths(t, K) \/ ReleaseHold(t, K) \/ ClaimFreePaths(t, K) \/ ClaimUnheldPaths(K)
  \/ \E t \in Torrent \cup {Nobody} : \E F \in SUBSET Path : ReleaseDeleting(t, F)

ClaimsSpec == ClaimsInit /\ [][ClaimsNext]_claimVars

-----------------------------------------------------------------------------
(* Properties.                                                             *)

\* While files are being deleted for one torrent, or moved, no other torrent
\* holds any of them (manager.go deletePayload): a deletion never takes the
\* payload of a cross-seed, however adds and removals interleave.
DeletionIsExclusive ==
  \A t \in Torrent \cup {Nobody} : \A F \in SUBSET Path :
    reservations[t][F] > 0 =>
      \A p \in F, u \in Torrent \ {t} : OwnRefs(p, u) = 0

\* Torrents holding one path agree on its length, so neither resizes the
\* other's file (ErrPathInUse).
HoldersAgreeOnLength ==
  \A p \in Path : \A t, u \in Torrent :
    OwnRefs(p, t) > 0 /\ OwnRefs(p, u) > 0 => LengthOf[t][p] = LengthOf[u][p]

\* When every release has been called the table is empty: no reference is lost
\* or left, whichever table it moved through.
Drained ==
  /\ \A t \in Torrent : \A K \in SUBSET Path : holds[t][K] = 0
  /\ \A t \in Torrent \cup {Nobody} : \A F \in SUBSET Path :
       reservations[t][F] = 0
NothingLeftBehind == Drained => \A p \in Path : pathClaims[p] = Unclaimed

\* The tables of claims lose and keep no reference, no deletion takes a path
\* another torrent holds, and the torrents that hold a path agree on its length
\* (path_claims.go).
ClaimsAreExact ==
  ClaimsTypeOK /\ DeletionIsExclusive /\ HoldersAgreeOnLength /\ NothingLeftBehind

\* The two tables together count what each torrent really holds, so claims,
\* releases and deletions do exactly what PathOwnership says.
Ownership == INSTANCE PathOwnership WITH
  holders <- [p \in Path |-> [t \in Torrent |-> OwnRefs(p, t)]],
  reserved <- [p \in Path |-> pathClaims[p].deleting]
ClaimsImplementOwnership == Ownership!Spec
=============================================================================
