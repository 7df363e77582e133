------------------------------ MODULE MCSwarm ------------------------------
(***************************************************************************)
(* What a session does with its peers and for its readers: uploads under   *)
(* the choker and the rate limiter, the announcements of pieces, the       *)
(* exchange of metadata, the picker with its index of needed pieces, and   *)
(* the sequential readers.  They are joined by PieceLifecycle's states and *)
(* share nothing else that they change, so a behaviour runs one of them    *)
(* and `part` says which.                                                  *)
(***************************************************************************)
EXTENDS TorrentReaders, Uploads, Advertising, MetadataExchange, PiecePicker, TLC

VARIABLES
    part        \* the component this behaviour is of

Parts == {"uploads", "advertising", "metadata", "picker", "readers"}

----------------------------------------------------------------------------
(* Uploads: three peers, p with the fast extension, one slot               *)

Uploading(ps, ks, m, c, x) == [peers |-> ps, kinds |-> ks, messages |-> m, conns |-> c, changes |-> x]
MCUploadPlans ==
    {Uploading({"p", "q", "r"}, {"interested", "not_interested"}, 3, 3, 0),
     Uploading({"p"}, {"request", "cancel", "interested"}, 4, 1, 0),
     Uploading({"q"}, {"request", "cancel", "interested"}, 4, 1, 0),
     Uploading({"p"}, {"request", "interested", "not_interested"}, 4, 1, 0),
     Uploading({"p", "q"}, {"request", "interested"}, 2, 3, 0),
     Uploading({"q"}, {"request", "cancel", "keep_alive"}, 2, 1, 0),
     Uploading({"p"}, {"request"}, 2, 1, 2)}

----------------------------------------------------------------------------
(* Announcements and metadata: two connections                             *)

Announcing(c, d, ws, rp, cl) == [left |-> ("c" :> c) @@ ("d" :> d), writers |-> ws, repairs |-> rp, closes |-> cl]
MCAnnouncePlans ==
    {Announcing(2, 0, {"w"}, 0, FALSE), Announcing(1, 1, {}, 0, FALSE), Announcing(3, -1, {}, 0, FALSE),
     Announcing(0, -1, {"w", "x"}, 2, FALSE), Announcing(0, 0, {"w"}, 1, TRUE)}

MCHostOf == ("c" :> "h") @@ ("d" :> "g")
Advertise(n, m) == ("c" :> n) @@ ("d" :> m)
MagnetPlan(s, ls, pa, fs, ds, cl, es) ==
    [size |-> s, liars |-> ls, parses |-> pa, failures |-> fs, drops |-> ds, close |-> cl, epochs |-> es]
MCMetadataPlans ==
    {MagnetPlan(Advertise(2, 2), {}, TRUE, 1, 1, TRUE, 3),
     MagnetPlan(Advertise(2, 2), {"d"}, TRUE, 1, 2, FALSE, 3),
     MagnetPlan(Advertise(2, 2), {}, FALSE, 0, 1, FALSE, 2),
     MagnetPlan(Advertise(2, 3), {"d"}, TRUE, 1, 1, FALSE, 3),
     MagnetPlan(Advertise(2, 1), {"d"}, TRUE, 1, 0, TRUE, 3)}

----------------------------------------------------------------------------
(* The picker: two connections, piece 1 across two files                   *)

MCFilesOf == (0 :> {"a"}) @@ (1 :> {"a", "b"})
All == {0, 1}
Picking(cs, bs, ps, an, ch, re, di, pr, fa, rp) ==
    [conns |-> cs, bitfields |-> bs, priorities |-> ps,
     budget |-> [announce |-> an, choke |-> ch, reject |-> re, disconnect |-> di, priority |-> pr,
                 fail |-> fa, repair |-> rp]]
MCPickerPlans ==
    {Picking(PeerLoops, {All, {1}}, {0, 3}, 1, 0, 0, 0, 2, 0, 0),
     Picking(PeerLoops, {{1}}, {0}, 2, 1, 0, 0, 1, 0, 0),
     Picking(PeerLoops, {{0}}, {}, 2, 0, 0, 1, 0, 0, 0),
     Picking({"c"}, {All}, {}, 2, 1, 1, 1, 0, 1, 1)}

----------------------------------------------------------------------------
(* Readers: one of the whole torrent, one of a file inside it              *)

MCExposed == (0 :> [base |-> 0, length |-> 5]) @@ (1 :> [base |-> 1, length |-> 3])
MCCalls == {[off |-> 0, len |-> 9], [off |-> 1, len |-> 2]}
Reading(rs, un, has, sel, man, rd, hb, fa, rp, sl, ps, mn, cl, cr) ==
    [readers |-> rs, resumed |-> un, has |-> has, selections |-> sel, manual |-> man,
     budget |-> [read |-> rd, handback |-> hb, fail |-> fa, repair |-> rp, select |-> sl,
                 persist |-> ps, manual |-> mn, close |-> cl, closeReader |-> cr]]
ManualFrom1 == {[start |-> 1, end |-> 0, ahead |-> 1]}
MCReaderPlans ==
    {Reading({0, 1}, {}, {0 .. 2}, {}, {}, 2, 0, 0, 0, 0, 0, 0, 0, 1),
     Reading({0, 1}, {2}, {{2}}, {}, {}, 2, 0, 0, 0, 0, 1, 0, 0, 0),
     Reading({0}, {}, {0 .. 2, {2}}, {{0, 1}, 0 .. 2}, {}, 1, 1, 1, 0, 2, 0, 0, 0, 1),
     Reading({0}, {}, {0 .. 2}, {}, ManualFrom1, 1, 0, 0, 1, 0, 1, 1, 0, 0),
     Reading({0}, {}, {0 .. 2}, {}, ManualFrom1, 1, 0, 1, 0, 0, 1, 0, 1, 0),
     Reading({1}, {0}, {0 .. 2, {2}}, {}, ManualFrom1, 2, 1, 0, 0, 0, 0, 1, 0, 1)}

----------------------------------------------------------------------------
(* What the theorems about the parts assume holds here.                    *)

ASSUME SwarmUploads == UploadAssumption
ASSUME SwarmAnnouncements == AnnounceAssumption
ASSUME SwarmMetadata == MetadataAssumption
ASSUME SwarmHosts == HostsApart

----------------------------------------------------------------------------
otherVars == <<readerVars, uploadsVars, announceVars, fetchVars>>

\* The parts a behaviour is not of start in one state.
SwarmInit ==
    /\ part \in Parts
    /\ UploadsInit /\ AnnounceInit /\ FetchInit /\ PickerInit /\ ReadersInit
    /\ part # "uploads" => limit = CHOOSE l \in Limits : TRUE
    /\ part # "uploads" => uploadPlan = CHOOSE p \in UploadPlans : TRUE
    /\ part # "advertising" => mode = "ready" /\ left = (CHOOSE p \in AnnouncePlans : TRUE).left
    /\ part # "metadata" => fetchPlan = CHOOSE p \in MetadataPlans : TRUE
    /\ part # "picker" => pickerPlan = CHOOSE p \in MCPickerPlans : TRUE
    /\ part # "readers" => readerPlan = CHOOSE p \in ReaderPlans : TRUE

SwarmNext ==
    /\ UNCHANGED part
    /\ \/ part = "uploads" /\ UploadsNext /\ UNCHANGED <<announceVars, fetchVars, pickerVars, readerVars>>
       \/ part = "advertising" /\ AnnounceNext /\ UNCHANGED <<uploadsVars, fetchVars, pickerVars, readerVars>>
       \/ part = "metadata" /\ FetchNext /\ UNCHANGED <<uploadsVars, announceVars, pickerVars, readerVars>>
       \/ part = "picker" /\ PickerNext /\ UNCHANGED otherVars
       \/ part = "readers" /\ ReadersNext /\ UNCHANGED <<uploadsVars, announceVars, fetchVars, pickerVars>>

SwarmSpec == SwarmInit /\ [][SwarmNext]_<<part, otherVars, pickerVars>>

----------------------------------------------------------------------------
(* Properties: those of the modules, which hold in every part: what does    *)
(* not move stays as it began.                                              *)
=============================================================================
