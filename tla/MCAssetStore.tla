---------------------------- MODULE MCAssetStore ----------------------------
(* AssetStore for TLC: a public photo, which may be from before; a scan    *)
(* sent as a public image by some and as a public file by others; and one  *)
(* picture stored twice, as two files of one name that differ in their     *)
(* metadata only, the first public (shot) and the second private (edit).   *)
EXTENDS AssetStore, TLC

CONSTANTS photo, scan, shot, edit

MCStem == [a \in Assets |->
    CASE a = scan -> "scan" [] a = photo -> "photo" [] OTHER -> "river"]

MCLegacyKind == [a \in Assets |-> "image"]

Sent(a, visibility, kind) ==
    [key |-> a, digest |-> "sum", visibility |-> visibility, kind |-> kind]

MCRequests == {r \in {Sent(photo, "public", "image"),
                      Sent(scan, "public", "image"), Sent(scan, "public", "file"),
                      Sent(shot, "public", "image"), Sent(edit, "private", "image")} :
                   r.key \in Assets}

InUse == {a \in Assets : acl[a] # "none" \/ \E u \in Uploaders : uploader[u].key = a}

\* Keys that share no object share nothing but the operator's lists: a state
\* in which a second one is in use is not followed further.
OneKeyInUse == Cardinality(InUse) <= 1

\* No upload is told from another by the request that carries it, and nothing
\* checked here is a liveness property.
MCSymmetry == Permutations(Uploaders)
=============================================================================
