------------------------------- MODULE MCDecode -------------------------------
(***************************************************************************)
(* Packages of the kind conformance.py leaves behind, for run_decode.     *)
(***************************************************************************)
EXTENDS DecodeConformance

File(id, seq, depth, cfg, codec, format, md5, payload, storedUd) ==
    [id |-> id, seq |-> seq, depth |-> depth, cfg |-> cfg, codec |-> codec,
     format |-> format, md5 |-> md5, payload |-> payload, storedUd |-> storedUd]

\* An avc stream with its .cfg; a 14 bit hevc stream known only by its
\* name; two of them carry the same user data.
fCactus == File("a", "Cactus", "10bit", TRUE, "avc", "yuv420p10", TRUE, "P1", TRUE)
fPark   == File("b", "ParkRunning3", "14bit", FALSE, "hevc", "yuv420p14", TRUE, "P1", TRUE)

\* An 8 bit 4:2:0 avc stream without user data as conformance.py leaves it
\* (with .cfg and .yuv.md5), and the validator's {output}_sdk.bit beside
\* it, which has neither and is known only by its name.
fRead    == File("c", "CanYouReadThis", "8bit", TRUE, "avc", "yuv420p8", TRUE,
                 NoUserData, FALSE)
fReadSdk == File("f", "CanYouReadThis", "8bit", FALSE, "avc", "yuv420p8", FALSE,
                 NoUserData, FALSE)

\* A stream whose name names no known sequence and that has no .cfg.
fOther  == File("d", "BasketballDrive", "10bit", FALSE, "hevc", "yuv420p10", TRUE,
                NoUserData, FALSE)

\* The validator's repackaging {output}_sdk.bit of fCactus, which
\* conformance.py leaves beside it: same user data, no .cfg, no stored
\* user data or md5.
fCactusSdk == File("e", "Cactus", "10bit", FALSE, "avc", "yuv420p10", FALSE, "P1", FALSE)

PackageClean == {fCactus, fPark, fRead, fReadSdk}
PackageUnknownName == {fCactus, fOther}
PackageWithSdk == {fCactusSdk, fPark}

=============================================================================
